----------------------------- MODULE AuditProofs ----------------------------
(***************************************************************************)
(* The audit trail of every bet matches its status, and the terms of a bet *)
(* never change.  A commit logs one event and moves the bet from a status  *)
(* the request can still rely on (Sound), so the trail grows along    *)
(* the transition table; only a cancellation may come from anywhere.       *)
(***************************************************************************)
EXTENDS ConsistencyProofs

(* Bet b moves to a status and one event is logged; no other bet changes. *)
Logged(b, type, to) ==
  /\ bet'[b].status = to
  /\ events'[b] = [events[b] EXCEPT ![type] = @ + 1]
  /\ \A c \in Bets \ {b} : bet'[c] = bet[c] /\ events'[c] = events[c]

(* The transition table, with the event of each transition. *)
Follows(b, type, to) ==
  \/ bet[b].status = "none" /\ type = "CREATED" /\ to = "OPEN"
  \/ bet[b].status = "OPEN" /\ type = "MATCHED" /\ to = "MATCHED"
  \/ bet[b].status = "MATCHED" /\ type = "PENDING_SETTLEMENT" /\ to = "PENDING_SETTLEMENT"
  \/ bet[b].status = "PENDING_SETTLEMENT" /\ type = "SETTLED" /\ to = "SETTLED"
  \/ bet[b].status \in {"OPEN", "MATCHED"} /\ type = "VOIDED" /\ to = "VOIDED"
  \/ bet[b].status # "none" /\ type = "CANCELLED" /\ to = "CANCELLED"

(* What the trail of a bet that exists says, whatever its status. *)
LEMMA TrailBounds ==
  ASSUME NEW b \in Bets, Audited(b), bet[b].status \in BetStatus,
         events[b] \in [EventTypes -> Nat]
  PROVE  \E m, p, s, v \in 0..1 :
           /\ Trail(b, 1, m, p, s, events[b]["CANCELLED"], v)
           /\ s <= p /\ p <= m /\ p + v <= 1
<1>1. CASE bet[b].status = "OPEN" BY <1>1 DEF Audited, Trail
<1>2. CASE bet[b].status = "MATCHED" BY <1>2 DEF Audited, Trail
<1>3. CASE bet[b].status = "PENDING_SETTLEMENT" BY <1>3 DEF Audited, Trail
<1>4. CASE bet[b].status = "SETTLED" BY <1>4 DEF Audited, Trail
<1>5. CASE bet[b].status = "VOIDED" BY <1>5 DEF Audited, Trail
<1>6. CASE bet[b].status = "CANCELLED" BY <1>6 DEF Audited, Trail
<1> QED BY <1>1, <1>2, <1>3, <1>4, <1>5, <1>6 DEF BetStatus

(* A transition of the table extends the trail of a bet correctly. *)
LEMMA TrailGrows ==
  ASSUME NEW b \in Bets, NEW type, NEW to, Audited(b), Follows(b, type, to),
         bet[b].status \in BetStatus \cup {"none"}, events[b] \in [EventTypes -> Nat],
         bet'[b].status = to, events'[b] = [events[b] EXCEPT ![type] = @ + 1]
  PROVE  Audited(b)'
<1>1. CASE bet[b].status = "none" /\ type = "CREATED" /\ to = "OPEN"
  BY <1>1 DEF Audited, Trail, EventTypes
<1>2. CASE bet[b].status = "OPEN" /\ type = "MATCHED" /\ to = "MATCHED"
  BY <1>2 DEF Audited, Trail, EventTypes
<1>3. CASE bet[b].status = "MATCHED" /\ type = "PENDING_SETTLEMENT"
             /\ to = "PENDING_SETTLEMENT"
  BY <1>3 DEF Audited, Trail, EventTypes
<1>4. CASE bet[b].status = "PENDING_SETTLEMENT" /\ type = "SETTLED" /\ to = "SETTLED"
  BY <1>4 DEF Audited, Trail, EventTypes
<1>5. CASE bet[b].status \in {"OPEN", "MATCHED"} /\ type = "VOIDED" /\ to = "VOIDED"
  <2>1. \E m \in 0..1 : Trail(b, 1, m, 0, 0, 0, 0)
    <3>1. CASE bet[b].status = "OPEN" BY <3>1 DEF Audited
    <3>2. CASE bet[b].status = "MATCHED" BY <3>2 DEF Audited
    <3> QED BY <1>5, <3>1, <3>2
  <2>2. \E m \in 0..1 : Trail(b, 1, m, 0, 0, 0, 1)' BY <1>5, <2>1 DEF Trail, EventTypes
  <2> QED BY <1>5, <2>2 DEF Audited
<1>6. CASE bet[b].status # "none" /\ type = "CANCELLED" /\ to = "CANCELLED"
  <2>1. PICK m \in 0..1, p \in 0..1, s \in 0..1, v \in 0..1 :
          /\ Trail(b, 1, m, p, s, events[b]["CANCELLED"], v)
          /\ s <= p /\ p <= m /\ p + v <= 1
    <3>1. bet[b].status \in BetStatus BY <1>6
    <3> QED BY <3>1, TrailBounds
  <2>2. Trail(b, 1, m, p, s, events[b]["CANCELLED"], v)'
    BY <1>6, <2>1 DEF Trail, EventTypes
  <2>3. events'[b]["CANCELLED"] = events[b]["CANCELLED"] + 1 /\ events'[b]["CANCELLED"] > 0
    BY <1>6 DEF EventTypes
  <2> QED BY <1>6, <2>1, <2>2, <2>3 DEF Audited, Trail
<1> QED BY <1>1, <1>2, <1>3, <1>4, <1>5, <1>6 DEF Follows

(* The bet that a commit in flight is about. *)
LEMMA CommitMoves ==
  ASSUME Sound, NEW t \in Workers, NEW b, b = req[t].bet,
         \/ CreateCommit(t) \/ AcceptCommit(t) \/ CancelCommit(t) \/ VoidCommit(t)
         \/ SettleWinner(t) \/ SettleNoWinner(t)
  PROVE  /\ b \in Bets
         /\ \E type \in EventTypes, to \in BetStatus :
              Follows(b, type, to) /\ Logged(b, type, to)
<1> USE DEF EventTypes, BetStatus
<1>1. bet \in [Bets -> Bet] /\ events \in [Bets -> [EventTypes -> Nat]] /\ RequestOK(t)
  BY DEF Sound, Typed
<1>2. CASE CreateCommit(t)
  <2>1. b \in Bets /\ bet[b].status = "none" BY <1>1, <1>2 DEF CreateCommit, RequestOK, CreateOK
  <2>2. Logged(b, "CREATED", "OPEN")
    BY <1>1, <1>2, <2>1 DEF CreateCommit, Logged, write_bet_event, NoBet
  <2> QED BY <2>1, <2>2 DEF Follows
<1>3. CASE AcceptCommit(t)
  <2>1. b \in Bets /\ bet[b].status = "OPEN" BY <1>1, <1>3 DEF AcceptCommit, RequestOK, AcceptOK
  <2>2. Logged(b, "MATCHED", "MATCHED")
    BY <1>1, <1>3, <2>1 DEF AcceptCommit, Logged, write_bet_event, Bet
  <2> QED BY <2>1, <2>2 DEF Follows
<1>4. CASE CancelCommit(t)
  <2>1. b \in Bets /\ bet[b].status # "none"
    BY <1>1, <1>4 DEF CancelCommit, RequestOK, CancelOK
  <2>2. Logged(b, "CANCELLED", "CANCELLED")
    BY <1>1, <1>4, <2>1 DEF CancelCommit, Logged, write_bet_event, Bet
  <2> QED BY <2>1, <2>2 DEF Follows
<1>5. CASE VoidCommit(t)
  <2>1. b \in Bets /\ bet[b].status \in {"OPEN", "MATCHED"}
    BY <1>1, <1>5 DEF VoidCommit, RequestOK, VoidOK
  <2>2. Logged(b, "VOIDED", "VOIDED")
    BY <1>1, <1>5, <2>1 DEF VoidCommit, Logged, write_bet_event, Bet
  <2> QED BY <2>1, <2>2 DEF Follows
<1>6. CASE SettleWinner(t) \/ SettleNoWinner(t)
  <2>1. b \in Bets /\ bet[b].status = "PENDING_SETTLEMENT"
    BY <1>1, <1>6 DEF SettleWinner, SettleNoWinner, CompleteSettlement, CanSettle, RequestOK,
       SettlePCs, SettleOK
  <2>2. PICK winner, payout, fee, rate : CompleteSettlement(t, winner, payout, fee, rate)
    BY <1>6 DEF SettleWinner, SettleNoWinner
  <2>3. Logged(b, "SETTLED", "SETTLED")
    BY <1>1, <2>1, <2>2 DEF CompleteSettlement, Logged, write_bet_event, Bet
  <2> QED BY <2>1, <2>3 DEF Follows
<1> QED BY <1>2, <1>3, <1>4, <1>5, <1>6

(* One logged transition of the table leaves every trail correct. *)
LEMMA LoggedKeepsAudit ==
  ASSUME Sound, AuditExact, NEW b \in Bets, NEW type, NEW to,
         Follows(b, type, to), Logged(b, type, to)
  PROVE  AuditExact'
<1>1. bet \in [Bets -> Bet] /\ events \in [Bets -> [EventTypes -> Nat]]
  BY DEF Sound, Typed
<1>2. bet[b].status \in BetStatus \cup {"none"} /\ events[b] \in [EventTypes -> Nat]
  BY <1>1 DEF Bet
<1>3. Audited(b)' BY <1>2, TrailGrows DEF AuditExact, Logged
<1>4. ASSUME NEW c \in Bets \ {b} PROVE Audited(c)'
  <2>1. bet'[c] = bet[c] /\ events'[c] = events[c] BY <1>4 DEF Logged
  <2>2. Audited(c) BY <1>4 DEF AuditExact
  <2> QED BY <2>1, <2>2 DEF Audited, Trail
<1> QED BY <1>3, <1>4 DEF AuditExact

(* A confirmation queues the MATCHED bets it has locked. *)
LEMMA ConfirmKeepsAudit ==
  ASSUME Sound, AuditExact, NEW t \in Workers, ConfirmCommit(t)
  PROVE  AuditExact'
<1>1. /\ bet \in [Bets -> Bet] /\ events \in [Bets -> [EventTypes -> Nat]]
      /\ RequestOK(t) /\ pc[t] = "confirm_rows"
  BY DEF Sound, Typed, ConfirmCommit
<1>2. SUFFICES ASSUME NEW b \in Bets PROVE Audited(b)' BY DEF AuditExact
<1>3. bet[b].status \in BetStatus \cup {"none"} /\ events[b] \in [EventTypes -> Nat]
  BY <1>1 DEF Bet
<1>4. CASE b \in req[t].cached
  <2>1. bet[b].status = "MATCHED" BY <1>1, <1>4 DEF RequestOK, ConfirmOK
  <2>2. bet'[b].status = "PENDING_SETTLEMENT" BY <1>1, <1>4 DEF ConfirmCommit, Bet
  <2>3. events'[b] = [events[b] EXCEPT !["PENDING_SETTLEMENT"] = @ + 1]
    BY <1>4 DEF ConfirmCommit
  <2>4. Follows(b, "PENDING_SETTLEMENT", "PENDING_SETTLEMENT") BY <2>1 DEF Follows
  <2> QED BY <1>3, <2>2, <2>3, <2>4, TrailGrows DEF AuditExact
<1>5. CASE b \notin req[t].cached
  <2>1. bet'[b] = bet[b] /\ events'[b] = events[b] BY <1>5 DEF ConfirmCommit
  <2> QED BY <2>1 DEF AuditExact, Audited, Trail
<1> QED BY <1>4, <1>5

(* Which steps write rows. *)
LEMMA RowsWritten ==
  ASSUME [Next]_vars
  PROVE  \/ UNCHANGED rows
         \/ \E t \in Workers :
              \/ ConfirmCommit(t)
              \/ CreateCommit(t) \/ AcceptCommit(t) \/ CancelCommit(t) \/ VoidCommit(t)
              \/ SettleWinner(t) \/ SettleNoWinner(t)
<1>1. CASE Tick \/ UNCHANGED vars BY <1>1 DEF Tick, vars
<1>2. ASSUME NEW t \in Workers, BetServiceStep(t)
      PROVE  UNCHANGED rows \/ CreateCommit(t) \/ AcceptCommit(t) \/ CancelCommit(t)
  BY <1>2 DEF BetServiceStep, CreateBegin, AcceptLock, LockStake, LockStakeRefused,
     CancelRead, UnlockStake, UnlockStakeRefused
<1>3. ASSUME NEW t \in Workers, AdminServiceStep(t) PROVE UNCHANGED rows \/ VoidCommit(t)
  BY <1>3 DEF AdminServiceStep, VoidLock, VoidRefund, VoidRefundRefused
<1>4. ASSUME NEW t \in Workers, SettlementStep(t)
      PROVE  UNCHANGED rows \/ ConfirmCommit(t) \/ SettleWinner(t) \/ SettleNoWinner(t)
  BY <1>4 DEF SettlementStep, ConfirmLock, ConfirmScan, ConfirmRow, SettleSingle, SettleLock,
     SettleLockOn, SettleRefused, SettleRefusedOn, SettleWallet, SettlePlatform, SettleFail
<1>5. ASSUME NEW t \in Workers, DeadlockAbort(t) \/ Crash(t) PROVE UNCHANGED rows
  BY <1>5 DEF DeadlockAbort, Crash
<1> QED BY <1>1, <1>2, <1>3, <1>4, <1>5 DEF Next, ServiceStep

(* Every step keeps the audit trail exact. *)
LEMMA NextKeepsAudit == Sound /\ AuditExact /\ [Next]_vars => AuditExact'
<1> SUFFICES ASSUME Sound, AuditExact, [Next]_vars PROVE AuditExact' OBVIOUS
<1>1. CASE UNCHANGED rows
  <2>1. bet' = bet /\ events' = events BY <1>1 DEF rows
  <2>2. ASSUME NEW b \in Bets PROVE Audited(b)'
    <3>1. Audited(b) BY <2>2 DEF AuditExact
    <3> QED BY <2>1, <3>1 DEF Audited, Trail
  <2> QED BY <2>2 DEF AuditExact
<1>2. ASSUME NEW t \in Workers, ConfirmCommit(t) PROVE AuditExact'
  BY <1>2, ConfirmKeepsAudit
<1>3. ASSUME NEW t \in Workers,
             \/ CreateCommit(t) \/ AcceptCommit(t) \/ CancelCommit(t) \/ VoidCommit(t)
             \/ SettleWinner(t) \/ SettleNoWinner(t)
      PROVE  AuditExact'
  <2>1. /\ req[t].bet \in Bets
        /\ \E type \in EventTypes, to \in BetStatus :
             Follows(req[t].bet, type, to) /\ Logged(req[t].bet, type, to)
    BY <1>3, CommitMoves
  <2> QED BY <2>1, LoggedKeepsAudit
<1> QED BY <1>1, <1>2, <1>3, RowsWritten

(* For any number of requests, bets and crashes: bet_events and bets.status *)
(* tell the same story, each of create, match, queue, settle and void at   *)
(* most once and in the order of the transition table.                     *)
THEOREM AuditAlwaysExact == Spec => []AuditExact
<1>1. Init => AuditExact
  <2> SUFFICES ASSUME Init, NEW b \in Bets PROVE Audited(b) BY DEF AuditExact
  <2>1. bet[b].status = "none" /\ events[b] = [e \in EventTypes |-> 0]
    BY DEF Init, InitRest, NoBet
  <2> QED BY <2>1 DEF Audited, Trail, EventTypes
<1>2. Consistent /\ AuditExact /\ [Next]_vars => AuditExact'
  BY NextKeepsAudit DEF Consistent
<1> QED BY <1>1, <1>2, ConsistentAlways, PTL DEF Spec

-----------------------------------------------------------------------------
(* The settled amounts of a bet are written by its settlement alone. *)
LEMMA SettlesOnce ==
  ASSUME Sound, AuditExact, NEW t \in Workers, SettleWinner(t) \/ SettleNoWinner(t),
         NEW b, b = req[t].bet
  PROVE  b \in Bets /\ events[b]["SETTLED"] = 0
<1>1. b \in Bets
  BY DEF SettleWinner, SettleNoWinner, Sound, RequestOK, SettlePCs, SettleOK
<1>2. bet[b].status = "PENDING_SETTLEMENT"
  BY DEF SettleWinner, SettleNoWinner, CompleteSettlement, CanSettle
<1> QED BY <1>1, <1>2 DEF AuditExact, Audited, Trail

(* The terms of bet b, as far as they are settled, stay. *)
TermsKept(b) ==
  bet[b].status # "none" =>
    /\ bet'[b].creator_id = bet[b].creator_id
    /\ bet'[b].stake_amount = bet[b].stake_amount
    /\ bet[b].opponent_id # NoOne =>
         /\ bet'[b].opponent_id = bet[b].opponent_id
         /\ bet'[b].opponent_prediction = bet[b].opponent_prediction
    /\ events[b]["SETTLED"] = 1 =>
         /\ bet'[b].winner_id = bet[b].winner_id
         /\ bet'[b].payout_amount = bet[b].payout_amount
         /\ bet'[b].platform_fee = bet[b].platform_fee

LEMMA NextKeepsTerms ==
  ASSUME Sound, AuditExact, [Next]_vars, NEW b \in Bets
  PROVE  TermsKept(b)
<1>1. bet \in [Bets -> Bet] /\ \A t \in Workers : RequestOK(t) BY DEF Sound, Typed
<1>2. CASE UNCHANGED rows BY <1>2 DEF rows, TermsKept
<1>3. ASSUME NEW t \in Workers, ConfirmCommit(t) PROVE TermsKept(b)
  BY <1>1, <1>3 DEF ConfirmCommit, TermsKept, Bet
<1>4. ASSUME NEW t \in Workers, CreateCommit(t) PROVE TermsKept(b)
  <2>1. bet[req[t].bet].status = "none" BY <1>1, <1>4 DEF CreateCommit, RequestOK, CreateOK
  <2> QED BY <1>1, <1>4, <2>1 DEF CreateCommit, TermsKept
<1>5. ASSUME NEW t \in Workers, AcceptCommit(t) PROVE TermsKept(b)
  <2>1. bet[req[t].bet].status = "OPEN" /\ req[t].bet \in Bets
    BY <1>1, <1>5 DEF AcceptCommit, RequestOK, AcceptOK
  <2>2. bet[req[t].bet].opponent_id = NoOne BY <2>1 DEF Sound, RowOK
  <2> QED BY <1>1, <1>5, <2>1, <2>2 DEF AcceptCommit, TermsKept, Bet
<1>6. ASSUME NEW t \in Workers, CancelCommit(t) PROVE TermsKept(b)
  BY <1>1, <1>6 DEF CancelCommit, TermsKept, Bet
<1>7. ASSUME NEW t \in Workers, VoidCommit(t) PROVE TermsKept(b)
  BY <1>1, <1>7 DEF VoidCommit, TermsKept, Bet
<1>8. ASSUME NEW t \in Workers, SettleWinner(t) \/ SettleNoWinner(t) PROVE TermsKept(b)
  <2>1. events[req[t].bet]["SETTLED"] = 0 BY <1>8, SettlesOnce
  <2>2. PICK winner, payout, fee, rate : CompleteSettlement(t, winner, payout, fee, rate)
    BY <1>8 DEF SettleWinner, SettleNoWinner
  <2> DEFINE c == req[t].bet
             n == [bet[c] EXCEPT !.status = "SETTLED",
                     !.settlement_outcome = Path(c, req[t].outcome), !.winner_id = winner,
                     !.payout_amount = payout, !.platform_fee = fee, !.applied_fee_rate = rate]
  <2>3. c \in Bets BY <1>8, SettlesOnce
  <2>4. bet' = [bet EXCEPT ![c] = n] BY <1>1, <2>2, <2>3 DEF CompleteSettlement
  <2>5. /\ n.creator_id = bet[c].creator_id /\ n.opponent_id = bet[c].opponent_id
        /\ n.stake_amount = bet[c].stake_amount
        /\ n.opponent_prediction = bet[c].opponent_prediction
    BY <1>1, <2>3 DEF Bet
  <2> HIDE DEF n
  <2> QED BY <1>1, <2>1, <2>3, <2>4, <2>5 DEF TermsKept
<1> QED BY <1>2, <1>3, <1>4, <1>5, <1>6, <1>7, <1>8, RowsWritten

(* Whatever requests race: creator, stake, and once there is one the       *)
(* opponent and his prediction never change, nor the winner, the payout    *)
(* and the fee of a bet that has been settled, even if it is cancelled     *)
(* late afterwards.                                                        *)
THEOREM TermsAlwaysFixed == Spec => TermsFixed
<1>1. Consistent /\ AuditExact /\ [Next]_vars
        => [\A b \in Bets : TermsKept(b)]_vars
  BY NextKeepsTerms DEF Consistent
<1> QED BY <1>1, ConsistentAlways, AuditAlwaysExact, PTL DEF Spec, TermsFixed, TermsKept

-----------------------------------------------------------------------------
(* Rounding to whole cents is off by half a cent at most. *)
LEMMA FeeRounding ==
  ASSUME NEW v \in Nat, NEW rate \in Nat
  PROVE  /\ safe_multiply(v, rate) \in Nat
         /\ 2 * Distance(RateUnit * safe_multiply(v, rate), v * rate) <= RateUnit
<1> DEFINE n == v * rate
           f == (2 * n + 10000) \div 20000
<1>1. n \in Nat OBVIOUS
<1>2. safe_multiply(v, rate) = f BY DEF safe_multiply, round_half_up, RateUnit
<1> HIDE DEF n
<1>3. f \in Nat /\ 20000 * f <= 2 * n + 10000 /\ 2 * n + 10000 < 20000 * f + 20000 BY <1>1
<1> HIDE DEF f
<1>4. 2 * Distance(10000 * f, n) <= 10000 BY <1>1, <1>3 DEF Distance
<1> QED BY <1>2, <1>3, <1>4 DEF RateUnit, n

(* Two equal fees, each off by half a cent, are off by a cent. *)
LEMMA TwoHalfCents ==
  ASSUME NEW v \in Nat, NEW rate \in Nat, NEW f \in Nat,
         2 * Distance(RateUnit * f, v * rate) <= RateUnit
  PROVE  2 * Distance(RateUnit * (f + f), (2 * v) * rate) <= 2 * RateUnit
<1> DEFINE n == v * rate
<1>1. n \in Nat /\ (2 * v) * rate = n + n OBVIOUS
<1>2. 2 * Distance(RateUnit * f, n) <= RateUnit OBVIOUS
<1> HIDE DEF n
<1>3. 2 * Distance(RateUnit * (f + f), n + n) <= 2 * RateUnit
  BY <1>1, <1>2 DEF Distance, RateUnit
<1> QED BY <1>1, <1>3

(* What a settlement writes to the bet is what its result calls for. *)
LEMMA SettlesByResult ==
  ASSUME Consistent, NEW t \in Workers, SettleWinner(t) \/ SettleNoWinner(t),
         NEW b, b = req[t].bet
  PROVE  PaidByResult(b)'
<1>1. /\ pc[t] = "settle_commit" /\ bet[b].status = "PENDING_SETTLEMENT" /\ match' = match
  BY DEF SettleWinner, SettleNoWinner, CompleteSettlement, CanSettle
<1>2. SettleOK(t) /\ b \in Bets /\ RowOK(b) /\ bet \in [Bets -> Bet]
  BY <1>1 DEF Consistent, Sound, RequestOK, SettlePCs, SettleOK, Typed
<1> DEFINE o == req[t].outcome
           s == bet[b].stake_amount
<1>3. /\ s \in Nat /\ req[t].stake = s
      /\ req[t].winner_fee_rate \in Nat /\ req[t].no_winner_fee_rate \in Nat
      /\ match[bet[b].match_id].outcome = o /\ match[bet[b].match_id].confirmed
      /\ bet[b].creator_id \in Users /\ bet[b].opponent_id \in Users
  BY <1>1, <1>2 DEF SettleOK, RowOK, Bet, Null, Consistent, Results, OutcomeKnown, SettlePCs
<1>4. NoOne \notin Users BY ConstantsAssumption DEF ConstantsAssumption
<1>5. /\ req[t].stake \in Nat
      /\ WinnerAmounts(t).payout \in Nat /\ WinnerAmounts(t).fee \in Nat
      /\ WinnerAmounts(t).payout + WinnerAmounts(t).fee = s + s
      /\ NoWinnerAmounts(t).refund \in Nat /\ NoWinnerAmounts(t).fee \in Nat
      /\ NoWinnerAmounts(t).refund + NoWinnerAmounts(t).fee = s
  BY <1>1, <1>3, AmountsExact DEF Consistent
<1>6. ASSUME NEW winner, NEW payout, NEW fee, NEW rate,
             CompleteSettlement(t, winner, payout, fee, rate)
      PROVE  /\ bet'[b].winner_id = winner /\ bet'[b].payout_amount = payout
             /\ bet'[b].platform_fee = fee /\ bet'[b].applied_fee_rate = rate
             /\ bet'[b].match_id = bet[b].match_id /\ bet'[b].stake_amount = s
             /\ bet'[b].creator_prediction = bet[b].creator_prediction
             /\ bet'[b].opponent_prediction = bet[b].opponent_prediction
             /\ bet'[b].creator_id = bet[b].creator_id
             /\ bet'[b].opponent_id = bet[b].opponent_id
  <2> DEFINE n == [bet[b] EXCEPT !.status = "SETTLED",
                     !.settlement_outcome = Path(b, req[t].outcome), !.winner_id = winner,
                     !.payout_amount = payout, !.platform_fee = fee, !.applied_fee_rate = rate]
  <2>1. bet' = [bet EXCEPT ![b] = n] BY <1>2, <1>6 DEF CompleteSettlement
  <2> QED BY <1>2, <2>1 DEF Bet
<1>7. CASE SettleWinner(t)
  <2> DEFINE w == IF Path(b, o) = "creator_wins" THEN bet[b].creator_id ELSE bet[b].opponent_id
             p == WinnerAmounts(t).payout
             f == WinnerAmounts(t).fee
             r == req[t].winner_fee_rate
  <2>1. /\ CompleteSettlement(t, w, p, f, r)
        /\ Path(b, o) \in {"creator_wins", "opponent_wins"}
    BY <1>7 DEF SettleWinner
  <2>2. w = CASE o = bet[b].creator_prediction  -> bet[b].creator_id
              [] o = bet[b].opponent_prediction -> bet[b].opponent_id
              [] OTHER -> NoOne
    <3>1. bet[b].opponent_prediction # bet[b].creator_prediction
      BY <1>2, <1>3, <1>4 DEF RowOK
    <3>2. CASE o = bet[b].creator_prediction
      <4>1. Path(b, o) = "creator_wins" BY <3>1, <3>2 DEF Path, determine_path
      <4> QED BY <3>1, <3>2, <4>1
    <3>3. CASE o # bet[b].creator_prediction
      <4>1. Path(b, o) # "creator_wins" BY <3>3 DEF Path, determine_path
      <4>2. o = bet[b].opponent_prediction BY <2>1, <3>3 DEF Path, determine_path
      <4> QED BY <3>3, <4>1, <4>2
    <3> QED BY <3>2, <3>3
  <2>3. w \in Users BY <1>3
  <2>4. 2 * Distance(RateUnit * f, (2 * s) * r) <= 1 * RateUnit
    <3>1. f = safe_multiply(s + s, r) BY <1>3 DEF WinnerAmounts, compute_winner_amounts
    <3>2. s + s \in Nat /\ s + s = 2 * s BY <1>3
    <3> HIDE DEF f, s, r
    <3>3. 2 * Distance(RateUnit * f, (s + s) * r) <= RateUnit BY <1>3, <3>1, <3>2, FeeRounding DEF r
    <3> QED BY <3>2, <3>3 DEF RateUnit
  <2>5. 1 * p + f = 2 * s BY <1>3, <1>5
  <2>6. /\ bet'[b].winner_id = w /\ bet'[b].payout_amount = p
        /\ bet'[b].platform_fee = f /\ bet'[b].applied_fee_rate = r
    BY <1>6, <2>1
  <2>7. /\ bet'[b].match_id = bet[b].match_id /\ bet'[b].stake_amount = s
        /\ bet'[b].creator_prediction = bet[b].creator_prediction
        /\ bet'[b].opponent_prediction = bet[b].opponent_prediction
        /\ bet'[b].creator_id = bet[b].creator_id
        /\ bet'[b].opponent_id = bet[b].opponent_id
    BY <1>6, <2>1
  <2>8. match'[bet[b].match_id].outcome = o /\ match'[bet[b].match_id].confirmed
    BY <1>1, <1>3
  <2> HIDE DEF w, p, f, r, s, o
  <2> QED BY <1>4, <2>2, <2>3, <2>4, <2>5, <2>6, <2>7, <2>8 DEF PaidByResult
<1>8. CASE SettleNoWinner(t)
  <2> DEFINE p == NoWinnerAmounts(t).refund
             f == NoWinnerAmounts(t).fee
             r == req[t].no_winner_fee_rate
  <2>1. CompleteSettlement(t, NoOne, p, f + f, r) /\ Path(b, o) = "no_winner"
    BY <1>8 DEF SettleNoWinner
  <2>2. o # bet[b].creator_prediction /\ o # bet[b].opponent_prediction
    BY <2>1 DEF Path, determine_path
  <2>3. NoOne = CASE o = bet[b].creator_prediction  -> bet[b].creator_id
                  [] o = bet[b].opponent_prediction -> bet[b].opponent_id
                  [] OTHER -> NoOne
    BY <2>2
  <2>4. 2 * Distance(RateUnit * (f + f), (2 * s) * r) <= 2 * RateUnit
    <3>1. f = safe_multiply(s, r) BY <1>3 DEF NoWinnerAmounts, compute_no_winner_amounts
    <3> HIDE DEF f, s, r
    <3>2. f \in Nat /\ 2 * Distance(RateUnit * f, s * r) <= RateUnit
      BY <1>3, <3>1, FeeRounding DEF r
    <3> QED BY <1>3, <3>2, TwoHalfCents DEF r
  <2>5. 2 * p + (f + f) = 2 * s BY <1>3, <1>5
  <2>6. /\ bet'[b].winner_id = NoOne /\ bet'[b].payout_amount = p
        /\ bet'[b].platform_fee = f + f /\ bet'[b].applied_fee_rate = r
    BY <1>6, <2>1
  <2>7. /\ bet'[b].match_id = bet[b].match_id /\ bet'[b].stake_amount = s
        /\ bet'[b].creator_prediction = bet[b].creator_prediction
        /\ bet'[b].opponent_prediction = bet[b].opponent_prediction
        /\ bet'[b].creator_id = bet[b].creator_id
        /\ bet'[b].opponent_id = bet[b].opponent_id
    BY <1>6, <2>1
  <2>8. match'[bet[b].match_id].outcome = o /\ match'[bet[b].match_id].confirmed
    BY <1>1, <1>3
  <2> HIDE DEF p, f, r, s, o
  <2> QED BY <2>3, <2>4, <2>5, <2>6, <2>7, <2>8 DEF PaidByResult
<1> QED BY <1>7, <1>8

(* A settlement stands while the row of the bet, but for its status, and   *)
(* the match it was decided by stay.                                       *)
ResultKept(b) ==
  /\ match'[bet[b].match_id] = match[bet[b].match_id]
  /\ bet'[b].match_id = bet[b].match_id
  /\ bet'[b].stake_amount = bet[b].stake_amount
  /\ bet'[b].creator_id = bet[b].creator_id
  /\ bet'[b].opponent_id = bet[b].opponent_id
  /\ bet'[b].creator_prediction = bet[b].creator_prediction
  /\ bet'[b].opponent_prediction = bet[b].opponent_prediction
  /\ bet'[b].winner_id = bet[b].winner_id
  /\ bet'[b].payout_amount = bet[b].payout_amount
  /\ bet'[b].platform_fee = bet[b].platform_fee
  /\ bet'[b].applied_fee_rate = bet[b].applied_fee_rate

LEMMA PaidStays ==
  ASSUME NEW b, PaidByResult(b), ResultKept(b)
  PROVE  PaidByResult(b)'
BY DEF PaidByResult, ResultKept

(* Every step keeps what settled bets show. *)
LEMMA NextKeepsResults ==
  ASSUME Consistent, AuditExact, SettledByResult, [Next]_vars
  PROVE  SettledByResult'
<1> SUFFICES ASSUME NEW b \in Bets, events'[b]["SETTLED"] = 1 PROVE PaidByResult(b)'
  BY DEF SettledByResult
<1>1. /\ bet \in [Bets -> Bet] /\ events \in [Bets -> [EventTypes -> Nat]]
      /\ \A t \in Workers : RequestOK(t)
  BY DEF Consistent, Sound, Typed
<1>2. ASSUME ResultKept(b), events'[b]["SETTLED"] = events[b]["SETTLED"] PROVE PaidByResult(b)'
  BY <1>2, PaidStays DEF SettledByResult
<1>3. CASE UNCHANGED rows BY <1>2, <1>3 DEF rows, ResultKept
<1>4. ASSUME NEW t \in Workers, ConfirmCommit(t) PROVE PaidByResult(b)'
  <2>1. events'[b]["SETTLED"] = events[b]["SETTLED"] BY <1>1, <1>4 DEF ConfirmCommit, EventTypes
  <2>2. PaidByResult(b) BY <2>1 DEF SettledByResult
  <2>3. ~match[req[t].match].confirmed BY <1>1, <1>4 DEF ConfirmCommit, RequestOK, ConfirmOK
  <2>4. bet[b].match_id # req[t].match BY <2>2, <2>3 DEF PaidByResult
  <2>5. match'[bet[b].match_id] = match[bet[b].match_id]
    <3>1. Audited(b) /\ events[b]["SETTLED"] = 1 BY <2>1 DEF AuditExact
    <3>2. CASE bet[b].status = "none" BY <3>1, <3>2 DEF Audited, Trail
    <3>3. CASE bet[b].status # "none"
      <4>1. bet[b].match_id \in Matches BY <3>3 DEF Consistent, Sound, RowOK
      <4>2. match \in [Matches -> Match] BY DEF Consistent, Sound, Typed
      <4> QED BY <1>4, <2>4, <4>1, <4>2 DEF ConfirmCommit
    <3> QED BY <3>2, <3>3
  <2>6. ResultKept(b) BY <1>1, <1>4, <2>5 DEF ConfirmCommit, ResultKept, Bet
  <2> QED BY <1>2, <2>1, <2>6
<1>5. ASSUME NEW t \in Workers, CreateCommit(t) \/ AcceptCommit(t) PROVE PaidByResult(b)'
  <2>1. req[t].bet \in Bets /\ bet[req[t].bet].status \in {"none", "OPEN"}
    BY <1>1, <1>5 DEF CreateCommit, AcceptCommit, RequestOK, CreateOK, AcceptOK
  <2>2. events[req[t].bet]["SETTLED"] = 0
    <3>1. Audited(req[t].bet) BY <2>1 DEF AuditExact
    <3>2. CASE bet[req[t].bet].status = "none" BY <3>1, <3>2 DEF Audited, Trail
    <3>3. CASE bet[req[t].bet].status = "OPEN" BY <3>1, <3>3 DEF Audited, Trail
    <3> QED BY <2>1, <3>2, <3>3
  <2>3. events'[b]["SETTLED"] = events[b]["SETTLED"]
    BY <1>1, <1>5 DEF CreateCommit, AcceptCommit, write_bet_event, EventTypes
  <2>4. b # req[t].bet BY <2>2, <2>3
  <2>5. ResultKept(b) BY <1>1, <1>5, <2>4 DEF CreateCommit, AcceptCommit, ResultKept
  <2> QED BY <1>2, <2>3, <2>5
<1>6. ASSUME NEW t \in Workers, CancelCommit(t) \/ VoidCommit(t) PROVE PaidByResult(b)'
  <2>1. events'[b]["SETTLED"] = events[b]["SETTLED"]
    BY <1>1, <1>6 DEF CancelCommit, VoidCommit, write_bet_event, EventTypes
  <2>2. bet[b] \in Bet /\ bet \in [Bets -> Bet] BY <1>1 DEF Typed
  <2> DEFINE c == req[t].bet
  <2>3. match' = match BY <1>6 DEF CancelCommit, VoidCommit
  <2>4. \/ bet' = [bet EXCEPT ![c] = [bet[c] EXCEPT !.status = "CANCELLED"]]
        \/ bet' = [bet EXCEPT ![c] = [bet[c] EXCEPT !.status = "VOIDED",
                                                    !.settlement_outcome = "voided"]]
    BY <1>6 DEF CancelCommit, VoidCommit
  <2> HIDE DEF c
  <2>5. ResultKept(b)
    <3>1. CASE b # c
      <4>1. bet'[b] = bet[b] BY <2>2, <2>4, <3>1
      <4> QED BY <2>3, <4>1 DEF ResultKept
    <3>2. CASE b = c
      <4>1. \/ bet'[b] = [bet[b] EXCEPT !.status = "CANCELLED"]
            \/ bet'[b] = [bet[b] EXCEPT !.status = "VOIDED", !.settlement_outcome = "voided"]
        BY <2>2, <2>4, <3>2
      <4> QED BY <2>2, <2>3, <4>1 DEF ResultKept, Bet
    <3> QED BY <3>1, <3>2
  <2> QED BY <1>2, <2>1, <2>5
<1>7. ASSUME NEW t \in Workers, SettleWinner(t) \/ SettleNoWinner(t) PROVE PaidByResult(b)'
  <2>1. PICK winner, payout, fee, rate : CompleteSettlement(t, winner, payout, fee, rate)
    BY <1>7 DEF SettleWinner, SettleNoWinner
  <2>2. CASE b = req[t].bet BY <1>7, <2>2, SettlesByResult
  <2>3. CASE b # req[t].bet
    <3>1. events'[b]["SETTLED"] = events[b]["SETTLED"] /\ ResultKept(b)
      BY <1>1, <2>1, <2>3 DEF CompleteSettlement, write_bet_event, ResultKept
    <3> QED BY <1>2, <3>1
  <2> QED BY <2>2, <2>3
<1> QED BY <1>3, <1>4, <1>5, <1>6, <1>7, RowsWritten

(* For any matches, stakes and fee rates: every bet that was ever settled  *)
(* was paid to whom the confirmed result calls for, to the cent of the     *)
(* pool, with the recorded rate of it as fee.                              *)
THEOREM AlwaysPaidByResult == Spec => []SettledByResult
<1>1. Init => SettledByResult
  BY DEF Init, InitRest, SettledByResult, EventTypes
<1>2. Consistent /\ AuditExact /\ SettledByResult /\ [Next]_vars => SettledByResult'
  BY NextKeepsResults
<1> QED BY <1>1, <1>2, ConsistentAlways, AuditAlwaysExact, PTL DEF Spec
=============================================================================
