------------------------------ MODULE BuddyBet ------------------------------
(***************************************************************************)
(* The betting core: bet, admin and settlement requests running at the     *)
(* same time on one database.                                              *)
(***************************************************************************)
EXTENDS BetService, AdminService, Settlement

EventTypes == {"CREATED", "MATCHED", "PENDING_SETTLEMENT", "SETTLED", "CANCELLED", "VOIDED"}

SettlePCs == {"settle_next", "settle_wallet1", "settle_wallet2", "settle_check", "settle_commit"}

PCs == {"idle", "create_wallet", "create_commit", "accept_wallet", "accept_commit",
        "cancel_wallet", "cancel_bet", "void_creator", "void_opponent", "void_commit",
        "confirm_scan", "confirm_rows"} \cup SettlePCs

Fixture(status, kickoff) ==
  [status |-> status, kickoff_at |-> kickoff, outcome |-> NoOne, confirmed |-> FALSE]

(* The fixtures are known and scheduled. *)
InitMatches == match = [m \in Matches |-> Fixture("scheduled", InitKickoff[m])]

InitRest ==
  /\ now = 0
  /\ bet = [b \in Bets |-> NoBet]
  /\ wallet = [u \in Users |-> [available |-> InitFunds[u], locked |-> 0]]
  /\ platform = 0
  /\ ledger = [b \in Bets |-> [u \in Users |-> NoEntries]]
  /\ events = [b \in Bets |-> [e \in EventTypes |-> 0]]
  /\ betLock = [b \in Bets |-> NoOne]
  /\ walletLock = [u \in Users |-> NoOne]
  /\ matchLock = [m \in Matches |-> NoOne]
  /\ platformLock = NoOne
  /\ pc = [t \in Workers |-> "idle"]
  /\ req = [t \in Workers |-> NoRequest]
  /\ snap = [t \in Workers |-> NoWallets]
  /\ psnap = [t \in Workers |-> 0]
  /\ crashes = 0

Init == InitMatches /\ InitRest

Tick ==
  /\ now < Horizon
  /\ now' = now + 1
  /\ UNCHANGED <<rows, locks, work, crashes>>

(* A process dies or loses its connection: the server rolls back. *)
Crash(t) ==
  /\ pc[t] # "idle"
  /\ crashes < MaxCrashes
  /\ crashes' = crashes + 1
  /\ Finish(t)
  /\ UNCHANGED <<now, rows>>

(* Worker t cannot go on before worker o ends its transaction. *)
WaitsFor(t, o) ==
  \/ /\ pc[t] \in {"create_wallet", "accept_wallet", "cancel_wallet"}
     /\ walletLock[req[t].user] = o
  \/ pc[t] = "cancel_bet" /\ betLock[req[t].bet] = o
  \/ pc[t] \in {"void_creator", "void_opponent"} /\ walletLock[VoidUser(t)] = o
  \/ pc[t] = "confirm_rows" /\ \E b \in req[t].todo : betLock[b] = o
  \/ pc[t] \in {"settle_wallet1", "settle_wallet2"} /\ walletLock[SettleUser(t)] = o
  \/ pc[t] = "settle_check" /\ platformLock = o

(* Every member of D waits for a member of D. *)
Deadlocked(D) == D # {} /\ \A t \in D : \E o \in D : WaitsFor(t, o)

(* PostgreSQL's deadlock detector rolls one of them back; the settlement   *)
(* loop goes on with its next bet, every other request fails.              *)
DeadlockAbort(t) ==
  /\ \E D \in SUBSET Workers : t \in D /\ Deadlocked(D)
  /\ IF pc[t] \in SettlePCs THEN NextBet(t, req[t].todo) ELSE Finish(t)
  /\ UNCHANGED <<now, rows, crashes>>

ServiceStep(t) == BetServiceStep(t) \/ AdminServiceStep(t) \/ SettlementStep(t)

Next ==
  \/ Tick
  \/ \E t \in Workers : ServiceStep(t) \/ DeadlockAbort(t) \/ Crash(t)

Spec == Init /\ [][Next]_vars

(* A request that has begun goes on: PostgreSQL queues the waiters of a    *)
(* row lock, so a request that can get its row again and again gets it     *)
(* (strong fairness), and the deadlock detector always runs.               *)
Progress(t) == pc[t] # "idle" /\ ServiceStep(t)

(* Operations look at the pending list and retry each bet found there. *)
Retry(b) == bet[b].status = "PENDING_SETTLEMENT" /\ \E t \in Workers : SettleSingle(t, b)

FairSpec ==
  /\ Spec
  /\ \A t \in Workers : SF_vars(Progress(t))
  /\ WF_vars(\E t \in Workers : DeadlockAbort(t))
  /\ \A b \in Bets : SF_vars(Retry(b))

-----------------------------------------------------------------------------
(* Type invariant of the rows, the locks and the requests. *)
TypeOK ==
  /\ now \in Nat /\ crashes \in Nat /\ platform \in Nat
  /\ match \in [Matches -> Match]
  /\ bet \in [Bets -> Bet]
  /\ wallet \in [Users -> Wallet]
  /\ ledger \in [Bets -> [Users -> [EntryTypes -> Nat]]]
  /\ events \in [Bets -> [EventTypes -> Nat]]
  /\ betLock \in [Bets -> Null(Workers)]
  /\ walletLock \in [Users -> Null(Workers)]
  /\ matchLock \in [Matches -> Null(Workers)]
  /\ platformLock \in Null(Workers)
  /\ pc \in [Workers -> PCs]
  /\ req \in [Workers -> Request]
  /\ snap \in [Workers -> [Users -> Wallet]]
  /\ psnap \in [Workers -> Nat]

Available == [u \in Users |-> wallet[u].available]
Locked    == [u \in Users |-> wallet[u].locked]

Wealth == Sum(Available, Users) + Sum(Locked, Users) + platform

(* The cent bet b left with its creator when the stake was locked. *)
Gain(b) == HalfCent(bet[b].asked_stake)

(* The "master reconciliation invariant" of the design, as far as the code *)
(* keeps it: what users and platform own is what was there at the start,   *)
(* whatever requests run in whatever interleaving, and exactly one cent    *)
(* more for every bet created for a stake that ends in half a cent, where  *)
(* lock_stake rounds both balances up.  Settlement pays out exactly the    *)
(* pool, acceptances, refunds and fees balance to the cent, and no         *)
(* concurrent balance write is lost.                                       *)
MoneyTraced ==
  Wealth = Sum(InitFunds, Users) + Sum([b \in Bets |-> Gain(b)], Bets)

Entries(u, type) == [b \in Bets |-> ledger[b][u][type]]

(* The cents user u was left when the stakes of own bets were locked. *)
GainOf(u, b) == IF bet[b].creator_id = u THEN Gain(b) ELSE 0
StakeGain(u) == Sum([b \in Bets |-> GainOf(u, b)], Bets)

(* The ledger explains the cached balances at every commit: a user's       *)
(* locked balance is the stakes locked less the locked-side debits, and    *)
(* the available balance is the initial one less the stakes locked plus    *)
(* the available-side credits, and one cent for every bet the user created *)
(* for a stake that ends in half a cent (ledger_entries "is the            *)
(* authoritative source of truth" for the wallets rows; that cent is in no *)
(* entry of it).                                                           *)
LedgerReconciles ==
  \A u \in Users :
    /\ wallet[u].locked
         + Sum(Entries(u, "STAKE_UNLOCK"), Bets) + Sum(Entries(u, "VOID_REFUND"), Bets)
         + Sum(Entries(u, "SETTLEMENT_DEDUCT"), Bets) + Sum(Entries(u, "FEE_DEDUCT"), Bets)
       = Sum(Entries(u, "STAKE_LOCK"), Bets)
    /\ wallet[u].available + Sum(Entries(u, "STAKE_LOCK"), Bets)
       = InitFunds[u]
         + Sum(Entries(u, "STAKE_UNLOCK"), Bets) + Sum(Entries(u, "VOID_REFUND"), Bets)
         + Sum(Entries(u, "PAYOUT_CREDIT"), Bets) + Sum(Entries(u, "REFUND_CREDIT"), Bets)
         + StakeGain(u)

Party(u, b) == u \in {bet[b].creator_id, bet[b].opponent_id}

(* The stake bet b holds of user u. *)
Held(u, b) == IF Party(u, b) /\ bet[b].status \in LiveStatus THEN bet[b].stake_amount ELSE 0

Reserved(u) == Sum([b \in Bets |-> Held(u, b)], Bets)

(* wallets.locked_balance is exactly what the user's live bets hold. *)
LockedIsReserved == \A u \in Users : wallet[u].locked = Reserved(u)

(* The audit trail of the bet shows one cancellation at most, and none of  *)
(* a bet that was ever matched or voided.                                  *)
CleanTrail(b) ==
  events[b]["CANCELLED"] > 0 =>
    events[b]["CANCELLED"] = 1 /\ events[b]["MATCHED"] = 0 /\ events[b]["VOIDED"] = 0

(* As long as no bet's audit trail shows a cancellation that came too late *)
(* (cancel_bet decides on an unlocked read), locked balances are exactly   *)
(* what the live bets hold: no other request, in any interleaving, leaves  *)
(* a stake locked without a bet or a bet without its stake.                *)
StakesBacked == (\A b \in Bets : CleanTrail(b)) => LockedIsReserved

Trail(b, c, m, p, s, x, v) ==
  /\ events[b]["CREATED"] = c /\ events[b]["MATCHED"] = m
  /\ events[b]["PENDING_SETTLEMENT"] = p /\ events[b]["SETTLED"] = s
  /\ events[b]["CANCELLED"] = x /\ events[b]["VOIDED"] = v

(* The events a bet has seen by the time it has its status. *)
Audited(b) ==
  CASE bet[b].status = "none"      -> Trail(b, 0, 0, 0, 0, 0, 0)
    [] bet[b].status = "OPEN"      -> Trail(b, 1, 0, 0, 0, 0, 0)
    [] bet[b].status = "MATCHED"   -> Trail(b, 1, 1, 0, 0, 0, 0)
    [] bet[b].status = "PENDING_SETTLEMENT" -> Trail(b, 1, 1, 1, 0, 0, 0)
    [] bet[b].status = "SETTLED"   -> Trail(b, 1, 1, 1, 1, 0, 0)
    [] bet[b].status = "VOIDED"    -> \E m \in 0..1 : Trail(b, 1, m, 0, 0, 0, 1)
    [] bet[b].status = "CANCELLED" ->
         /\ events[b]["CREATED"] = 1 /\ events[b]["CANCELLED"] > 0
         /\ \E m, p, s, v \in 0..1 :
              /\ Trail(b, 1, m, p, s, events[b]["CANCELLED"], v)
              /\ s <= p /\ p <= m /\ p + v <= 1

(* bet_events and bets.status tell the same story: every bet is created,   *)
(* matched, queued, settled and voided at most once, in the order of the   *)
(* transition table, whatever the requests raced; only a cancellation may  *)
(* repeat or come late.                                                    *)
AuditExact == \A b \in Bets : Audited(b)

(* The platform's balance is the sum of the fees recorded on the bets: a   *)
(* settlement that runs twice, or on a stale status, never earns twice.    *)
PlatformEarnsFees == platform = Sum([b \in Bets |-> bet[b].platform_fee], Bets)

(* Bet b as its settlement by the confirmed result must have left it. *)
PaidByResult(b) ==
  LET o == match[bet[b].match_id].outcome
      pool == 2 * bet[b].stake_amount
      parts == IF bet[b].winner_id = NoOne THEN 2 ELSE 1
  IN  /\ match[bet[b].match_id].confirmed
      /\ bet[b].winner_id = CASE o = bet[b].creator_prediction  -> bet[b].creator_id
                              [] o = bet[b].opponent_prediction -> bet[b].opponent_id
                              [] OTHER -> NoOne
      /\ parts * bet[b].payout_amount + bet[b].platform_fee = pool
      /\ 2 * Distance(RateUnit * bet[b].platform_fee, pool * bet[b].applied_fee_rate)
           <= parts * RateUnit

(* A settled bet was paid by the confirmed result of its match: the winner *)
(* is the party who predicted it, payouts and fee make up the pool to the  *)
(* cent, and the fee is the recorded rate of the pool, off by half a cent  *)
(* per rounding at most.                                                   *)
SettledByResult == \A b \in Bets : events[b]["SETTLED"] = 1 => PaidByResult(b)

(* The terms of a bet never change: parties, predictions, stake once set,  *)
(* and after its settlement the result too; nobody replaces an opponent.   *)
TermsFixed ==
  [][\A b \in Bets : bet[b].status # "none" =>
       /\ bet'[b].creator_id = bet[b].creator_id
       /\ bet'[b].stake_amount = bet[b].stake_amount
       /\ bet[b].opponent_id # NoOne =>
            /\ bet'[b].opponent_id = bet[b].opponent_id
            /\ bet'[b].opponent_prediction = bet[b].opponent_prediction
       /\ events[b]["SETTLED"] = 1 =>
            /\ bet'[b].winner_id = bet[b].winner_id
            /\ bet'[b].payout_amount = bet[b].payout_amount
            /\ bet'[b].platform_fee = bet[b].platform_fee]_vars

(* Settlements alone never deadlock: they take their wallets in ascending  *)
(* order and the platform row last, so a waits-for cycle always has a      *)
(* void_bet or a cancel_bet in it.                                         *)
DeadlockNeedsVoidOrCancel ==
  \A D \in SUBSET Workers : Deadlocked(D) =>
    \E t \in D : pc[t] \in {"void_creator", "void_opponent", "cancel_wallet", "cancel_bet"}

(* Every request that begins ends: no lock is kept by a request that is    *)
(* over, and no set of requests waits for itself forever.                  *)
RequestsEnd == \A t \in Workers : pc[t] # "idle" ~> pc[t] = "idle"

(* A bet queued for settlement is settled (or cancelled by a late          *)
(* cancellation) when operations keep retrying it, unless a late           *)
(* cancellation has already taken a stake away from some bet.              *)
PendingResolves ==
  \A b \in Bets :
    bet[b].status = "PENDING_SETTLEMENT" ~>
      bet[b].status # "PENDING_SETTLEMENT" \/ \E c \in Bets : ~CleanTrail(c)

(* Confirming a result moves every matched bet of the match to             *)
(* PENDING_SETTLEMENT, so none is MATCHED on a confirmed match.            *)
NoneLeftMatched ==
  \A b \in Bets : bet[b].status = "MATCHED" => ~match[bet[b].match_id].confirmed
=============================================================================
