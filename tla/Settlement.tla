----------------------------- MODULE Settlement -----------------------------
(***************************************************************************)
(* MatchSettlementService and SettlementService: an admin confirms a match *)
(* result (transaction A), then every bet it moved to PENDING_SETTLEMENT   *)
(* is settled in a transaction of its own (B...N) on the same session; a   *)
(* bet left behind is settled later by settle_single_bet on a new session. *)
(*                                                                         *)
(* The confirming session keeps the list pending_bets alive, and sessions  *)
(* are made with expire_on_commit=False: until a rollback expires them its *)
(* bets keep the status they had at commit A, and SELECT ... FOR UPDATE    *)
(* does not overwrite a loaded instance.  "cached" is the set of bets the  *)
(* session holds in that way.                                              *)
(***************************************************************************)
EXTENDS Store

(* Fault: a match that is already confirmed can be confirmed again. *)
ConfirmAgain(t, m, o) ==
  /\ pc[t] = "idle"
  /\ matchLock[m] = NoOne
  /\ matchLock' = [matchLock EXCEPT ![m] = t]
  /\ Goto(t, "confirm_scan")
  /\ req' = [req EXCEPT ![t] = [NoRequest EXCEPT !.match = m, !.outcome = o]]
  /\ UNCHANGED <<now, rows, betLock, walletLock, platformLock, snap, psnap, crashes>>

(* confirm_and_settle: lock the match, refuse a second confirmation. *)
ConfirmLock(t, m, o) ==
  /\ pc[t] = "idle"
  /\ match[m].status # "none"
  /\ matchLock[m] = NoOne
  /\ ~match[m].confirmed
  /\ matchLock' = [matchLock EXCEPT ![m] = t]
  /\ Goto(t, "confirm_scan")
  /\ req' = [req EXCEPT ![t] = [NoRequest EXCEPT !.match = m, !.outcome = o]]
  /\ UNCHANGED <<now, rows, betLock, walletLock, platformLock, snap, psnap, crashes>>

(* transition_matched_to_pending: the SELECT takes its snapshot here ... *)
ConfirmScan(t) ==
  /\ pc[t] = "confirm_scan"
  /\ Goto(t, "confirm_rows")
  /\ req' = [req EXCEPT ![t].todo =
               {b \in Bets : bet[b].match_id = req[t].match /\ bet[b].status = "MATCHED"}]
  /\ UNCHANGED <<now, rows, locks, snap, psnap, crashes>>

(* ... and then waits for the rows one by one, dropping a row that another *)
(* transaction took out of MATCHED meanwhile.                              *)
ConfirmRow(t, b) ==
  /\ pc[t] = "confirm_rows"
  /\ b \in req[t].todo
  /\ get_for_update(t, b)
  /\ req' = [req EXCEPT ![t].todo = @ \ {b},
                        ![t].cached = IF bet[b].status = "MATCHED" THEN @ \cup {b} ELSE @]
  /\ UNCHANGED <<now, rows, walletLock, matchLock, platformLock, pc, snap, psnap, crashes>>

AfterBet(todo) == IF todo = {} THEN "idle" ELSE "settle_next"

(* Commit of transaction A: the result, the new statuses, their events.    *)
ConfirmCommit(t) ==
  LET r == req[t]
  IN  /\ pc[t] = "confirm_rows"
      /\ r.todo = {}
      /\ match' = [match EXCEPT ![r.match].status = "completed",
                                ![r.match].outcome = r.outcome,
                                ![r.match].confirmed = TRUE]
      /\ bet' = [b \in Bets |-> IF b \in r.cached
                   THEN [bet[b] EXCEPT !.status = "PENDING_SETTLEMENT"] ELSE bet[b]]
      /\ events' = [b \in Bets |-> IF b \in r.cached
                      THEN [events[b] EXCEPT !["PENDING_SETTLEMENT"] = @ + 1] ELSE events[b]]
      /\ ReleaseAll(t)
      /\ DropSession(t)
      /\ Goto(t, AfterBet(r.cached))
      /\ req' = [req EXCEPT ![t] = [NoRequest EXCEPT !.todo = r.cached, !.cached = r.cached]]
      /\ UNCHANGED <<now, wallet, platform, ledger, crashes>>

(* settle_single_bet: the same settlement on a session without cached rows. *)
SettleSingle(t, b) ==
  /\ pc[t] = "idle"
  /\ Goto(t, "settle_next")
  /\ req' = [req EXCEPT ![t] = [NoRequest EXCEPT !.todo = {b}]]
  /\ bet[b].status # "none"
  /\ UNCHANGED <<now, rows, locks, snap, psnap, crashes>>

-----------------------------------------------------------------------------
(* The settlement path of bet b on outcome o. *)
Path(b, o) == determine_path(o, bet[b].creator_prediction, bet[b].opponent_prediction)

(* The result of b's match, as a plain read finds it. *)
MatchOutcome(b) == match[bet[b].match_id].outcome

(* The checks of settle_bet and transfer_locked_funds before any wallet is *)
(* locked: the session's status of the bet, an opponent, an outcome, both  *)
(* fee rates, and a fee below the pool.                                    *)
SettleChecks(t, b, o) ==
  /\ b \in req[t].cached \/ bet[b].status = "PENDING_SETTLEMENT"
  /\ bet[b].opponent_id # NoOne
  /\ o # NoOne
  /\ \A type \in FeeTypes : EffectiveRows(type) # {}
  /\ Path(b, o) # "no_winner" =>
       compute_winner_amounts(bet[b].stake_amount, get_active_rate("WINNER_FEE")).payout > 0

(* settle_bet: lock the bet row, check, read the rates; the session finds  *)
(* outcome o on the match.                                                 *)
SettleLockOn(t, b, o) ==
  /\ pc[t] = "settle_next"
  /\ b \in req[t].todo
  /\ get_for_update(t, b)
  /\ SettleChecks(t, b, o)
  /\ Goto(t, "settle_wallet1")
  /\ req' = [req EXCEPT ![t].bet = b, ![t].todo = @ \ {b},
               ![t].stake = bet[b].stake_amount,
               ![t].outcome = o,
               ![t].winner_fee_rate = get_active_rate("WINNER_FEE"),
               ![t].no_winner_fee_rate = get_active_rate("NO_WINNER_FEE")]
  /\ UNCHANGED <<now, rows, walletLock, matchLock, platformLock, snap, psnap, crashes>>

SettleLock(t, b) == SettleLockOn(t, b, MatchOutcome(b))

(* Fault: the loop goes on without the rollback. *)
NextBetWithoutRollback(t, todo) ==
  /\ DropSession(t)
  /\ Goto(t, AfterBet(todo))
  /\ req' = [req EXCEPT ![t] = [NoRequest EXCEPT !.todo = todo]]
  /\ UNCHANGED locks

(* settle_bet raised before or after locking: roll back, go on to the next *)
(* bet.  The rollback expires every cached row.                            *)
NextBet(t, todo) ==
  /\ ReleaseAll(t)
  /\ DropSession(t)
  /\ Goto(t, AfterBet(todo))
  /\ req' = [req EXCEPT ![t] = [NoRequest EXCEPT !.todo = todo]]

SettleRefusedOn(t, b, o) ==
  /\ pc[t] = "settle_next"
  /\ b \in req[t].todo
  /\ betLock[b] = NoOne
  /\ ~SettleChecks(t, b, o)
  /\ NextBet(t, req[t].todo \ {b})
  /\ UNCHANGED <<now, rows, crashes>>

SettleRefused(t, b) == SettleRefusedOn(t, b, MatchOutcome(b))

(* Fault: the wallets are locked in the order void_bet uses. *)
PartyOrder(b) == <<bet[b].creator_id, bet[b].opponent_id>>

(* sorted([winner_id, loser_id], key=str): the wallets in ascending order. *)
LockOrder(b) ==
  IF bet[b].creator_id < bet[b].opponent_id
  THEN <<bet[b].creator_id, bet[b].opponent_id>>
  ELSE <<bet[b].opponent_id, bet[b].creator_id>>

SettleUser(t) == LockOrder(req[t].bet)[IF pc[t] = "settle_wallet1" THEN 1 ELSE 2]

SettleWallet(t) ==
  /\ pc[t] \in {"settle_wallet1", "settle_wallet2"}
  /\ get_by_user_id_for_update(t, SettleUser(t))
  /\ Goto(t, IF pc[t] = "settle_wallet1" THEN "settle_wallet2" ELSE "settle_check")
  /\ UNCHANGED <<now, rows, betLock, matchLock, platformLock, req, psnap, crashes>>

(* Both locked balances must cover the stake. *)
Covered(t) ==
  LET b == req[t].bet
  IN  \A u \in {bet[b].creator_id, bet[b].opponent_id} : snap[t][u].locked >= req[t].stake

(* get_for_currency_for_update: lock and load the platform account. *)
SettlePlatform(t) ==
  /\ pc[t] = "settle_check"
  /\ Covered(t)
  /\ platformLock = NoOne
  /\ platformLock' = t
  /\ psnap' = [psnap EXCEPT ![t] = platform]
  /\ Goto(t, "settle_commit")
  /\ UNCHANGED <<now, rows, betLock, walletLock, matchLock, req, snap, crashes>>

(* What _compute_winner_amounts and _compute_no_winner_amounts give here. *)
WinnerAmounts(t)   == compute_winner_amounts(req[t].stake, req[t].winner_fee_rate)
NoWinnerAmounts(t) == compute_no_winner_amounts(req[t].stake, req[t].no_winner_fee_rate)

(* The CHECK constraints of schema.sql on the rows a settlement writes: no *)
(* payout_amount without a winner, and a positive fee.                     *)
DDLAllows(t) ==
  DDLChecks => /\ Path(req[t].bet, req[t].outcome) # "no_winner"
               /\ WinnerAmounts(t).fee > 0

(* Fault: the UPDATE relies on the session's status and has no condition. *)
UnconditionalUpdate(t) == TRUE

(* Fault: the UPDATE looks for the status before the confirmation. *)
UpdateFromMatched(t) == bet[req[t].bet].status = "MATCHED"

(* UPDATE bets ... WHERE id = ? AND status = 'PENDING_SETTLEMENT'. *)
CanSettle(t) == bet[req[t].bet].status = "PENDING_SETTLEMENT"

(* WalletService.transfer_locked_funds: both stakes are consumed, the      *)
(* winner is paid.                                                         *)
transfer_locked_funds(t, winner, loser, amount, payout) ==
  [wallet EXCEPT ![winner] = consume_stake(snap[t][winner], amount, payout),
                 ![loser]  = consume_stake(snap[t][loser], amount, 0)]

write_settlement_winner(b, winner, loser, stake, payout) ==
  [ledger EXCEPT ![b][winner]["SETTLEMENT_DEDUCT"] = @ + stake,
                 ![b][winner]["PAYOUT_CREDIT"] = @ + payout,
                 ![b][loser]["SETTLEMENT_DEDUCT"] = @ + stake]

(* SettlementService._settle_no_winner: both stakes are consumed, each     *)
(* user gets the refund.                                                   *)
settle_no_winner(t, creator, opponent, stake, refund) ==
  [wallet EXCEPT ![creator]  = consume_stake(snap[t][creator], stake, refund),
                 ![opponent] = consume_stake(snap[t][opponent], stake, refund)]

write_settlement_no_winner(b, creator, opponent, fee, refund) ==
  LET entries(l) == [l EXCEPT !["FEE_DEDUCT"] = @ + fee,
                              !["SETTLEMENT_DEDUCT"] = @ + refund,
                              !["REFUND_CREDIT"] = @ + refund]
  IN  [ledger EXCEPT ![b][creator]  = entries(ledger[b][creator]),
                     ![b][opponent] = entries(ledger[b][opponent])]

(* The last steps of settle_bet on either path: credit the platform, move  *)
(* the bet to SETTLED, write the event; commit and go on to the next bet.  *)
CompleteSettlement(t, winner, payout, fee, rate) ==
  LET r == req[t]
      b == req[t].bet
  IN  /\ CanSettle(t) /\ DDLAllows(t)
      /\ bet' = [bet EXCEPT ![b].status = "SETTLED",
                            ![b].settlement_outcome = Path(b, r.outcome),
                            ![b].winner_id = winner,
                            ![b].payout_amount = payout,
                            ![b].platform_fee = fee,
                            ![b].applied_fee_rate = rate]
      /\ platform' = psnap[t] + fee
      /\ events' = write_bet_event(b, "SETTLED")
      /\ ReleaseAll(t)
      /\ DropSession(t)
      /\ Goto(t, AfterBet(r.todo))
      /\ req' = [req EXCEPT ![t] = [NoRequest EXCEPT !.todo = r.todo,
                                                     !.cached = r.cached \ {b}]]
      /\ UNCHANGED <<now, match, crashes>>

SettleWinner(t) ==
  LET r == req[t]
      b == req[t].bet
      creatorWins == Path(b, r.outcome) = "creator_wins"
      winner == IF creatorWins THEN bet[b].creator_id ELSE bet[b].opponent_id
      loser  == IF creatorWins THEN bet[b].opponent_id ELSE bet[b].creator_id
      amounts == WinnerAmounts(t)
  IN  /\ pc[t] = "settle_commit"
      /\ Path(b, r.outcome) \in {"creator_wins", "opponent_wins"}
      /\ wallet' = transfer_locked_funds(t, winner, loser, r.stake, amounts.payout)
      /\ ledger' = write_settlement_winner(b, winner, loser, r.stake, amounts.payout)
      /\ CompleteSettlement(t, winner, amounts.payout, amounts.fee, r.winner_fee_rate)

SettleNoWinner(t) ==
  LET r == req[t]
      b == req[t].bet
      amounts == NoWinnerAmounts(t)
  IN  /\ pc[t] = "settle_commit"
      /\ Path(b, r.outcome) = "no_winner"
      /\ wallet' = settle_no_winner(t, bet[b].creator_id, bet[b].opponent_id,
                                    r.stake, amounts.refund)
      /\ ledger' = write_settlement_no_winner(b, bet[b].creator_id, bet[b].opponent_id,
                                              amounts.fee, amounts.refund)
      /\ CompleteSettlement(t, NoOne, amounts.refund, amounts.fee + amounts.fee,
                            r.no_winner_fee_rate)

(* A wallet does not cover the stake, the conditional UPDATE matched no    *)
(* row, or a CHECK failed: nothing of this transaction remains.            *)
SettleFail(t) ==
  /\ \/ pc[t] = "settle_check" /\ ~Covered(t)
     \/ pc[t] = "settle_commit" /\ ~(CanSettle(t) /\ DDLAllows(t))
  /\ NextBet(t, req[t].todo)
  /\ UNCHANGED <<now, rows, crashes>>

SettlementStep(t) ==
  \/ \E m \in Matches, o \in Outcomes : ConfirmLock(t, m, o)
  \/ ConfirmScan(t)
  \/ \E b \in Bets : ConfirmRow(t, b)
  \/ ConfirmCommit(t)
  \/ \E b \in Bets : SettleSingle(t, b)
  \/ \E b \in Bets : SettleLock(t, b)
  \/ \E b \in Bets : SettleRefused(t, b)
  \/ SettleWallet(t)
  \/ SettlePlatform(t)
  \/ SettleWinner(t)
  \/ SettleNoWinner(t)
  \/ SettleFail(t)
=============================================================================
