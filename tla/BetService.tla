----------------------------- MODULE BetService -----------------------------
(***************************************************************************)
(* BetService (app/services/bet_service.py): create, accept and cancel.    *)
(* Each request is a transaction of a few steps; a step ends where the     *)
(* code next waits for a row lock, or commits.  A request refused by a     *)
(* check before it holds anything changes nothing and is not a step.       *)
(***************************************************************************)
EXTENDS Store

(* A bet id (a fresh UUID) that no row and no request in flight uses. *)
FreshId(b) ==
  /\ bet[b].status = "none"
  /\ \A o \in Workers : pc[o] \in {"create_wallet", "create_commit"} => req[o].bet # b

(* create_bet, up to the insert: account, match and stake are checked on   *)
(* plain reads.  The new row is invisible to others until the commit; it   *)
(* stores a rounded stake, while the request goes on with the stake asked. *)
CreateBegin(t, u, b, m, p, s) ==
  /\ pc[t] = "idle"
  /\ FreshId(b)
  /\ u \in Active
  /\ match[m].status = "scheduled"
  /\ now + Cutoff < match[m].kickoff_at
  /\ s > 0 /\ s >= Mills(MinStake) /\ s <= Mills(MaxStake)
  /\ Goto(t, "create_wallet")
  /\ req' = [req EXCEPT ![t] = [NoRequest EXCEPT !.user = u, !.bet = b,
               !.match = m, !.outcome = p, !.stake = Stored(s), !.asked = s,
               !.expires_at = match[m].kickoff_at]]
  /\ UNCHANGED <<now, rows, locks, snap, psnap, crashes>>

(* Fault: accept_bet reads the bet without locking it. *)
AcceptRead(t, u, b, p) ==
  /\ pc[t] = "idle"
  /\ u \in Active
  /\ bet[b].status = "OPEN"
  /\ now < bet[b].expires_at
  /\ u # bet[b].creator_id
  /\ p # bet[b].creator_prediction
  /\ Goto(t, "accept_wallet")
  /\ req' = [req EXCEPT ![t] = [NoRequest EXCEPT !.user = u, !.bet = b,
               !.outcome = p, !.stake = bet[b].stake_amount,
               !.asked = Mills(bet[b].stake_amount)]]
  /\ UNCHANGED <<now, rows, locks, snap, psnap, crashes>>

(* accept_bet, up to the wallet: the bet row is locked, then every rule is *)
(* checked on the locked row.  The match itself is not looked at.          *)
AcceptLock(t, u, b, p) ==
  /\ pc[t] = "idle"
  /\ u \in Active
  /\ get_for_update(t, b)
  /\ bet[b].status = "OPEN"
  /\ now < bet[b].expires_at
  /\ u # bet[b].creator_id
  /\ p # bet[b].creator_prediction
  /\ Goto(t, "accept_wallet")
  /\ req' = [req EXCEPT ![t] = [NoRequest EXCEPT !.user = u, !.bet = b,
               !.outcome = p, !.stake = bet[b].stake_amount,
               !.asked = Mills(bet[b].stake_amount)]]
  /\ UNCHANGED <<now, rows, walletLock, matchLock, platformLock, snap, psnap, crashes>>

AfterLockStake == [create_wallet |-> "create_commit", accept_wallet |-> "accept_commit"]

(* WalletService.lock_stake, the first half: lock and load the wallet,     *)
(* refuse when the available balance is short.                             *)
LockStake(t) ==
  /\ pc[t] \in DOMAIN AfterLockStake
  /\ get_by_user_id_for_update(t, req[t].user)
  /\ Mills(wallet[req[t].user].available) >= req[t].asked
  /\ Goto(t, AfterLockStake[pc[t]])
  /\ UNCHANGED <<now, rows, betLock, matchLock, platformLock, req, psnap, crashes>>

(* InsufficientFundsError: the whole request is rolled back. *)
LockStakeRefused(t) ==
  /\ pc[t] \in DOMAIN AfterLockStake
  /\ walletLock[req[t].user] = NoOne
  /\ Mills(wallet[req[t].user].available) < req[t].asked
  /\ Finish(t)
  /\ UNCHANGED <<now, rows, crashes>>

(* Commit of create_bet: bet row, stake, ledger pair and audit event. *)
CreateCommit(t) ==
  LET r == req[t]
      b == req[t].bet
  IN  /\ pc[t] = "create_commit"
      /\ bet' = [bet EXCEPT ![b] = [NoBet EXCEPT !.status = "OPEN",
                   !.match_id = r.match, !.creator_id = r.user,
                   !.creator_prediction = r.outcome, !.stake_amount = r.stake,
                   !.asked_stake = r.asked, !.expires_at = r.expires_at]]
      /\ wallet' = [wallet EXCEPT ![r.user] = lock_stake(snap[t][r.user], r.asked)]
      /\ ledger' = write_stake_lock(b, r.user, Stored(r.asked))
      /\ events' = write_bet_event(b, "CREATED")
      /\ Finish(t)
      /\ UNCHANGED <<now, match, platform, crashes>>

(* Commit of accept_bet: opponent, stake, ledger pair and audit event. *)
AcceptCommit(t) ==
  LET r == req[t]
      b == req[t].bet
  IN  /\ pc[t] = "accept_commit"
      /\ bet' = [bet EXCEPT ![b].opponent_id = r.user,
                            ![b].opponent_prediction = r.outcome,
                            ![b].status = "MATCHED"]
      /\ wallet' = [wallet EXCEPT ![r.user] = lock_stake(snap[t][r.user], r.asked)]
      /\ ledger' = write_stake_lock(b, r.user, Stored(r.asked))
      /\ events' = write_bet_event(b, "MATCHED")
      /\ Finish(t)
      /\ UNCHANGED <<now, match, platform, crashes>>

(* cancel_bet reads the bet WITHOUT locking it and decides on that read;   *)
(* the creator and the stake of a bet never change, its status does.       *)
CancelRead(t, b) ==
  /\ pc[t] = "idle"
  /\ bet[b].status = "OPEN"
  /\ Goto(t, "cancel_wallet")
  /\ req' = [req EXCEPT ![t] = [NoRequest EXCEPT !.bet = b,
               !.user = bet[b].creator_id, !.stake = bet[b].stake_amount]]
  /\ UNCHANGED <<now, rows, locks, snap, psnap, crashes>>

(* Fault: unlock_stake does not verify that the result is not negative. *)
UnlockUnverified(t) ==
  /\ pc[t] = "cancel_wallet"
  /\ get_by_user_id_for_update(t, req[t].user)
  /\ Goto(t, "cancel_bet")
  /\ UNCHANGED <<now, rows, betLock, matchLock, platformLock, req, psnap, crashes>>

(* WalletService.unlock_stake: lock and load; a negative result is refused. *)
UnlockStake(t) ==
  /\ pc[t] = "cancel_wallet"
  /\ get_by_user_id_for_update(t, req[t].user)
  /\ wallet[req[t].user].locked >= req[t].stake
  /\ Goto(t, "cancel_bet")
  /\ UNCHANGED <<now, rows, betLock, matchLock, platformLock, req, psnap, crashes>>

(* verify_non_negative raises: the request is rolled back. *)
UnlockStakeRefused(t) ==
  /\ pc[t] = "cancel_wallet"
  /\ walletLock[req[t].user] = NoOne
  /\ wallet[req[t].user].locked < req[t].stake
  /\ Finish(t)
  /\ UNCHANGED <<now, rows, crashes>>

(* UPDATE bets SET status = 'CANCELLED' WHERE id = ?: it waits for the row *)
(* lock and then overwrites whatever status it finds; commit.              *)
CancelCommit(t) ==
  LET r == req[t]
      b == req[t].bet
  IN  /\ pc[t] = "cancel_bet"
      /\ betLock[b] = NoOne
      /\ bet' = [bet EXCEPT ![b].status = "CANCELLED"]
      /\ wallet' = [wallet EXCEPT ![r.user] = unlock_stake(snap[t][r.user], r.stake)]
      /\ ledger' = write_stake_unlock(b, r.user, r.stake)
      /\ events' = write_bet_event(b, "CANCELLED")
      /\ Finish(t)
      /\ UNCHANGED <<now, match, platform, crashes>>

(* Every step of the three bet requests. *)
BetServiceStep(t) ==
  \/ \E u \in Users, b \in Bets, m \in Matches, p \in Outcomes, s \in StakeInputs :
       CreateBegin(t, u, b, m, p, s)
  \/ \E u \in Users, b \in Bets, p \in Outcomes : AcceptLock(t, u, b, p)
  \/ LockStake(t)
  \/ LockStakeRefused(t)
  \/ CreateCommit(t)
  \/ AcceptCommit(t)
  \/ \E b \in Bets : CancelRead(t, b)
  \/ UnlockStake(t)
  \/ UnlockStakeRefused(t)
  \/ CancelCommit(t)
=============================================================================
