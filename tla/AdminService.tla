---------------------------- MODULE AdminService ----------------------------
(***************************************************************************)
(* AdminService.void_bet (app/services/admin_service.py).  The wallets are *)
(* locked creator first, opponent second, whatever their order.            *)
(***************************************************************************)
EXTENDS Store

(* Fault: void_bet reads the bet as cancel_bet does, without locking it. *)
VoidRead(t, b) ==
  /\ pc[t] = "idle"
  /\ bet[b].status \in {"OPEN", "MATCHED"}
  /\ Goto(t, "void_creator")
  /\ req' = [req EXCEPT ![t] = [NoRequest EXCEPT !.bet = b, !.stake = bet[b].stake_amount]]
  /\ UNCHANGED <<now, rows, locks, snap, psnap, crashes>>

(* void_bet, up to the first wallet: lock the bet row, check its status. *)
VoidLock(t, b) ==
  /\ pc[t] = "idle"
  /\ get_for_update(t, b)
  /\ bet[b].status \in {"OPEN", "MATCHED"}
  /\ Goto(t, "void_creator")
  /\ req' = [req EXCEPT ![t] = [NoRequest EXCEPT !.bet = b, !.stake = bet[b].stake_amount]]
  /\ UNCHANGED <<now, rows, walletLock, matchLock, platformLock, snap, psnap, crashes>>

(* The user whose wallet void_refund locks next. *)
VoidUser(t) ==
  IF pc[t] = "void_creator" THEN bet[req[t].bet].creator_id
                            ELSE bet[req[t].bet].opponent_id

(* WalletService.void_refund: lock and load; a negative result is refused. *)
VoidRefund(t) ==
  /\ pc[t] \in {"void_creator", "void_opponent"}
  /\ get_by_user_id_for_update(t, VoidUser(t))
  /\ wallet[VoidUser(t)].locked >= req[t].stake
  /\ Goto(t, IF pc[t] = "void_creator" /\ bet[req[t].bet].status = "MATCHED"
             THEN "void_opponent" ELSE "void_commit")
  /\ UNCHANGED <<now, rows, betLock, matchLock, platformLock, req, psnap, crashes>>

(* verify_non_negative raises: the request is rolled back. *)
VoidRefundRefused(t) ==
  /\ pc[t] \in {"void_creator", "void_opponent"}
  /\ walletLock[VoidUser(t)] = NoOne
  /\ wallet[VoidUser(t)].locked < req[t].stake
  /\ Finish(t)
  /\ UNCHANGED <<now, rows, crashes>>

(* Fault: only the creator is refunded. *)
CreatorOnly(b) == {bet[b].creator_id}

(* The parties void_bet refunds: the opponent only of a MATCHED bet. *)
Refunded(b) == {bet[b].creator_id} \cup
               IF bet[b].status = "MATCHED" THEN {bet[b].opponent_id} ELSE {}

(* write_void_refund, once for every party refunded. *)
write_void_refund(b, parties, amount) ==
  [ledger EXCEPT ![b] = [u \in Users |->
     IF u \in parties THEN [ledger[b][u] EXCEPT !["VOID_REFUND"] = @ + amount]
                      ELSE ledger[b][u]]]

VoidCommit(t) ==
  LET b == req[t].bet
      s == req[t].stake
  IN  /\ pc[t] = "void_commit"
      /\ bet' = [bet EXCEPT ![b].status = "VOIDED", ![b].settlement_outcome = "voided"]
      /\ wallet' = [u \in Users |-> IF u \in Refunded(b)
                                    THEN void_refund(snap[t][u], s) ELSE wallet[u]]
      /\ ledger' = write_void_refund(b, Refunded(b), s)
      /\ events' = write_bet_event(b, "VOIDED")
      /\ Finish(t)
      /\ UNCHANGED <<now, match, platform, crashes>>

AdminServiceStep(t) ==
  \/ \E b \in Bets : VoidLock(t, b)
  \/ VoidRefund(t)
  \/ VoidRefundRefused(t)
  \/ VoidCommit(t)
=============================================================================
