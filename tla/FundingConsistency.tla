------------------------- MODULE FundingConsistency -------------------------
(***************************************************************************)
(* What every funding request in flight may rely on, beside the betting    *)
(* requests: the inductive invariant of the exchange.  Deposits and        *)
(* withdrawals are decided on plain reads, so a request may find its row   *)
(* in another status when it commits; what it may rely on is the owner,    *)
(* the amount and the approval of the row, and the wallet it has locked.   *)
(***************************************************************************)
EXTENDS Consistency, Exchange

(* Worker t holds u's wallet and has its committed content. *)
HoldsFresh(t, u) == walletLock[u] = t /\ snap[t][u] = wallet[u]

CompletionOK(t) ==
  LET d == order[t].deposit
  IN  /\ d \in Deposits /\ deposit[d].status # "none" /\ order[t].user \in Users
      /\ order[t].user = deposit[d].user_id /\ order[t].amount = deposit[d].amount
      /\ pc[t] = "deposit_commit" => HoldsFresh(t, order[t].user)

(* create_withdrawal has read the wallet early, but from its INSERT on it  *)
(* shares the row, and it commits what it has read.                        *)
HoldOK(t) ==
  LET u == order[t].user
  IN  /\ order[t].action = "create"
      /\ order[t].withdrawal \in Withdrawals /\ withdrawal[order[t].withdrawal].status = "none"
      /\ u \in Users
      /\ order[t].amount = Stored(order[t].asked)
      /\ pc[t] # "withdraw_insert" => t \in share[u]
      /\ pc[t] = "withdraw_commit" =>
           walletLock[u] = t /\ Mills(snap[t][u].available) >= order[t].asked

EndOK(t) ==
  LET w == order[t].withdrawal
      u == order[t].user
  IN  /\ order[t].action \in {"complete", "reject", "fail"}
      /\ w \in Withdrawals /\ withdrawal[w].status # "none" /\ u \in Users
      /\ u = withdrawal[w].user_id /\ order[t].amount = withdrawal[w].amount
      /\ order[t].action = "complete" => withdrawal[w].approved
      /\ pc[t] = "withdraw_end" => HoldsFresh(t, u) /\ wallet[u].locked >= order[t].amount

OrderOK(t) ==
  /\ pc[t] = "deposit_wallet" => order[t].action = "complete"
  /\ pc[t] = "deposit_commit" => order[t].action \in {"complete", "fail"}
  /\ pc[t] \in {"deposit_wallet", "deposit_commit"} =>
       /\ order[t].deposit \in Deposits /\ deposit[order[t].deposit].status # "none"
       /\ order[t].action = "complete" => CompletionOK(t)
  /\ pc[t] \in {"withdraw_insert", "withdraw_hold", "withdraw_commit"} => HoldOK(t)
  /\ pc[t] = "approve_commit" =>
       /\ order[t].withdrawal \in Withdrawals
       /\ withdrawal[order[t].withdrawal].status # "none"
  /\ pc[t] \in {"withdraw_wallet", "withdraw_end"} => EndOK(t)

(* A funding request locks one wallet, the one of its order, and last. *)
FundingLocksOK(t) ==
  pc[t] \in FundingPCs =>
    /\ \A u \in Users : walletLock[u] = t =>
         pc[t] \in {"deposit_commit", "withdraw_commit", "withdraw_end"}
    /\ \A b \in Bets : betLock[b] # t
    /\ platformLock # t

(* Only create_withdrawal shares a wallet, and who locks a shared wallet   *)
(* is its only sharer.                                                     *)
ShareOK(u) ==
  /\ \A t \in share[u] : pc[t] \in {"withdraw_hold", "withdraw_commit"} /\ order[t].user = u
  /\ walletLock[u] # NoOne /\ share[u] # {} => share[u] = {walletLock[u]}

DepositOK(d) ==
  /\ deposit[d].status # "none" => deposit[d].user_id \in Users
  /\ deposit[d].status = "none" => credits[d] = 0

WithdrawalOK(w) ==
  /\ withdrawal[w].status = "none" =>
       withdrawal[w] = NoWithdrawal /\ \A e \in WithdrawalEntries : moves[w][e] = 0
  /\ withdrawal[w].status # "none" => withdrawal[w].user_id \in Users
  /\ withdrawal[w].status \in {"approved", "processing"} => withdrawal[w].approved

(* Two requests never create the same withdrawal. *)
HoldsDistinct ==
  \A t, o \in Workers :
    /\ t # o
    /\ pc[t] \in {"withdraw_insert", "withdraw_hold", "withdraw_commit"}
    /\ pc[o] \in {"withdraw_insert", "withdraw_hold", "withdraw_commit"}
    => order[t].withdrawal # order[o].withdrawal

FundingSound ==
  /\ HoldsDistinct
  /\ \A t \in Workers : OrderOK(t) /\ FundingLocksOK(t)
  /\ \A u \in Users : ShareOK(u)
  /\ \A d \in Deposits : DepositOK(d)
  /\ \A w \in Withdrawals : WithdrawalOK(w)

(* The inductive invariant of the exchange: betting requests find their    *)
(* rows as they rely on them beside the funding requests too, and funding  *)
(* requests theirs, whatever the betting requests commit.                  *)
ExchangeConsistent ==
  /\ FundingTypeOK
  /\ Sound /\ LocksTaken
  /\ FundingSound
  /\ OnlyApprovedPaid /\ CompletedIsCredited
=============================================================================
