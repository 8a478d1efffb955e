------------------------------ MODULE Exchange ------------------------------
(***************************************************************************)
(* Bets and funding together: both work on the same wallets rows, and the  *)
(* locked balance of a wallet holds stakes and withdrawals alike.          *)
(***************************************************************************)
EXTENDS BuddyBet, Funding, Integers

FundingPCs == {"deposit_wallet", "deposit_commit", "withdraw_insert", "withdraw_hold",
               "withdraw_commit", "approve_commit", "withdraw_wallet", "withdraw_end"}

ExchangeVars == <<vars, fund>>

ExchangeInit == Init /\ FundingInit

(* A betting step; a wallet somebody shares cannot be locked for update. *)
BettingStep(t) ==
  /\ ServiceStep(t)
  /\ \A u \in Users : walletLock'[u] # walletLock[u] /\ walletLock'[u] = t => share[u] = {}
  /\ UNCHANGED fund

(* Worker t waits for the row lock of u's wallet. *)
WantsWallet(t, u) ==
  \/ pc[t] \in {"create_wallet", "accept_wallet", "cancel_wallet"} /\ u = req[t].user
  \/ pc[t] \in {"void_creator", "void_opponent"} /\ u = VoidUser(t)
  \/ pc[t] \in {"settle_wallet1", "settle_wallet2"} /\ u = SettleUser(t)
  \/ pc[t] \in {"deposit_wallet", "withdraw_wallet", "withdraw_hold"} /\ u = order[t].user

(* The waits-for relation with the shared rows. *)
ExchangeWaitsFor(t, o) ==
  \/ WaitsFor(t, o)
  \/ \E u \in Users : WantsWallet(t, u) /\ (walletLock[u] = o \/ o \in share[u] \ {t})
  \/ pc[t] = "withdraw_insert" /\ walletLock[order[t].user] = o

ExchangeDeadlocked(D) == D # {} /\ \A t \in D : \E o \in D : ExchangeWaitsFor(t, o)

(* The deadlock detector rolls a request back. *)
ExchangeAbort(t) ==
  /\ \E D \in SUBSET Workers : t \in D /\ ExchangeDeadlocked(D)
  /\ IF pc[t] \in SettlePCs THEN NextBet(t, req[t].todo) /\ UNCHANGED <<order, share>>
                            ELSE FinishOrder(t)
  /\ UNCHANGED <<now, rows, crashes, deposit, withdrawal, payment, credits, moves>>

ExchangeNext ==
  \/ Tick /\ UNCHANGED fund
  \/ FundingArrives
  \/ \E t \in Workers : BettingStep(t) \/ FundingStep(t) \/ ExchangeAbort(t)

ExchangeSpec == ExchangeInit /\ [][ExchangeNext]_ExchangeVars

-----------------------------------------------------------------------------
(* Type invariant of the funding state. *)
FundingTypeOK ==
  /\ deposit \in [Deposits -> Deposit]
  /\ withdrawal \in [Withdrawals -> Withdrawal]
  /\ payment \in [Deposits -> {"none", "checkout", "COMPLETE", "CANCELLED"}]
  /\ credits \in [Deposits -> Nat]
  /\ moves \in [Withdrawals -> [WithdrawalEntries -> Nat]]
  /\ order \in [Workers -> Order]
  /\ share \in [Users -> SUBSET Workers]
  /\ wallet \in [Users -> Wallet]
  /\ pc \in [Workers -> PCs \cup FundingPCs]

(* Totals of user u over the funding entries of the ledger. *)
Credited(u) ==
  Sum([d \in Deposits |-> IF deposit[d].user_id = u THEN credits[d] ELSE 0], Deposits)
Moved(u, type) ==
  Sum([w \in Withdrawals |-> IF withdrawal[w].user_id = u THEN moves[w][type] ELSE 0],
      Withdrawals)

(* The balances of user u as all ledger entries together tell them. *)
LedgerAvailable(u) ==
  InitFunds[u] + Credited(u) - Moved(u, "WITHDRAWAL_HOLD") + Moved(u, "WITHDRAWAL_RELEASE")
    - Sum(Entries(u, "STAKE_LOCK"), Bets) + Sum(Entries(u, "STAKE_UNLOCK"), Bets)
    + Sum(Entries(u, "VOID_REFUND"), Bets) + Sum(Entries(u, "PAYOUT_CREDIT"), Bets)
    + Sum(Entries(u, "REFUND_CREDIT"), Bets)

LedgerLocked(u) ==
  Moved(u, "WITHDRAWAL_HOLD") - Moved(u, "WITHDRAWAL_RELEASE") - Moved(u, "WITHDRAWAL")
    + Sum(Entries(u, "STAKE_LOCK"), Bets) - Sum(Entries(u, "STAKE_UNLOCK"), Bets)
    - Sum(Entries(u, "VOID_REFUND"), Bets) - Sum(Entries(u, "SETTLEMENT_DEDUCT"), Bets)
    - Sum(Entries(u, "FEE_DEDUCT"), Bets)

(* The cents user u was left when withdrawals were held. *)
HoldGain(u) ==
  Sum([w \in Withdrawals |->
         IF withdrawal[w].user_id = u THEN HalfCent(withdrawal[w].asked) ELSE 0], Withdrawals)

(* How far u's available balance is from its ledger entries. *)
Unexplained(u) == wallet[u].available - LedgerAvailable(u) - StakeGain(u) - HoldGain(u)

(* Over any sequence of bets, deposits and withdrawals a locked balance is *)
(* the sum of its ledger entries, and an available one that sum plus one   *)
(* cent for every own bet or withdrawal asked for with half a cent: every  *)
(* service writes, to the cent, the entries of what it moves.              *)
LedgerExplains ==
  \A u \in Users : Unexplained(u) = 0 /\ wallet[u].locked = LedgerLocked(u)

(* create_withdrawal is about to write balances it read too early. *)
StaleHold(t) == pc[t] = "withdraw_commit" /\ snap[t][order[t].user] # wallet[order[t].user]

(* Half cents apart, the only step that moves a balance away from its      *)
(* ledger is the commit of a create_withdrawal on a wallet that changed    *)
(* after its unlocked read: every other step of every service moves both   *)
(* by the same amount, plus one cent of available balance exactly when it  *)
(* commits a bet or a withdrawal asked for with half a cent.               *)
OnlyStaleHoldsDiverge ==
  [][\A u \in Users :
       \/ \E t \in Workers : StaleHold(t) /\ pc'[t] = "idle" /\ order[t].user = u
       \/ /\ Unexplained(u)' = Unexplained(u)
          /\ wallet'[u].locked - LedgerLocked(u)' = wallet[u].locked - LedgerLocked(u)
    ]_ExchangeVars

(* Once its INSERT shares the wallet row, nobody changes the wallet before *)
(* the withdrawal's hold is committed or given up: the stale read can only *)
(* happen before the INSERT.                                               *)
ShareProtects ==
  [][\A u \in Users, t \in Workers :
       t \in share[u] /\ wallet'[u] # wallet[u] => t \notin share'[u]]_ExchangeVars

(* Deposits and admin actions never deadlock with anything: a waits-for    *)
(* cycle has a void_bet or a cancel_bet in it, or two create_withdrawal    *)
(* requests of one user, each sharing the wallet row the other wants to    *)
(* lock.                                                                   *)
DeadlockNeedsSharers ==
  \A D \in SUBSET Workers : ExchangeDeadlocked(D) =>
    \/ \E t, o \in D : /\ t # o /\ pc[t] = "withdraw_hold" /\ pc[o] = "withdraw_hold"
                       /\ order[t].user = order[o].user
    \/ \E t \in D : pc[t] \in {"void_creator", "void_opponent", "cancel_wallet", "cancel_bet"}

(* Money leaves the platform only for a withdrawal an admin approved, and  *)
(* comes in only for a deposit that was completed: no interleaving pays    *)
(* out a pending request or credits a deposit whose completion was rolled  *)
(* back.                                                                   *)
OnlyApprovedPaid ==
  \A w \in Withdrawals : moves[w]["WITHDRAWAL"] > 0 => withdrawal[w].approved

CompletedIsCredited ==
  \A d \in Deposits :
    /\ deposit[d].status = "completed" => credits[d] >= deposit[d].amount
    /\ deposit[d].status \in COMPLETABLE_DEPOSIT => credits[d] = 0

(* A deposit is credited once, however often its notification arrives or   *)
(* an admin completes it by hand.                                          *)
CreditedOnce == \A d \in Deposits : credits[d] <= deposit[d].amount

(* What withdrawal w still holds of the locked balance. *)
Holding(w) == IF withdrawal[w].status \in {"pending", "approved", "processing"}
              THEN withdrawal[w].amount ELSE 0

(* The hold of a withdrawal is used exactly once: it is kept while the     *)
(* request is open, paid out when it is completed and released when it is  *)
(* rejected or failed, never two of these.                                 *)
HoldUsedOnce ==
  \A w \in Withdrawals :
    /\ moves[w]["WITHDRAWAL"] =
         IF withdrawal[w].status = "completed" THEN withdrawal[w].amount ELSE 0
    /\ moves[w]["WITHDRAWAL_RELEASE"] =
         IF withdrawal[w].status \in {"rejected", "failed"} THEN withdrawal[w].amount ELSE 0

HeldFor(u) ==
  Sum([w \in Withdrawals |-> IF withdrawal[w].user_id = u THEN Holding(w) ELSE 0], Withdrawals)

(* A locked balance is the stakes of the live bets plus the open           *)
(* withdrawals of the user, so no settlement ever finds its stake spent by *)
(* a withdrawal, nor a withdrawal its hold spent by a settlement.          *)
LockedExact == \A u \in Users : wallet[u].locked = Reserved(u) + HeldFor(u)
=============================================================================
