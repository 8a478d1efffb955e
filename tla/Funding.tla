------------------------------ MODULE Funding -------------------------------
(***************************************************************************)
(* DepositService, WithdrawalService and the PayFast webhook: money comes  *)
(* in and goes out through the wallets the bets use.                       *)
(*                                                                         *)
(* A deposit or withdrawal row is read with a plain SELECT, and the status *)
(* seen there decides; no row of the two tables is ever locked for longer  *)
(* than the last statement before a commit, so their UPDATEs are part of   *)
(* the commit.  An INSERT that names a wallet (foreign key) waits for the  *)
(* wallet's row lock and then shares the row until its transaction ends    *)
(* (FOR KEY SHARE): "share" is the set of requests that do.                *)
(***************************************************************************)
EXTENDS Store

CONSTANTS
  Deposits, Withdrawals,               \* ids that may be handed out
  DepositInputs, WithdrawalInputs,     \* amounts clients ask for, in mills
  Taken                                \* provider references of older deposits

ASSUME FundingAssumption ==
  /\ IsFiniteSet(Deposits) /\ IsFiniteSet(Withdrawals)
  /\ NoOne \notin Deposits \cup Withdrawals \cup Taken
  /\ DepositInputs \subseteq Nat /\ WithdrawalInputs \subseteq Nat

VARIABLES
  deposit,      \* deposit_requests rows
  withdrawal,   \* withdrawal_requests rows
  payment,      \* PayFast's side of a deposit: its page, then its verdict
  credits,      \* ledger_entries of type DEPOSIT: amount per deposit
  moves,        \* the ledger_entries of a withdrawal: amount per entry type
  order,        \* what a funding request is about
  share         \* requests that hold a wallet row FOR KEY SHARE

(* A payment's id at the provider, named after its deposit. *)
References == Deposits \cup Taken

fund == <<deposit, withdrawal, payment, credits, moves, order, share>>

DepositStatus == {"pending", "processing", "completed", "failed", "cancelled"}

WithdrawalStatus ==
  {"pending", "approved", "processing", "completed", "failed", "rejected"}

WithdrawalEntries == {"WITHDRAWAL_HOLD", "WITHDRAWAL_RELEASE", "WITHDRAWAL"}

(* checkout_amount is the amount in the checkout_url kept in the row. *)
Deposit == [status : DepositStatus \cup {"none"}, user_id : Null(Users), amount : Nat,
            checkout_amount : Nat, provider_reference : Null(References)]

NoDeposit == [status |-> "none", user_id |-> NoOne, amount |-> 0,
              checkout_amount |-> 0, provider_reference |-> NoOne]

(* asked is the amount the client typed; no column keeps it, it is here    *)
(* for what is said about the balances later.                              *)
Withdrawal == [status : WithdrawalStatus \cup {"none"}, user_id : Null(Users),
               amount : Nat, asked : Nat, approved : BOOLEAN]

NoWithdrawal == [status |-> "none", user_id |-> NoOne, amount |-> 0, asked |-> 0,
                 approved |-> FALSE]

Order == [deposit : Null(Deposits), withdrawal : Null(Withdrawals), user : Null(Users),
          amount : Nat, asked : Nat, reference : Null(References),
          action : {"none", "create", "complete", "reject", "fail"}]

NoOrder == [deposit |-> NoOne, withdrawal |-> NoOne, user |-> NoOne, amount |-> 0,
            asked |-> 0, reference |-> NoOne, action |-> "none"]

FundingInit ==
  /\ deposit = [d \in Deposits |-> NoDeposit]
  /\ withdrawal = [w \in Withdrawals |-> NoWithdrawal]
  /\ payment = [d \in Deposits |-> "none"]
  /\ credits = [d \in Deposits |-> 0]
  /\ moves = [w \in Withdrawals |-> [e \in WithdrawalEntries |-> 0]]
  /\ order = [t \in Workers |-> NoOrder]
  /\ share = [u \in Users |-> {}]

(* Rows of the betting tables, which no funding request touches. *)
betting == <<now, match, bet, platform, ledger, events, crashes>>

(* End of a funding request. *)
FinishOrder(t) ==
  /\ Finish(t)
  /\ order' = [order EXCEPT ![t] = NoOrder]
  /\ share' = [u \in Users |-> share[u] \ {t}]

(* A request begins: its order is noted, nothing is locked. *)
BeginOrder(t, label, o) ==
  /\ pc[t] = "idle"
  /\ Goto(t, label)
  /\ order' = [order EXCEPT ![t] = o]

(* Fault: the wallet is read without locking its row. *)
ReadWallet(t, u) == get_by_user_id(t, u)

(* SELECT ... FOR UPDATE of a wallet that is not in the session yet. *)
LockWallet(t, u) ==
  /\ get_by_user_id_for_update(t, u)
  /\ share[u] \subseteq {t}

(* What a step that only locks leaves alone. *)
LockOnly == UNCHANGED <<betting, wallet, betLock, matchLock, platformLock, req, psnap,
                        deposit, withdrawal, payment, credits, moves>>

-----------------------------------------------------------------------------
(* Deposits. *)

(* Fault: a completed deposit may be completed again. *)
RepeatableDeposit == {"pending", "processing", "completed"}

COMPLETABLE_DEPOSIT == {"pending", "processing"}

(* create_deposit: nothing is waited for after the INSERT, so it is one    *)
(* step with its commit.  No money moves.  The amount is checked as asked, *)
(* and the row keeps it rounded.                                           *)
CreateDeposit(u, d, amount) ==
  /\ deposit[d].status = "none"
  /\ amount > 0
  /\ walletLock[u] = NoOne
  /\ deposit' = [deposit EXCEPT ![d] = [NoDeposit EXCEPT !.status = "pending",
                                          !.user_id = u, !.amount = Stored(amount)]]
  /\ UNCHANGED <<vars, withdrawal, payment, credits, moves, order, share>>

(* initiate_payfast_deposit: the same with the limits of a stake, and the  *)
(* user is sent to the checkout page, for the amount as it is formatted.   *)
InitiatePayfastDeposit(u, d, amount) ==
  /\ deposit[d].status = "none"
  /\ amount >= Mills(MinStake) /\ amount <= Mills(MaxStake)
  /\ walletLock[u] = NoOne
  /\ deposit' = [deposit EXCEPT ![d] = [NoDeposit EXCEPT !.status = "processing",
                                          !.user_id = u, !.amount = Stored(amount),
                                          !.checkout_amount = Formatted(amount)]]
  /\ payment' = [payment EXCEPT ![d] = "checkout"]
  /\ UNCHANGED <<vars, withdrawal, credits, moves, order, share>>

(* The user pays or gives up on PayFast's page; from now on PayFast may    *)
(* post a notification (ITN) of it, late and as often as it likes.         *)
PayFastDecides(d, verdict) ==
  /\ payment[d] = "checkout"
  /\ payment' = [payment EXCEPT ![d] = verdict]
  /\ UNCHANGED <<vars, deposit, withdrawal, credits, moves, order, share>>

(* complete_deposit, up to the wallet: the status is checked on a plain    *)
(* read; get_by_id_or_404 in the same session returns the loaded row.  A   *)
(* row whose amount was rounded to nothing is refused by credit_deposit.   *)
CompleteDeposit(t, d, reference) ==
  /\ deposit[d].status \in COMPLETABLE_DEPOSIT
  /\ deposit[d].amount > 0
  /\ BeginOrder(t, "deposit_wallet",
       [NoOrder EXCEPT !.deposit = d, !.user = deposit[d].user_id,
          !.amount = deposit[d].amount, !.reference = reference, !.action = "complete"])
  /\ UNCHANGED <<betting, wallet, locks, req, snap, psnap,
                 deposit, withdrawal, payment, credits, moves, share>>

(* fail_deposit, up to its UPDATE. *)
FailDeposit(t, d) ==
  /\ deposit[d].status \in COMPLETABLE_DEPOSIT
  /\ BeginOrder(t, "deposit_commit",
       [NoOrder EXCEPT !.deposit = d, !.user = deposit[d].user_id, !.action = "fail"])
  /\ UNCHANGED <<betting, wallet, locks, req, snap, psnap,
                 deposit, withdrawal, payment, credits, moves, share>>

(* payfast_itn: a notification is verified and handed to the service; it   *)
(* carries the id PayFast gave the payment, named here after its deposit,  *)
(* and the amount paid, which must be the amount of the row.               *)
PayfastItn(t, d) ==
  \/ /\ payment[d] = "COMPLETE"
     /\ deposit[d].checkout_amount = deposit[d].amount
     /\ CompleteDeposit(t, d, d)
  \/ payment[d] = "CANCELLED" /\ FailDeposit(t, d)

(* WalletService.credit_deposit: the wallet is locked and loaded. *)
CreditDeposit(t) ==
  /\ pc[t] = "deposit_wallet"
  /\ LockWallet(t, order[t].user)
  /\ Goto(t, "deposit_commit")
  /\ UNCHANGED <<order, share>>
  /\ LockOnly

(* provider_reference is UNIQUE: no other deposit, old or new, has this one. *)
ReferenceFree(t) ==
  LET o == order[t]
  IN  o.reference = NoOne
        \/ /\ o.reference \notin Taken
           /\ \A d \in Deposits \ {o.deposit} : deposit[d].provider_reference # o.reference

(* Commit of complete_deposit: balance, DEPOSIT entry, and the row with    *)
(* whatever status it has by now.                                          *)
CompleteDepositCommit(t) ==
  LET o == order[t]
  IN  /\ pc[t] = "deposit_commit" /\ o.action = "complete"
      /\ ReferenceFree(t)
      /\ wallet' = [wallet EXCEPT ![o.user].available = snap[t][o.user].available + o.amount]
      /\ credits' = [credits EXCEPT ![o.deposit] = @ + o.amount]
      /\ deposit' = [deposit EXCEPT ![o.deposit].status = "completed",
                       ![o.deposit].provider_reference =
                          IF o.reference = NoOne THEN @ ELSE o.reference]
      /\ FinishOrder(t)
      /\ UNCHANGED <<betting, withdrawal, payment, moves>>

(* Fault: the webhook swallows the exception and commits the credit alone. *)
CreditWithoutCompletion(t) ==
  LET o == order[t]
  IN  /\ pc[t] = "deposit_commit" /\ o.action = "complete"
      /\ ~ReferenceFree(t)
      /\ wallet' = [wallet EXCEPT ![o.user].available = snap[t][o.user].available + o.amount]
      /\ credits' = [credits EXCEPT ![o.deposit] = @ + o.amount]
      /\ FinishOrder(t)
      /\ UNCHANGED <<betting, deposit, withdrawal, payment, moves>>

(* The UNIQUE constraint is hit: everything is rolled back, the credit     *)
(* too, also in the webhook, which swallows the exception.                 *)
CompleteDepositRefused(t) ==
  /\ pc[t] = "deposit_commit" /\ order[t].action = "complete"
  /\ ~ReferenceFree(t)
  /\ FinishOrder(t)
  /\ UNCHANGED <<betting, wallet, deposit, withdrawal, payment, credits, moves>>

(* Commit of fail_deposit. *)
FailDepositCommit(t) ==
  /\ pc[t] = "deposit_commit" /\ order[t].action = "fail"
  /\ deposit' = [deposit EXCEPT ![order[t].deposit].status = "failed"]
  /\ FinishOrder(t)
  /\ UNCHANGED <<betting, wallet, withdrawal, payment, credits, moves>>

-----------------------------------------------------------------------------
(* Withdrawals. *)

APPROVABLE == {"pending"}

(* Fault: a pending withdrawal can be completed. *)
SourcesUnapproved == [complete |-> {"pending", "approved", "processing"},
                      reject   |-> {"pending", "approved"},
                      fail     |-> {"pending", "approved", "processing"}]

(* Fault: a rejected withdrawal can still be marked failed. *)
SourcesRejected == [complete |-> {"approved", "processing"},
                    reject   |-> {"pending", "approved"},
                    fail     |-> {"pending", "approved", "processing", "rejected"}]

(* The statuses from which an admin action may end a withdrawal. *)
Sources == [complete |-> {"approved", "processing"},
            reject   |-> {"pending", "approved"},
            fail     |-> {"pending", "approved", "processing"}]

Ended == [complete |-> "completed", reject |-> "rejected", fail |-> "failed"]

(* create_withdrawal, up to the INSERT: the wallet is loaded WITHOUT a     *)
(* lock and stays in the session.                                          *)
CreateWithdrawal(t, u, w, amount) ==
  /\ withdrawal[w].status = "none"
  /\ \A o \in Workers : order[o].action = "create" => order[o].withdrawal # w
  /\ amount > 0
  /\ BeginOrder(t, "withdraw_insert",
       [NoOrder EXCEPT !.withdrawal = w, !.user = u, !.amount = Stored(amount),
                       !.asked = amount, !.action = "create"])
  /\ snap' = [snap EXCEPT ![t][u] = wallet[u]]
  /\ UNCHANGED <<betting, wallet, locks, req, psnap,
                 deposit, withdrawal, payment, credits, moves, share>>

(* The INSERT of the request shares the wallet row. *)
InsertWithdrawal(t) ==
  LET u == order[t].user
  IN  /\ pc[t] = "withdraw_insert"
      /\ walletLock[u] = NoOne
      /\ share' = [share EXCEPT ![u] = @ \cup {t}]
      /\ Goto(t, "withdraw_hold")
      /\ UNCHANGED <<walletLock, snap, order>>
      /\ LockOnly

(* ledger_entries has CHECK (amount > 0) in schema.sql. *)
EntryAllowed(amount) == DDLChecks => amount > 0

(* hold_withdrawal: the row is locked now, but the wallet is in the        *)
(* session already and keeps the balances loaded then.                     *)
HoldWithdrawal(t) ==
  LET u == order[t].user
  IN  /\ pc[t] = "withdraw_hold"
      /\ walletLock[u] = NoOne /\ share[u] = {t}
      /\ Mills(snap[t][u].available) >= order[t].asked
      /\ EntryAllowed(order[t].amount)
      /\ walletLock' = [walletLock EXCEPT ![u] = t]
      /\ Goto(t, "withdraw_commit")
      /\ UNCHANGED <<snap, order, share>>
      /\ LockOnly

(* InsufficientFundsError, or the entry of the hold breaks its CHECK: the  *)
(* request row goes with the rollback.                                     *)
HoldRefused(t) ==
  LET u == order[t].user
  IN  /\ pc[t] = "withdraw_hold"
      /\ walletLock[u] = NoOne /\ share[u] = {t}
      /\ ~(Mills(snap[t][u].available) >= order[t].asked /\ EntryAllowed(order[t].amount))
      /\ FinishOrder(t)
      /\ UNCHANGED <<betting, wallet, deposit, withdrawal, payment, credits, moves>>

write_withdrawal(w, type, amount) == [moves EXCEPT ![w][type] = @ + amount]

(* The two balances are rounded apart, for the amount as asked. *)
hold_withdrawal(w, amount) == [available |-> safe_subtract(w.available, amount),
                               locked |-> safe_add(w.locked, amount)]

release_withdrawal_hold(w, s)   == [available |-> w.available + s, locked |-> w.locked - s]

(* Fault: the paid amount also returns to the available balance. *)
debit_returned(w, s) == [available |-> w.available + s, locked |-> w.locked - s]

finalize_withdrawal_debit(w, s) == [available |-> w.available, locked |-> w.locked - s]

(* Commit of create_withdrawal: the request, its hold, and the balances    *)
(* computed from the session.                                              *)
CreateWithdrawalCommit(t) ==
  LET o == order[t]
  IN  /\ pc[t] = "withdraw_commit"
      /\ withdrawal' = [withdrawal EXCEPT ![o.withdrawal] =
                          [NoWithdrawal EXCEPT !.status = "pending", !.user_id = o.user,
                                               !.amount = o.amount, !.asked = o.asked]]
      /\ wallet' = [wallet EXCEPT ![o.user] = hold_withdrawal(snap[t][o.user], o.asked)]
      /\ moves' = write_withdrawal(o.withdrawal, "WITHDRAWAL_HOLD", o.amount)
      /\ FinishOrder(t)
      /\ UNCHANGED <<betting, deposit, payment, credits>>

(* approve_withdrawal: checked on a plain read ... *)
ApproveWithdrawal(t, w) ==
  /\ withdrawal[w].status \in APPROVABLE
  /\ BeginOrder(t, "approve_commit", [NoOrder EXCEPT !.withdrawal = w])
  /\ UNCHANGED <<betting, wallet, locks, req, snap, psnap,
                 deposit, withdrawal, payment, credits, moves, share>>

(* ... and written over whatever status the row has by now. *)
ApproveCommit(t) ==
  /\ pc[t] = "approve_commit"
  /\ withdrawal' = [withdrawal EXCEPT ![order[t].withdrawal].status = "approved",
                                      ![order[t].withdrawal].approved = TRUE]
  /\ FinishOrder(t)
  /\ UNCHANGED <<betting, wallet, deposit, payment, credits, moves>>

(* Fault: the ledger entry is inserted first, and shares the wallet row    *)
(* before its balance is locked.                                           *)
EntryFirst(t, w, action) ==
  LET u == withdrawal[w].user_id
  IN  /\ withdrawal[w].status \in Sources[action] /\ withdrawal[w].amount > 0
      /\ walletLock[u] = NoOne
      /\ BeginOrder(t, "withdraw_wallet",
           [NoOrder EXCEPT !.withdrawal = w, !.user = u,
              !.amount = withdrawal[w].amount, !.action = action])
      /\ share' = [share EXCEPT ![u] = @ \cup {t}]
      /\ UNCHANGED <<betting, wallet, locks, req, snap, psnap,
                     deposit, withdrawal, payment, credits, moves>>

(* complete_, reject_ and fail_withdrawal: _assert_transition on a plain   *)
(* read; the wallet operation refuses an amount rounded to nothing.        *)
EndWithdrawal(t, w, action) ==
  /\ withdrawal[w].status \in Sources[action]
  /\ withdrawal[w].amount > 0
  /\ BeginOrder(t, "withdraw_wallet",
       [NoOrder EXCEPT !.withdrawal = w, !.user = withdrawal[w].user_id,
          !.amount = withdrawal[w].amount, !.action = action])
  /\ UNCHANGED <<betting, wallet, locks, req, snap, psnap,
                 deposit, withdrawal, payment, credits, moves, share>>

(* Fault: the locked balance is not checked. *)
EndUnchecked(t) ==
  /\ pc[t] = "withdraw_wallet"
  /\ LockWallet(t, order[t].user)
  /\ Goto(t, "withdraw_end")
  /\ UNCHANGED <<order, share>>
  /\ LockOnly

(* Lock and load the wallet; the locked balance must cover the amount. *)
EndLock(t) ==
  LET u == order[t].user
  IN  /\ pc[t] = "withdraw_wallet"
      /\ LockWallet(t, u)
      /\ wallet[u].locked >= order[t].amount
      /\ Goto(t, "withdraw_end")
      /\ UNCHANGED <<order, share>>
      /\ LockOnly

EndRefused(t) ==
  LET u == order[t].user
  IN  /\ pc[t] = "withdraw_wallet"
      /\ walletLock[u] = NoOne /\ share[u] = {}
      /\ wallet[u].locked < order[t].amount
      /\ FinishOrder(t)
      /\ UNCHANGED <<betting, wallet, deposit, withdrawal, payment, credits, moves>>

(* The money leaves the platform, or goes back to the available balance;   *)
(* the status overwrites whatever the row has by now.                      *)
EndCommit(t) ==
  LET o == order[t]
      paid == o.action = "complete"
  IN  /\ pc[t] = "withdraw_end"
      /\ wallet' = [wallet EXCEPT ![o.user] =
                      IF paid THEN finalize_withdrawal_debit(snap[t][o.user], o.amount)
                              ELSE release_withdrawal_hold(snap[t][o.user], o.amount)]
      /\ moves' = write_withdrawal(o.withdrawal,
                    IF paid THEN "WITHDRAWAL" ELSE "WITHDRAWAL_RELEASE", o.amount)
      /\ withdrawal' = [withdrawal EXCEPT ![o.withdrawal].status = Ended[o.action]]
      /\ FinishOrder(t)
      /\ UNCHANGED <<betting, deposit, payment, credits>>

-----------------------------------------------------------------------------
(* Steps that serve no worker's request of several steps. *)
FundingArrives ==
  \/ \E u \in Users, d \in Deposits, a \in DepositInputs :
       CreateDeposit(u, d, a) \/ InitiatePayfastDeposit(u, d, a)
  \/ \E d \in Deposits, v \in {"COMPLETE", "CANCELLED"} : PayFastDecides(d, v)

(* The admin's requests: complete, verify (with PayFast's id) and fail a   *)
(* deposit; approve, complete, reject and fail a withdrawal.               *)
AdminDeposits(t) ==
  \/ \E d \in Deposits, r \in Null(References) : CompleteDeposit(t, d, r)
  \/ \E d \in Deposits : FailDeposit(t, d)

AdminWithdrawals(t) ==
  \/ \E w \in Withdrawals : ApproveWithdrawal(t, w)
  \/ \E w \in Withdrawals, a \in DOMAIN Sources : EndWithdrawal(t, w, a)

FundingStep(t) ==
  \/ AdminDeposits(t)
  \/ AdminWithdrawals(t)
  \/ \E d \in Deposits : PayfastItn(t, d)
  \/ \E u \in Users, w \in Withdrawals, a \in WithdrawalInputs : CreateWithdrawal(t, u, w, a)
  \/ CreditDeposit(t)
  \/ CompleteDepositCommit(t)
  \/ CompleteDepositRefused(t)
  \/ FailDepositCommit(t)
  \/ InsertWithdrawal(t)
  \/ HoldWithdrawal(t)
  \/ HoldRefused(t)
  \/ CreateWithdrawalCommit(t)
  \/ ApproveCommit(t)
  \/ EndLock(t)
  \/ EndRefused(t)
  \/ EndCommit(t)
=============================================================================
