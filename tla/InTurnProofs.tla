---------------------------- MODULE InTurnProofs ----------------------------
(***************************************************************************)
(* What a lock on the rows that funding reads without one would give.      *)
(* Deposits and withdrawals decide on a plain read, so some properties of  *)
(* the exchange fail when requests race for a row.  Here they are proved   *)
(* for any number of requests under the condition that the requests which  *)
(* name the same deposit or withdrawal take turns, and for a single        *)
(* worker, where they always do.                                           *)
(***************************************************************************)
EXTENDS EscrowProofs, ExchangeProofs

(* No two requests in flight are about the same deposit or withdrawal. *)
RowsInTurn ==
  \A t, o \in Workers : t # o =>
    /\ order[t].deposit = order[o].deposit => order[t].deposit = NoOne
    /\ order[t].withdrawal = order[o].withdrawal => order[t].withdrawal = NoOne

(* No create_withdrawal is about to write balances it read too early. *)
NoStaleHolds == \A t \in Workers : ~StaleHold(t)

(* The status a request decided on is still there. *)
StatusSeen(t) ==
  /\ pc[t] \in {"deposit_wallet", "deposit_commit"} =>
       deposit[order[t].deposit].status \in COMPLETABLE_DEPOSIT
  /\ pc[t] = "approve_commit" => withdrawal[order[t].withdrawal].status \in APPROVABLE
  /\ pc[t] \in {"withdraw_wallet", "withdraw_end"} =>
       withdrawal[order[t].withdrawal].status \in Sources[order[t].action]

(* The inductive invariant of requests that take turns. *)
TurnsKept == CreditedOnce /\ HoldUsedOnce /\ \A t \in Workers : StatusSeen(t)

(* A step of t writes no row but the ones its order names. *)
OwnRows(t) ==
  /\ \A d \in Deposits : deposit'[d] = deposit[d] \/ d = order[t].deposit
  /\ \A w \in Withdrawals : withdrawal'[w] = withdrawal[w] \/ w = order[t].withdrawal

(* The other requests still find the status they decided on. *)
LEMMA TurnRely ==
  ASSUME ExchangeConsistent, RowsInTurn, NEW t \in Workers, Guarantees(t), FundGuarantees(t),
         OwnRows(t), NEW o \in Workers \ {t}, StatusSeen(o)
  PROVE  StatusSeen(o)'
<1>1. pc'[o] = pc[o] /\ order'[o] = order[o]
  BY DEF Guarantees, SessionsKept, FundGuarantees, OrdersKept
<1>2. OrderOK(o) /\ NoOne \notin Deposits \cup Withdrawals
  BY FundingAssumption DEF ExchangeConsistent, FundingSound, FundingAssumption
<1>3. CASE pc[o] \in {"deposit_wallet", "deposit_commit"}
  <2>1. order[o].deposit \in Deposits BY <1>2, <1>3 DEF OrderOK
  <2>2. order[t].deposit # order[o].deposit BY <1>2, <2>1 DEF RowsInTurn
  <2>3. deposit'[order[o].deposit] = deposit[order[o].deposit] BY <2>1, <2>2 DEF OwnRows
  <2> QED BY <1>1, <1>3, <2>3 DEF StatusSeen
<1>4. CASE pc[o] \in {"approve_commit", "withdraw_wallet", "withdraw_end"}
  <2>1. order[o].withdrawal \in Withdrawals BY <1>2, <1>4 DEF OrderOK, EndOK
  <2>2. order[t].withdrawal # order[o].withdrawal BY <1>2, <2>1 DEF RowsInTurn
  <2>3. withdrawal'[order[o].withdrawal] = withdrawal[order[o].withdrawal]
    BY <2>1, <2>2 DEF OwnRows
  <2> QED BY <1>1, <1>4, <2>3 DEF StatusSeen
<1> QED BY <1>1, <1>3, <1>4 DEF StatusSeen

(* A step that writes neither funding rows nor funding entries. *)
LEMMA RowsSameTurn ==
  ASSUME ExchangeConsistent, RowsInTurn, TurnsKept, NEW t \in Workers,
         Guarantees(t), FundGuarantees(t),
         UNCHANGED <<deposit, withdrawal, credits, moves>>, StatusSeen(t)'
  PROVE  TurnsKept'
<1>1. OwnRows(t) BY DEF OwnRows
<1>2. \A o \in Workers : StatusSeen(o)' BY <1>1, TurnRely DEF TurnsKept
<1> QED BY <1>2 DEF TurnsKept, CreditedOnce, HoldUsedOnce

(* A betting step or a deadlock leaves no worker in a funding request. *)
LEMMA OffFunding ==
  ASSUME ExchangeConsistent, NEW t \in Workers, BettingStep(t) \/ ExchangeAbort(t)
  PROVE  pc'[t] \notin FundingPCs
<1>1. Sound /\ FundingTypeOK BY DEF ExchangeConsistent
<1>2. CASE BettingStep(t)
  <2>1. PICK label \in PCs : Goto(t, label) BY <1>1, <1>2, LabelStep DEF BettingStep
  <2> QED BY <1>1, <2>1, LabelsApart DEF Goto, FundingTypeOK
<1>3. CASE ExchangeAbort(t) /\ pc[t] \in SettlePCs
  <2>1. req[t].todo \in SUBSET Bets BY <1>1 DEF Sound, Typed, Request
  <2>2. Ends(t) BY <1>3, <2>1, NextBetEnds DEF ExchangeAbort
  <2>3. PICK label \in {"idle", "settle_next"} : Goto(t, label) BY <2>2 DEF Ends
  <2> QED BY <1>1, <2>3 DEF Goto, FundingTypeOK, FundingPCs
<1>4. CASE ExchangeAbort(t) /\ pc[t] \notin SettlePCs
  BY <1>1, <1>4 DEF ExchangeAbort, FinishOrder, Finish, Goto, FundingTypeOK, FundingPCs
<1> QED BY <1>2, <1>3, <1>4

(* Betting steps and deadlock victims. *)
LEMMA OtherTurn ==
  ASSUME ExchangeConsistent, RowsInTurn, TurnsKept, NEW t \in Workers,
         BettingStep(t) \/ ExchangeAbort(t)
  PROVE  TurnsKept'
<1>1. Guarantees(t) /\ FundGuarantees(t) BY BettingStepConsistent, ExchangeAbortConsistent
<1>2. UNCHANGED <<deposit, withdrawal, credits, moves>>
  BY DEF BettingStep, fund, ExchangeAbort
<1>3. StatusSeen(t)' BY OffFunding DEF StatusSeen, FundingPCs
<1> QED BY <1>1, <1>2, <1>3, RowsSameTurn

(* The steps of a funding request before its commit. *)
LEMMA BeginTurn ==
  ASSUME ExchangeConsistent, RowsInTurn, TurnsKept, NEW t \in Workers,
         \/ AdminDeposits(t) \/ AdminWithdrawals(t) \/ (\E d \in Deposits : PayfastItn(t, d))
         \/ \E u \in Users, w \in Withdrawals, a \in WithdrawalInputs :
              CreateWithdrawal(t, u, w, a)
  PROVE  TurnsKept'
<1>1. Guarantees(t) /\ FundGuarantees(t) BY FundingStepConsistent DEF FundingStep
<1>2. pc \in [Workers -> PCs \cup FundingPCs] /\ order \in [Workers -> Order]
  BY DEF ExchangeConsistent, FundingTypeOK
<1>3. ASSUME NEW d \in Deposits, NEW r, CompleteDeposit(t, d, r) PROVE TurnsKept'
  <2>1. UNCHANGED <<deposit, withdrawal, credits, moves>> BY <1>3 DEF CompleteDeposit
  <2>2. pc'[t] = "deposit_wallet" /\ order'[t].deposit = d
    BY <1>2, <1>3 DEF CompleteDeposit, BeginOrder, Goto, NoOrder
  <2>3. StatusSeen(t)' BY <1>3, <2>1, <2>2 DEF CompleteDeposit, StatusSeen
  <2> QED BY <1>1, <2>1, <2>3, RowsSameTurn
<1>4. ASSUME NEW d \in Deposits, FailDeposit(t, d) PROVE TurnsKept'
  <2>1. UNCHANGED <<deposit, withdrawal, credits, moves>> BY <1>4 DEF FailDeposit
  <2>2. pc'[t] = "deposit_commit" /\ order'[t].deposit = d
    BY <1>2, <1>4 DEF FailDeposit, BeginOrder, Goto, NoOrder
  <2>3. StatusSeen(t)' BY <1>4, <2>1, <2>2 DEF FailDeposit, StatusSeen
  <2> QED BY <1>1, <2>1, <2>3, RowsSameTurn
<1>5. ASSUME NEW w \in Withdrawals, ApproveWithdrawal(t, w) PROVE TurnsKept'
  <2>1. UNCHANGED <<deposit, withdrawal, credits, moves>> BY <1>5 DEF ApproveWithdrawal
  <2>2. pc'[t] = "approve_commit" /\ order'[t].withdrawal = w
    BY <1>2, <1>5 DEF ApproveWithdrawal, BeginOrder, Goto, NoOrder
  <2>3. StatusSeen(t)' BY <1>5, <2>1, <2>2 DEF ApproveWithdrawal, StatusSeen
  <2> QED BY <1>1, <2>1, <2>3, RowsSameTurn
<1>6. ASSUME NEW w \in Withdrawals, NEW a \in DOMAIN Sources, EndWithdrawal(t, w, a)
      PROVE  TurnsKept'
  <2>1. UNCHANGED <<deposit, withdrawal, credits, moves>> BY <1>6 DEF EndWithdrawal
  <2>2. pc'[t] = "withdraw_wallet" /\ order'[t].withdrawal = w /\ order'[t].action = a
    BY <1>2, <1>6 DEF EndWithdrawal, BeginOrder, Goto, NoOrder
  <2>3. StatusSeen(t)' BY <1>6, <2>1, <2>2 DEF EndWithdrawal, StatusSeen
  <2> QED BY <1>1, <2>1, <2>3, RowsSameTurn
<1>7. ASSUME NEW u \in Users, NEW w \in Withdrawals, NEW a \in WithdrawalInputs,
             CreateWithdrawal(t, u, w, a)
      PROVE  TurnsKept'
  <2>1. UNCHANGED <<deposit, withdrawal, credits, moves>> BY <1>7 DEF CreateWithdrawal
  <2>2. pc'[t] = "withdraw_insert" BY <1>2, <1>7 DEF CreateWithdrawal, BeginOrder, Goto
  <2>3. StatusSeen(t)' BY <2>2 DEF StatusSeen
  <2> QED BY <1>1, <2>1, <2>3, RowsSameTurn
<1> QED BY <1>3, <1>4, <1>5, <1>6, <1>7 DEF AdminDeposits, AdminWithdrawals, PayfastItn

LEMMA LockTurn ==
  ASSUME ExchangeConsistent, RowsInTurn, TurnsKept, NEW t \in Workers,
         CreditDeposit(t) \/ InsertWithdrawal(t) \/ HoldWithdrawal(t) \/ EndLock(t)
  PROVE  TurnsKept'
<1>1. Guarantees(t) /\ FundGuarantees(t) BY FundingStepConsistent DEF FundingStep
<1>2. UNCHANGED <<deposit, withdrawal, credits, moves>> /\ order' = order
  BY DEF CreditDeposit, InsertWithdrawal, HoldWithdrawal, EndLock, LockOnly
<1>3. pc \in [Workers -> PCs \cup FundingPCs] /\ StatusSeen(t)
  BY DEF ExchangeConsistent, FundingTypeOK, TurnsKept
<1>4. \/ pc[t] = "deposit_wallet" /\ pc'[t] = "deposit_commit"
      \/ pc[t] = "withdraw_wallet" /\ pc'[t] = "withdraw_end"
      \/ pc'[t] \in {"withdraw_hold", "withdraw_commit"}
  BY <1>3 DEF CreditDeposit, InsertWithdrawal, HoldWithdrawal, EndLock, Goto
<1>5. StatusSeen(t)' BY <1>2, <1>3, <1>4 DEF StatusSeen
<1> QED BY <1>1, <1>2, <1>5, RowsSameTurn

(* The end of a funding request: what it writes of its own row decides. *)
LEMMA FinishTurn ==
  ASSUME ExchangeConsistent, RowsInTurn, TurnsKept, NEW t \in Workers, FundingStep(t),
         FinishOrder(t), OwnRows(t), CreditedOnce', HoldUsedOnce'
  PROVE  TurnsKept'
<1>1. Guarantees(t) /\ FundGuarantees(t) BY FundingStepConsistent
<1>2. pc'[t] = "idle" BY DEF FinishOrder, Finish, ExchangeConsistent, FundingTypeOK
<1>3. StatusSeen(t)' BY <1>2 DEF StatusSeen
<1>4. \A o \in Workers : StatusSeen(o)' BY <1>1, <1>3, TurnRely DEF TurnsKept
<1> QED BY <1>4 DEF TurnsKept

(* A deposit that is still open when its completion commits has not been   *)
(* credited yet.                                                           *)
LEMMA DepositTurn ==
  ASSUME ExchangeConsistent, RowsInTurn, TurnsKept, NEW t \in Workers,
         CompleteDepositCommit(t) \/ FailDepositCommit(t)
  PROVE  TurnsKept'
<1>1. FundingTypeOK /\ FundingSound /\ CompletedIsCredited BY DEF ExchangeConsistent
<1>2. /\ pc[t] = "deposit_commit" /\ FinishOrder(t) /\ UNCHANGED <<withdrawal, moves>>
      /\ OrderOK(t) /\ StatusSeen(t)
  BY <1>1 DEF CompleteDepositCommit, FailDepositCommit, FundingSound, TurnsKept
<1>3. PICK e \in Deposits : e = order[t].deposit BY <1>2 DEF OrderOK
<1>4. deposit[e].status \in COMPLETABLE_DEPOSIT /\ credits[e] = 0
  BY <1>1, <1>2, <1>3 DEF StatusSeen, CompletedIsCredited
<1>5. /\ \A d \in Deposits \ {e} : deposit'[d] = deposit[d] /\ credits'[d] = credits[d]
      /\ deposit'[e].amount = deposit[e].amount
  BY <1>1, <1>3 DEF CompleteDepositCommit, FailDepositCommit, FundingTypeOK, Deposit
<1>6. credits'[e] = 0 \/ credits'[e] = deposit[e].amount
  <2>1. CASE FailDepositCommit(t) BY <1>4, <2>1 DEF FailDepositCommit
  <2>2. CASE CompleteDepositCommit(t)
    <3>1. order[t].amount = deposit[e].amount /\ deposit[e].amount \in Nat
      BY <1>1, <1>2, <1>3, <2>2
      DEF CompleteDepositCommit, OrderOK, CompletionOK, FundingTypeOK, Deposit
    <3>2. credits'[e] = credits[e] + order[t].amount
      BY <1>1, <1>3, <2>2 DEF CompleteDepositCommit, FundingTypeOK
    <3> QED BY <1>4, <3>1, <3>2
  <2> QED BY <2>1, <2>2
<1>7. deposit[e].amount \in Nat BY <1>1 DEF FundingTypeOK, Deposit
<1>8. CreditedOnce'
  <2> SUFFICES ASSUME NEW d \in Deposits PROVE credits'[d] <= deposit'[d].amount
    BY DEF CreditedOnce
  <2>1. CASE d = e BY <1>5, <1>6, <1>7, <2>1
  <2>2. CASE d # e BY <1>5, <2>2 DEF TurnsKept, CreditedOnce
  <2> QED BY <2>1, <2>2
<1>9. HoldUsedOnce' BY <1>2 DEF TurnsKept, HoldUsedOnce
<1>10. OwnRows(t) BY <1>2, <1>3, <1>5 DEF OwnRows
<1>11. FundingStep(t) BY DEF FundingStep
<1> QED BY <1>2, <1>8, <1>9, <1>10, <1>11, FinishTurn

(* A request that gives up writes nothing. *)
LEMMA RefusedTurn ==
  ASSUME ExchangeConsistent, RowsInTurn, TurnsKept, NEW t \in Workers,
         CompleteDepositRefused(t) \/ HoldRefused(t) \/ EndRefused(t)
  PROVE  TurnsKept'
<1>1. FinishOrder(t) /\ UNCHANGED <<deposit, withdrawal, credits, moves>>
  BY DEF CompleteDepositRefused, HoldRefused, EndRefused
<1>2. OwnRows(t) BY <1>1 DEF OwnRows
<1>3. CreditedOnce' /\ HoldUsedOnce' BY <1>1 DEF TurnsKept, CreditedOnce, HoldUsedOnce
<1>4. FundingStep(t) BY DEF FundingStep
<1> QED BY <1>1, <1>2, <1>3, <1>4, FinishTurn

(* The hold of one withdrawal is used once if it was used by none before,  *)
(* or if its status does not tell.                                         *)
UsedOnce(w) ==
  /\ moves[w]["WITHDRAWAL"] =
       IF withdrawal[w].status = "completed" THEN withdrawal[w].amount ELSE 0
  /\ moves[w]["WITHDRAWAL_RELEASE"] =
       IF withdrawal[w].status \in {"rejected", "failed"} THEN withdrawal[w].amount ELSE 0

LEMMA WithdrawalTurn ==
  ASSUME ExchangeConsistent, RowsInTurn, TurnsKept, NEW t \in Workers, FundingStep(t),
         FinishOrder(t), UNCHANGED <<deposit, credits>>,
         NEW e \in Withdrawals, e = order[t].withdrawal, UsedOnce(e)',
         \A w \in Withdrawals \ {e} : withdrawal'[w] = withdrawal[w] /\ moves'[w] = moves[w]
  PROVE  TurnsKept'
<1>1. OwnRows(t) BY DEF OwnRows
<1>2. CreditedOnce' BY DEF TurnsKept, CreditedOnce
<1>3. ASSUME NEW w \in Withdrawals \ {e} PROVE UsedOnce(w)'
  BY DEF TurnsKept, HoldUsedOnce, UsedOnce
<1>4. HoldUsedOnce' BY <1>3 DEF HoldUsedOnce, UsedOnce
<1> QED BY <1>1, <1>2, <1>4, FinishTurn

LEMMA CreateTurn ==
  ASSUME ExchangeConsistent, RowsInTurn, TurnsKept, NEW t \in Workers,
         CreateWithdrawalCommit(t)
  PROVE  TurnsKept'
<1>1. FundingTypeOK /\ FundingSound BY DEF ExchangeConsistent
<1>2. pc[t] = "withdraw_commit" /\ FinishOrder(t) /\ UNCHANGED <<deposit, credits>>
  BY DEF CreateWithdrawalCommit
<1>3. HoldOK(t) BY <1>1, <1>2 DEF FundingSound, OrderOK
<1>4. PICK e \in Withdrawals : e = order[t].withdrawal BY <1>3 DEF HoldOK
<1>5. /\ withdrawal'[e].status = "pending"
      /\ \A w \in Withdrawals \ {e} : withdrawal'[w] = withdrawal[w]
  BY <1>1, <1>4 DEF CreateWithdrawalCommit, FundingTypeOK, NoWithdrawal
<1>6. /\ \A w \in Withdrawals \ {e} : moves'[w] = moves[w]
      /\ moves'[e]["WITHDRAWAL"] = moves[e]["WITHDRAWAL"]
      /\ moves'[e]["WITHDRAWAL_RELEASE"] = moves[e]["WITHDRAWAL_RELEASE"]
  BY <1>1, <1>4 DEF CreateWithdrawalCommit, write_withdrawal, FundingTypeOK, WithdrawalEntries
<1>7. moves[e]["WITHDRAWAL"] = 0 /\ moves[e]["WITHDRAWAL_RELEASE"] = 0
  BY <1>1, <1>3, <1>4 DEF HoldOK, FundingSound, WithdrawalOK, WithdrawalEntries
<1>8. UsedOnce(e)' BY <1>5, <1>6, <1>7 DEF UsedOnce
<1>9. FundingStep(t) BY DEF FundingStep
<1> QED BY <1>2, <1>4, <1>5, <1>6, <1>8, <1>9, WithdrawalTurn

LEMMA ApproveTurn ==
  ASSUME ExchangeConsistent, RowsInTurn, TurnsKept, NEW t \in Workers, ApproveCommit(t)
  PROVE  TurnsKept'
<1>1. FundingTypeOK /\ FundingSound BY DEF ExchangeConsistent
<1>2. /\ pc[t] = "approve_commit" /\ FinishOrder(t) /\ UNCHANGED <<deposit, credits, moves>>
      /\ StatusSeen(t)
  BY DEF ApproveCommit, TurnsKept
<1>3. PICK e \in Withdrawals : e = order[t].withdrawal
  BY <1>1, <1>2 DEF FundingSound, OrderOK
<1>4. /\ withdrawal'[e].status = "approved"
      /\ \A w \in Withdrawals \ {e} : withdrawal'[w] = withdrawal[w]
  BY <1>1, <1>3 DEF ApproveCommit, FundingTypeOK, Withdrawal
<1>5. withdrawal[e].status = "pending" BY <1>2, <1>3 DEF StatusSeen, APPROVABLE
<1>6. UsedOnce(e)' BY <1>2, <1>4, <1>5 DEF TurnsKept, HoldUsedOnce, UsedOnce
<1>7. FundingStep(t) BY DEF FundingStep
<1> QED BY <1>2, <1>3, <1>4, <1>6, <1>7, WithdrawalTurn

(* A withdrawal that ends was still open: its hold had not been used. *)
LEMMA EndTurn ==
  ASSUME ExchangeConsistent, RowsInTurn, TurnsKept, NEW t \in Workers, EndCommit(t)
  PROVE  TurnsKept'
<1>1. FundingTypeOK /\ FundingSound BY DEF ExchangeConsistent
<1>2. /\ pc[t] = "withdraw_end" /\ FinishOrder(t) /\ UNCHANGED <<deposit, credits>>
      /\ StatusSeen(t)
  BY DEF EndCommit, TurnsKept
<1>3. EndOK(t) BY <1>1, <1>2 DEF FundingSound, OrderOK
<1>4. PICK e \in Withdrawals, n \in Nat, a \in {"complete", "reject", "fail"} :
        e = order[t].withdrawal /\ n = order[t].amount /\ a = order[t].action
  BY <1>1, <1>3 DEF EndOK, FundingTypeOK, Withdrawal
<1>5. withdrawal[e].amount = n /\ withdrawal[e].status \in {"pending", "approved", "processing"}
  BY <1>2, <1>3, <1>4 DEF EndOK, StatusSeen, Sources
<1>6. /\ withdrawal'[e].amount = n
      /\ withdrawal'[e].status = Ended[a]
      /\ \A w \in Withdrawals \ {e} : withdrawal'[w] = withdrawal[w]
  BY <1>1, <1>4, <1>5 DEF EndCommit, FundingTypeOK, Withdrawal
<1>7. moves[e]["WITHDRAWAL"] = 0 /\ moves[e]["WITHDRAWAL_RELEASE"] = 0
  BY <1>5 DEF TurnsKept, HoldUsedOnce
<1>8. \A w \in Withdrawals \ {e} : moves'[w] = moves[w]
  BY <1>1, <1>4 DEF EndCommit, write_withdrawal, FundingTypeOK
<1>9. /\ moves'[e]["WITHDRAWAL"] = IF a = "complete" THEN n ELSE 0
      /\ moves'[e]["WITHDRAWAL_RELEASE"] = IF a = "complete" THEN 0 ELSE n
  BY <1>1, <1>4, <1>7 DEF EndCommit, write_withdrawal, FundingTypeOK, WithdrawalEntries
<1>10. UsedOnce(e)' BY <1>4, <1>6, <1>9 DEF UsedOnce, Ended
<1>11. FundingStep(t) BY DEF FundingStep
<1> QED BY <1>2, <1>4, <1>6, <1>8, <1>10, <1>11, WithdrawalTurn

(* New deposits, verdicts of the provider and the clock. *)
LEMMA StillTurn ==
  ASSUME ExchangeConsistent, TurnsKept, UNCHANGED <<pc, order, withdrawal, credits, moves>>,
         \A d \in Deposits : deposit'[d] = deposit[d] \/ deposit[d].status = "none",
         \A d \in Deposits : deposit'[d].amount \in Nat
  PROVE  TurnsKept'
<1>1. ASSUME NEW t \in Workers PROVE StatusSeen(t)'
  <2>1. StatusSeen(t) /\ OrderOK(t) BY DEF TurnsKept, ExchangeConsistent, FundingSound
  <2>2. ASSUME pc[t] \in {"deposit_wallet", "deposit_commit"}
        PROVE  deposit'[order[t].deposit] = deposit[order[t].deposit]
    BY <2>1, <2>2 DEF OrderOK
  <2> QED BY <2>1, <2>2 DEF StatusSeen
<1>2. CreditedOnce'
  <2> SUFFICES ASSUME NEW d \in Deposits PROVE credits[d] <= deposit'[d].amount
    BY DEF CreditedOnce
  <2>1. CASE deposit'[d] = deposit[d] BY <2>1 DEF TurnsKept, CreditedOnce
  <2>2. CASE deposit[d].status = "none"
    BY <2>2 DEF ExchangeConsistent, FundingSound, DepositOK
  <2> QED BY <2>1, <2>2
<1>3. HoldUsedOnce' BY DEF TurnsKept, HoldUsedOnce
<1> QED BY <1>1, <1>2, <1>3 DEF TurnsKept

LEMMA NextTurn ==
  ExchangeConsistent /\ RowsInTurn /\ TurnsKept /\ [ExchangeNext]_ExchangeVars => TurnsKept'
<1> SUFFICES ASSUME ExchangeConsistent, RowsInTurn, TurnsKept, [ExchangeNext]_ExchangeVars
             PROVE  TurnsKept'
  OBVIOUS
<1>1. ExchangeConsistent' BY NextExchange
<1>2. \A d \in Deposits : deposit'[d].amount \in Nat
  BY <1>1 DEF ExchangeConsistent, FundingTypeOK, Deposit
<1>3. CASE (Tick /\ UNCHANGED fund) \/ UNCHANGED ExchangeVars
  <2>1. UNCHANGED <<pc, order, withdrawal, credits, moves>> /\ deposit' = deposit
    BY <1>3 DEF Tick, ExchangeVars, vars, fund, work
  <2> QED BY <1>2, <2>1, StillTurn
<1>4. CASE FundingArrives
  <2>1. UNCHANGED <<pc, order, withdrawal, credits, moves>>
    BY <1>4 DEF FundingArrives, CreateDeposit, InitiatePayfastDeposit, PayFastDecides, vars, work
  <2>2. \A d \in Deposits : deposit'[d] = deposit[d] \/ deposit[d].status = "none"
    BY <1>4 DEF FundingArrives, CreateDeposit, InitiatePayfastDeposit, PayFastDecides,
       ExchangeConsistent, FundingTypeOK
  <2> QED BY <1>2, <2>1, <2>2, StillTurn
<1>5. ASSUME NEW t \in Workers, FundingStep(t) PROVE TurnsKept'
  BY <1>5, BeginTurn, LockTurn, RefusedTurn, DepositTurn, CreateTurn, ApproveTurn, EndTurn
  DEF FundingStep
<1> QED BY <1>3, <1>4, <1>5, OtherTurn DEF ExchangeNext

LEMMA InitTurn == ExchangeInit => TurnsKept
<1> SUFFICES ASSUME ExchangeInit PROVE TurnsKept OBVIOUS
<1>1. FundingInit /\ pc = [t \in Workers |-> "idle"] BY DEF ExchangeInit, Init, InitRest
<1>2. CreditedOnce BY <1>1 DEF FundingInit, CreditedOnce, NoDeposit
<1>3. HoldUsedOnce BY <1>1 DEF FundingInit, HoldUsedOnce, NoWithdrawal, WithdrawalEntries
<1>4. \A t \in Workers : StatusSeen(t) BY <1>1 DEF StatusSeen
<1> QED BY <1>2, <1>3, <1>4 DEF TurnsKept

(* As long as the requests about one deposit take turns, it is credited    *)
(* once, however often its notification arrives, late or repeated, and     *)
(* whatever else runs at the same time.                                    *)
THEOREM CreditedOnceInTurn == ExchangeSpec /\ []RowsInTurn => []CreditedOnce
<1>1. TurnsKept => CreditedOnce BY DEF TurnsKept
<1> QED BY <1>1, InitTurn, NextTurn, ExchangeConsistentAlways, PTL DEF ExchangeSpec

(* As long as the requests about one withdrawal take turns, its hold is    *)
(* used exactly once: kept, paid out or released.                          *)
THEOREM HoldUsedOnceInTurn == ExchangeSpec /\ []RowsInTurn => []HoldUsedOnce
<1>1. TurnsKept => HoldUsedOnce BY DEF TurnsKept
<1> QED BY <1>1, InitTurn, NextTurn, ExchangeConsistentAlways, PTL DEF ExchangeSpec

-----------------------------------------------------------------------------
(* Balances and the ledger. *)

LEMMA LedgerInts ==
  ASSUME FundTypes, FundTypes', Typed, Typed', NEW u \in Users
  PROVE  /\ LedgerAvailable(u) \in Int /\ LedgerAvailable(u)' \in Int
         /\ LedgerLocked(u) \in Int /\ LedgerLocked(u)' \in Int
<1>1. InitFunds[u] \in Nat BY ConstantsAssumption DEF ConstantsAssumption
<1>2. /\ Credited(u) \in Nat /\ Credited(u)' \in Nat
      /\ \A k \in WithdrawalEntries : Moved(u, k) \in Nat /\ Moved(u, k)' \in Nat
  BY FundTotals
<1>3. \A e \in EntryTypes : Sum(Entries(u, e), Bets) \in Nat BY BetTotals
<1>4. ASSUME NEW e \in EntryTypes PROVE Sum(Entries(u, e)', Bets) \in Nat
  <2>1. Entries(u, e)' \in [Bets -> Nat] BY DEF Typed, Entries
  <2> QED BY <2>1, SumType, ConstantsAssumption DEF ConstantsAssumption
<1>5. LedgerAvailable(u) \in Int /\ LedgerLocked(u) \in Int
  BY <1>1, <1>2, <1>3 DEF LedgerAvailable, LedgerLocked, EntryTypes, WithdrawalEntries
<1>6. LedgerAvailable(u)' \in Int /\ LedgerLocked(u)' \in Int
  BY <1>1, <1>2, <1>4 DEF LedgerAvailable, LedgerLocked, EntryTypes, WithdrawalEntries
<1> QED BY <1>5, <1>6

LEMMA NextLedger ==
  ExchangeConsistent /\ NoStaleHolds /\ LedgerExplains /\ [ExchangeNext]_ExchangeVars
    => LedgerExplains'
<1> SUFFICES ASSUME ExchangeConsistent, NoStaleHolds, LedgerExplains,
                    [ExchangeNext]_ExchangeVars, NEW u \in Users
             PROVE  Unexplained(u)' = 0 /\ wallet'[u].locked = LedgerLocked(u)'
  BY DEF LedgerExplains
<1>1. FundTypes /\ Typed /\ FundTypes' /\ Typed'
  BY LedgerTypes, LedgerTypesPrime, NextExchange
<1>2. CASE UNCHANGED ExchangeVars
  <2>1. UNCHANGED <<wallet, bet, ledger, deposit, withdrawal, credits, moves>>
    BY <1>2 DEF ExchangeVars, vars, rows, fund
  <2>2. StakeGain(u)' = StakeGain(u) BY <2>1, GainsSame DEF GainKept
  <2> QED BY <2>1, <2>2 DEF LedgerExplains, Unexplained, LedgerAvailable, LedgerLocked,
             Credited, Moved, Entries, HoldGain
<1>3. CASE ExchangeNext
  <2>1. Aligned(u) BY <1>3, StepAligned DEF NoStaleHolds
  <2>2. /\ LedgerAvailable(u) \in Int /\ LedgerAvailable(u)' \in Int
        /\ LedgerLocked(u) \in Int /\ LedgerLocked(u)' \in Int
    BY <1>1, LedgerInts
  <2>3. wallet'[u].available \in Nat /\ wallet'[u].locked \in Nat BY <1>1 DEF Typed, Wallet
  <2>4. Unexplained(u) = 0 /\ wallet[u].locked = LedgerLocked(u)
    BY DEF LedgerExplains
  <2>5. /\ Unexplained(u)' = Unexplained(u)
        /\ wallet'[u].locked - LedgerLocked(u)' = wallet[u].locked - LedgerLocked(u)
    BY <2>1 DEF Aligned
  <2>6. \A x \in Nat, y, z \in Int : x - y = z - z => x = y OBVIOUS
  <2> QED BY <2>2, <2>3, <2>4, <2>5, <2>6
<1> QED BY <1>2, <1>3

LEMMA InitLedger == ExchangeInit => LedgerExplains
<1> SUFFICES ASSUME ExchangeInit, NEW u \in Users
             PROVE  Unexplained(u) = 0 /\ wallet[u].locked = LedgerLocked(u)
  BY DEF LedgerExplains
<1>1. FundingInit /\ InitRest BY DEF ExchangeInit, Init
<1>2. ASSUME NEW e \in EntryTypes PROVE Sum(Entries(u, e), Bets) = 0
  <2>1. \A b \in Bets : Entries(u, e)[b] = 0 BY <1>1 DEF InitRest, Entries, NoEntries
  <2> QED BY <2>1, SumZero
<1>3. Credited(u) = 0
  <2> DEFINE f == [d \in Deposits |-> CreditOf(u, d)]
  <2>1. \A d \in Deposits : f[d] = 0 BY <1>1 DEF FundingInit, CreditOf
  <2>2. Sum(f, Deposits) = 0 BY <2>1, SumZero
  <2> QED BY <2>2 DEF Credited, CreditOf
<1>4. ASSUME NEW k \in WithdrawalEntries PROVE Moved(u, k) = 0
  <2> DEFINE f == [w \in Withdrawals |-> MoveOf(u, k, w)]
  <2>1. \A w \in Withdrawals : f[w] = 0 BY <1>1 DEF FundingInit, MoveOf
  <2>2. Sum(f, Withdrawals) = 0 BY <2>1, SumZero
  <2> QED BY <2>2 DEF Moved, MoveOf
<1>5. /\ wallet[u].available = InitFunds[u] /\ wallet[u].locked = 0 /\ InitFunds[u] \in Nat
  BY <1>1, ConstantsAssumption DEF InitRest, ConstantsAssumption
<1>6. LedgerAvailable(u) = InitFunds[u] /\ LedgerLocked(u) = 0
  BY <1>2, <1>3, <1>4, <1>5 DEF LedgerAvailable, LedgerLocked, EntryTypes, WithdrawalEntries
<1>7. StakeGain(u) = 0
  <2> DEFINE f == [b \in Bets |-> GainOf(u, b)]
  <2>1. \A b \in Bets : bet[b].asked_stake = 0 BY <1>1 DEF InitRest, NoBet
  <2>2. \A b \in Bets : f[b] = 0 BY <2>1 DEF GainOf, Gain, HalfCent
  <2>3. Sum(f, Bets) = 0 BY <2>2, SumZero
  <2> QED BY <2>3 DEF StakeGain
<1>8. HoldGain(u) = 0
  <2> DEFINE f == [w \in Withdrawals |-> HoldGainOf(u, w)]
  <2>1. \A w \in Withdrawals : withdrawal[w].asked = 0
    BY <1>1 DEF FundingInit, NoWithdrawal
  <2>2. \A w \in Withdrawals : f[w] = 0 BY <2>1 DEF HoldGainOf, HalfCent
  <2>3. Sum(f, Withdrawals) = 0 BY <2>2, SumZero
  <2> QED BY <2>3 DEF HoldGain, HoldGainOf
<1> QED BY <1>5, <1>6, <1>7, <1>8 DEF Unexplained

(* As long as no create_withdrawal commits on a wallet that changed after  *)
(* its unlocked read, every balance is the sum of its ledger entries plus  *)
(* the cents that half cents left, for any number of bets, deposits and    *)
(* withdrawals of any amounts at the same time, racing completions of one  *)
(* deposit included.                                                       *)
THEOREM LedgerExplainsUnlessStale == ExchangeSpec /\ []NoStaleHolds => []LedgerExplains
BY InitLedger, NextLedger, ExchangeConsistentAlways, PTL DEF ExchangeSpec

-----------------------------------------------------------------------------
(* The locked balance. *)

(* What withdrawal w holds of v's locked balance. *)
HeldOf(v, w) == IF withdrawal[w].user_id = v THEN Holding(w) ELSE 0

LEMMA HeldForType ==
  ASSUME FundTypes, FundTypes', NEW v \in Users
  PROVE  HeldFor(v) \in Nat /\ HeldFor(v)' \in Nat
<1>1. IsFiniteSet(Withdrawals) BY FundingAssumption DEF FundingAssumption
<1>2. [w \in Withdrawals |-> HeldOf(v, w)] \in [Withdrawals -> Nat]
  BY DEF FundTypes, HeldOf, Holding, Withdrawal
<1>3. [w \in Withdrawals |-> HeldOf(v, w)]' \in [Withdrawals -> Nat]
  BY DEF FundTypes, HeldOf, Holding, Withdrawal
<1> QED BY <1>1, <1>2, <1>3, SumType DEF HeldFor, HeldOf

(* Only what withdrawal e holds changes. *)
LEMMA HeldForUpdate ==
  ASSUME FundTypes, FundTypes', NEW v \in Users, NEW e \in Withdrawals,
         \A w \in Withdrawals \ {e} : HeldOf(v, w)' = HeldOf(v, w)
  PROVE  /\ HeldOf(v, e) \in Nat /\ HeldOf(v, e)' \in Nat
         /\ HeldFor(v)' + HeldOf(v, e) = HeldFor(v) + HeldOf(v, e)'
<1> DEFINE F == [w \in Withdrawals |-> HeldOf(v, w)]
           G == [w \in Withdrawals |-> HeldOf(v, w)']
<1>1. IsFiniteSet(Withdrawals) BY FundingAssumption DEF FundingAssumption
<1>2. F \in [Withdrawals -> Nat] BY DEF FundTypes, HeldOf, Holding, Withdrawal
<1>3. G \in [Withdrawals -> Nat] BY DEF FundTypes, HeldOf, Holding, Withdrawal
<1>4. F[e] = HeldOf(v, e) /\ G[e] = HeldOf(v, e)' OBVIOUS
<1>5. \A w \in Withdrawals \ {e} : G[w] = F[w] OBVIOUS
<1>6. HeldFor(v) = Sum(F, Withdrawals) /\ HeldFor(v)' = Sum(G, Withdrawals)
  BY DEF HeldFor, HeldOf
<1> HIDE DEF F, G
<1>7. Sum(G, Withdrawals) + F[e] = Sum(F, Withdrawals) + G[e]
  BY <1>1, <1>2, <1>3, <1>5, SumUpdate
<1> QED BY <1>2, <1>3, <1>4, <1>6, <1>7

LEMMA HeldForSame ==
  ASSUME NEW v \in Users, \A w \in Withdrawals : HeldOf(v, w)' = HeldOf(v, w)
  PROVE  HeldFor(v)' = HeldFor(v)
<1>1. [w \in Withdrawals |-> HeldOf(v, w)'] = [w \in Withdrawals |-> HeldOf(v, w)] OBVIOUS
<1>2. HeldFor(v)' = Sum([w \in Withdrawals |-> HeldOf(v, w)'], Withdrawals)
  BY DEF HeldFor, HeldOf
<1> QED BY <1>1, <1>2 DEF HeldFor, HeldOf

(* The locked balance of v moves by what the withdrawals hold. *)
HoldingMoves(v) == wallet'[v].locked + HeldFor(v) = wallet[v].locked + HeldFor(v)'

(* The same, when withdrawal e of user u goes from holding m to holding n. *)
LEMMA HoldingMoved ==
  ASSUME FundTypes, FundTypes', Typed, Typed', NEW v \in Users, NEW e \in Withdrawals,
         NEW u \in Users, NEW m \in Nat, NEW n \in Nat,
         \A w \in Withdrawals \ {e} : withdrawal'[w] = withdrawal[w],
         (withdrawal[e].user_id = u /\ Holding(e) = m) \/ (Holding(e) = 0 /\ m = 0),
         withdrawal'[e].user_id = u, Holding(e)' = n,
         \A x \in Users \ {u} : wallet'[x] = wallet[x],
         wallet'[u].locked + m = wallet[u].locked + n
  PROVE  HoldingMoves(v)
<1>1. HeldFor(v) \in Nat /\ HeldFor(v)' \in Nat BY HeldForType
<1>2. wallet[v].locked \in Nat /\ wallet'[v].locked \in Nat BY DEF Typed, Wallet
<1>3. \A w \in Withdrawals \ {e} : HeldOf(v, w)' = HeldOf(v, w) BY DEF HeldOf, Holding
<1>4. HeldFor(v)' + HeldOf(v, e) = HeldFor(v) + HeldOf(v, e)' BY <1>3, HeldForUpdate
<1>5. CASE v = u
  <2>1. HeldOf(v, e) = m /\ HeldOf(v, e)' = n BY <1>5 DEF HeldOf
  <2> QED BY <1>1, <1>2, <1>4, <1>5, <2>1 DEF HoldingMoves
<1>6. CASE v # u
  <2>1. HeldOf(v, e) = 0 /\ HeldOf(v, e)' = 0 BY <1>6 DEF HeldOf
  <2>2. wallet'[v] = wallet[v] BY <1>6
  <2> QED BY <1>1, <1>2, <1>4, <2>1, <2>2 DEF HoldingMoves
<1> QED BY <1>5, <1>6

LEMMA CreateHolding ==
  ASSUME ExchangeConsistent, NoStaleHolds, NEW t \in Workers, CreateWithdrawalCommit(t),
         NEW v \in Users
  PROVE  HoldingMoves(v)
<1>1. FundingTypeOK /\ FundingSound /\ FundTypes /\ Typed /\ FundTypes' /\ Typed'
  BY LedgerTypes, LedgerTypesPrime, CreateWithdrawalCommitStep DEF ExchangeConsistent
<1>2. HoldOK(t) /\ pc[t] = "withdraw_commit"
  BY <1>1 DEF CreateWithdrawalCommit, FundingSound, OrderOK
<1>3. PICK e \in Withdrawals, u \in Users, n \in Nat, s \in Nat :
        /\ e = order[t].withdrawal /\ u = order[t].user
        /\ n = order[t].amount /\ s = order[t].asked
  BY <1>1, <1>2 DEF HoldOK, FundingTypeOK, Order
<1>4. snap[t][u] = wallet[u] BY <1>2, <1>3 DEF NoStaleHolds, StaleHold
<1>5. /\ withdrawal'[e].user_id = u /\ withdrawal'[e].status = "pending"
      /\ withdrawal'[e].amount = n
      /\ \A w \in Withdrawals \ {e} : withdrawal'[w] = withdrawal[w]
  BY <1>1, <1>3 DEF CreateWithdrawalCommit, FundingTypeOK, NoWithdrawal
<1>6. Holding(e)' = n BY <1>5 DEF Holding
<1>7. Holding(e) = 0 BY <1>2, <1>3 DEF HoldOK, Holding
<1>8. /\ \A x \in Users \ {u} : wallet'[x] = wallet[x]
      /\ wallet'[u].locked = wallet[u].locked + n
  <2>1. /\ wallet[u].available \in Nat /\ wallet[u].locked \in Nat
        /\ Mills(wallet[u].available) >= s /\ n = Stored(s)
    BY <1>1, <1>2, <1>3, <1>4 DEF HoldOK, Typed, Wallet
  <2>2. safe_add(wallet[u].locked, s) = wallet[u].locked + n BY <2>1, RoundedApart
  <2>3. wallet' = [wallet EXCEPT ![u] = hold_withdrawal(wallet[u], s)]
    BY <1>3, <1>4 DEF CreateWithdrawalCommit
  <2> QED BY <1>1, <2>2, <2>3 DEF hold_withdrawal, Typed
<1>9. wallet'[u].locked + 0 = wallet[u].locked + n
  BY <1>1, <1>8 DEF Typed, Wallet
<1> QED BY <1>1, <1>5, <1>6, <1>7, <1>8, <1>9, HoldingMoved

LEMMA EndHolding ==
  ASSUME ExchangeConsistent, TurnsKept, NEW t \in Workers, EndCommit(t), NEW v \in Users
  PROVE  HoldingMoves(v)
<1>1. FundingTypeOK /\ FundingSound /\ FundTypes /\ Typed /\ FundTypes' /\ Typed'
  BY LedgerTypes, LedgerTypesPrime, EndCommitStep DEF ExchangeConsistent
<1>2. EndOK(t) /\ pc[t] = "withdraw_end" /\ StatusSeen(t)
  BY <1>1 DEF EndCommit, FundingSound, OrderOK, TurnsKept
<1>3. PICK e \in Withdrawals, u \in Users, n \in Nat, a \in {"complete", "reject", "fail"} :
        e = order[t].withdrawal /\ u = order[t].user /\ n = order[t].amount
          /\ a = order[t].action
  BY <1>1, <1>2 DEF EndOK, FundingTypeOK, Order
<1>4. snap[t][u] = wallet[u] /\ wallet[u].locked >= n
  BY <1>2, <1>3 DEF EndOK, HoldsFresh
<1>5. /\ withdrawal[e].user_id = u /\ withdrawal[e].amount = n
      /\ withdrawal[e].status \in {"pending", "approved", "processing"}
  BY <1>2, <1>3 DEF EndOK, StatusSeen, Sources
<1>6. Holding(e) = n BY <1>5 DEF Holding
<1>7. /\ withdrawal'[e].user_id = u /\ withdrawal'[e].status = Ended[a]
      /\ \A w \in Withdrawals \ {e} : withdrawal'[w] = withdrawal[w]
  BY <1>1, <1>3, <1>5 DEF EndCommit, FundingTypeOK, Withdrawal
<1>8. Holding(e)' = 0 BY <1>7 DEF Holding, Ended
<1>9. /\ \A x \in Users \ {u} : wallet'[x] = wallet[x]
      /\ wallet'[u].locked = wallet[u].locked - n
  BY <1>1, <1>3, <1>4 DEF EndCommit, finalize_withdrawal_debit, release_withdrawal_hold, Typed
<1>10. wallet'[u].locked + n = wallet[u].locked + 0
  BY <1>1, <1>4, <1>9 DEF Typed, Wallet
<1> QED BY <1>1, <1>5, <1>6, <1>7, <1>8, <1>9, <1>10, HoldingMoved

(* Every other funding step leaves the locked balances and what the        *)
(* withdrawals hold.                                                       *)
LEMMA FundingHolding ==
  ASSUME ExchangeConsistent, TurnsKept, NoStaleHolds, NEW t \in Workers, FundingStep(t),
         NEW v \in Users
  PROVE  HoldingMoves(v)
<1>1. FundingTypeOK /\ FundingSound /\ Typed BY DEF ExchangeConsistent, Sound
<1>2. ASSUME wallet'[v].locked = wallet[v].locked,
             \A w \in Withdrawals : HeldOf(v, w)' = HeldOf(v, w)
      PROVE  HoldingMoves(v)
  BY <1>2, HeldForSame DEF HoldingMoves
<1>3. CASE CompleteDepositCommit(t)
  <2>1. withdrawal' = withdrawal BY <1>3 DEF CompleteDepositCommit
  <2>2. wallet'[v].locked = wallet[v].locked BY <1>1, <1>3 DEF CompleteDepositCommit, Typed, Wallet
  <2> QED BY <1>2, <2>1, <2>2 DEF HeldOf, Holding
<1>4. CASE ApproveCommit(t)
  <2>1. pc[t] = "approve_commit" /\ wallet' = wallet /\ StatusSeen(t)
    BY <1>4 DEF ApproveCommit, TurnsKept
  <2>2. PICK e \in Withdrawals : e = order[t].withdrawal
    BY <1>1, <2>1 DEF FundingSound, OrderOK
  <2>3. withdrawal[e].status = "pending" BY <2>1, <2>2 DEF StatusSeen, APPROVABLE
  <2>4. /\ withdrawal'[e].status = "approved" /\ withdrawal'[e].amount = withdrawal[e].amount
        /\ withdrawal'[e].user_id = withdrawal[e].user_id
        /\ \A w \in Withdrawals \ {e} : withdrawal'[w] = withdrawal[w]
    BY <1>1, <1>4, <2>2 DEF ApproveCommit, FundingTypeOK, Withdrawal
  <2>5. \A w \in Withdrawals : HeldOf(v, w)' = HeldOf(v, w)
    BY <2>3, <2>4 DEF HeldOf, Holding
  <2> QED BY <1>2, <2>1, <2>5
<1>5. ASSUME ~CompleteDepositCommit(t), ~CreateWithdrawalCommit(t), ~EndCommit(t),
             ~ApproveCommit(t)
      PROVE  HoldingMoves(v)
  <2>1. wallet' = wallet BY <1>5, QuietFunding
  <2>2. withdrawal' = withdrawal
    <3>1. CASE \/ AdminDeposits(t) \/ AdminWithdrawals(t)
               \/ (\E d \in Deposits : PayfastItn(t, d))
               \/ \E u \in Users, w \in Withdrawals, a \in WithdrawalInputs :
                    CreateWithdrawal(t, u, w, a)
      BY <3>1 DEF AdminDeposits, AdminWithdrawals, PayfastItn, CompleteDeposit, FailDeposit,
         ApproveWithdrawal, EndWithdrawal, CreateWithdrawal
    <3>2. CASE \/ CreditDeposit(t) \/ InsertWithdrawal(t) \/ HoldWithdrawal(t) \/ EndLock(t)
      BY <3>2 DEF CreditDeposit, InsertWithdrawal, HoldWithdrawal, EndLock, LockOnly
    <3>3. CASE \/ CompleteDepositRefused(t) \/ FailDepositCommit(t) \/ HoldRefused(t)
               \/ EndRefused(t)
      BY <3>3 DEF CompleteDepositRefused, FailDepositCommit, HoldRefused, EndRefused
    <3> QED BY <1>5, <3>1, <3>2, <3>3 DEF FundingStep
  <2> QED BY <1>2, <2>1, <2>2 DEF HeldOf, Holding
<1> QED BY <1>3, <1>4, <1>5, CreateHolding, EndHolding

(* bet_events tell the story of bets.status beside funding requests too. *)
LEMMA ExchangeAudit ==
  ExchangeConsistent /\ AuditExact /\ [ExchangeNext]_ExchangeVars => AuditExact'
<1> SUFFICES ASSUME ExchangeConsistent, AuditExact, [ExchangeNext]_ExchangeVars
             PROVE  AuditExact'
  OBVIOUS
<1>1. ASSUME bet' = bet, events' = events PROVE AuditExact'
  <2>1. ASSUME NEW b \in Bets PROVE Audited(b)'
    <3>1. Audited(b) BY DEF AuditExact
    <3> QED BY <1>1, <3>1 DEF Audited, Trail
  <2> QED BY <2>1 DEF AuditExact
<1>2. ASSUME NEW t \in Workers, BettingStep(t) PROVE AuditExact'
  <2>1. [Next]_vars BY <1>2 DEF BettingStep, Next
  <2> QED BY <2>1, NextKeepsAudit DEF ExchangeConsistent
<1>3. ASSUME NEW t \in Workers, FundingStep(t) PROVE AuditExact'
  BY <1>1, <1>3, FundingKeepsBetting DEF betting
<1>4. CASE \/ Tick \/ FundingArrives \/ UNCHANGED ExchangeVars \/ \E t \in Workers : ExchangeAbort(t)
  <2>1. bet' = bet /\ events' = events
    BY <1>4 DEF Tick, FundingArrives, CreateDeposit, InitiatePayfastDeposit, PayFastDecides,
       ExchangeAbort, ExchangeVars, vars, rows
  <2> QED BY <1>1, <2>1
<1> QED BY <1>2, <1>3, <1>4 DEF ExchangeNext

(* A betting step moves a locked balance by what the bets hold, and a      *)
(* funding step by what the withdrawals hold.                              *)
LockedMoves(v) ==
  wallet'[v].locked + Reserved(v) + HeldFor(v) = wallet[v].locked + Reserved(v)' + HeldFor(v)'

LEMMA NextLockedMoves ==
  ASSUME ExchangeConsistent, ExchangeConsistent', AuditExact, TurnsKept, NoStaleHolds,
         AllClean', [ExchangeNext]_ExchangeVars, NEW v \in Users
  PROVE  AllClean /\ LockedMoves(v)
<1>1. /\ Typed /\ Typed' /\ FundTypes /\ FundTypes' /\ Sound /\ Sound'
  BY LedgerTypes, LedgerTypesPrime DEF ExchangeConsistent
<1>2. /\ Reserved(v) \in Nat /\ Reserved(v)' \in Nat
      /\ HeldFor(v) \in Nat /\ HeldFor(v)' \in Nat
      /\ wallet[v].locked \in Nat /\ wallet'[v].locked \in Nat
  BY <1>1, ReservedType, HeldForType DEF Typed, Wallet
<1>3. ASSUME bet' = bet, events' = events PROVE AllClean /\ Reserved(v)' = Reserved(v)
  BY <1>3 DEF AllClean, CleanTrail, Reserved, Held, Party
<1>4. ASSUME withdrawal' = withdrawal PROVE HeldFor(v)' = HeldFor(v)
  BY <1>4, HeldForSame DEF HeldOf, Holding
<1>5. ASSUME NEW t \in Workers, BettingStep(t) PROVE AllClean /\ LockedMoves(v)
  <2>1. [Next]_vars BY <1>5 DEF BettingStep, Next
  <2>2. AllClean /\ HoldsMove BY <1>1, <2>1, CleanHolds
  <2>3. HeldFor(v)' = HeldFor(v) BY <1>4, <1>5 DEF BettingStep, fund
  <2>4. wallet'[v].locked + Reserved(v) = wallet[v].locked + Reserved(v)' BY <2>2 DEF HoldsMove
  <2> QED BY <1>2, <2>2, <2>3, <2>4 DEF LockedMoves
<1>6. ASSUME NEW t \in Workers, FundingStep(t) PROVE AllClean /\ LockedMoves(v)
  <2>1. AllClean /\ Reserved(v)' = Reserved(v)
    BY <1>3, <1>6, FundingKeepsBetting DEF betting
  <2>2. HoldingMoves(v) BY <1>6, FundingHolding
  <2> QED BY <1>2, <2>1, <2>2 DEF HoldingMoves, LockedMoves
<1>7. CASE \/ Tick /\ UNCHANGED fund
           \/ FundingArrives
           \/ UNCHANGED ExchangeVars
           \/ \E t \in Workers : ExchangeAbort(t)
  <2>1. bet' = bet /\ events' = events /\ wallet' = wallet /\ withdrawal' = withdrawal
    BY <1>7 DEF Tick, FundingArrives, CreateDeposit, InitiatePayfastDeposit, PayFastDecides,
       ExchangeAbort, ExchangeVars, vars, rows, fund
  <2>2. AllClean /\ Reserved(v)' = Reserved(v) /\ HeldFor(v)' = HeldFor(v)
    BY <1>3, <1>4, <2>1
  <2> QED BY <1>2, <2>1, <2>2 DEF LockedMoves
<1> QED BY <1>5, <1>6, <1>7 DEF ExchangeNext

(* Locked balances as long as the audit trail shows no late cancellation. *)
CleanLocks == AllClean => LockedExact

LEMMA NextCleanLocks ==
  ExchangeConsistent /\ ExchangeConsistent' /\ AuditExact /\ TurnsKept /\ NoStaleHolds
    /\ CleanLocks /\ [ExchangeNext]_ExchangeVars => CleanLocks'
<1> SUFFICES ASSUME ExchangeConsistent, ExchangeConsistent', AuditExact, TurnsKept,
                    NoStaleHolds, CleanLocks, [ExchangeNext]_ExchangeVars, AllClean',
                    NEW v \in Users
             PROVE  wallet'[v].locked = Reserved(v)' + HeldFor(v)'
  BY DEF CleanLocks, LockedExact
<1>1. Typed /\ Typed' /\ FundTypes /\ FundTypes'
  BY LedgerTypes, LedgerTypesPrime
<1>2. /\ Reserved(v) \in Nat /\ Reserved(v)' \in Nat
      /\ HeldFor(v) \in Nat /\ HeldFor(v)' \in Nat
      /\ wallet'[v].locked \in Nat
  BY <1>1, ReservedType, HeldForType DEF Typed, Wallet
<1>3. AllClean /\ LockedMoves(v) BY NextLockedMoves
<1>4. wallet[v].locked = Reserved(v) + HeldFor(v) BY <1>3 DEF CleanLocks, LockedExact
<1>5. PICK x, r, h, a, c \in Nat :
        /\ x = wallet'[v].locked /\ r = Reserved(v) /\ h = HeldFor(v)
        /\ a = Reserved(v)' /\ c = HeldFor(v)'
  BY <1>2
<1>6. x + r + h = (r + h) + a + c BY <1>3, <1>4, <1>5 DEF LockedMoves
<1>7. x = a + c BY <1>6
<1> QED BY <1>5, <1>7

LEMMA InitLocks == ExchangeInit => AuditExact /\ CleanLocks
<1> SUFFICES ASSUME ExchangeInit PROVE AuditExact /\ LockedExact BY DEF CleanLocks
<1>1. FundingInit /\ Init /\ InitRest BY DEF ExchangeInit, Init
<1>2. ASSUME NEW b \in Bets PROVE Audited(b)
  BY <1>1 DEF InitRest, NoBet, Audited, Trail, EventTypes
<1>3. ASSUME NEW u \in Users PROVE wallet[u].locked = Reserved(u) + HeldFor(u)
  <2> DEFINE f == [b \in Bets |-> Held(u, b)]
             g == [w \in Withdrawals |-> HeldOf(u, w)]
  <2>1. \A b \in Bets : f[b] = 0 BY <1>1 DEF InitRest, NoBet, Held, LiveStatus
  <2>2. \A w \in Withdrawals : g[w] = 0 BY <1>1 DEF FundingInit, NoWithdrawal, HeldOf, Holding
  <2>3. Sum(f, Bets) = 0 BY <2>1, SumZero
  <2>4. Sum(g, Withdrawals) = 0 BY <2>2, SumZero
  <2>5. Reserved(u) = 0 BY <2>3 DEF Reserved
  <2>6. HeldFor(u) = 0 BY <2>4 DEF HeldFor, HeldOf
  <2> QED BY <1>1, <2>5, <2>6 DEF InitRest
<1> QED BY <1>2, <1>3 DEF AuditExact, LockedExact

(* As long as the requests about one withdrawal take turns, no hold is     *)
(* stale and the audit trail shows no cancellation that came too late, a   *)
(* locked balance is exactly the stakes of the live bets and the open      *)
(* withdrawals of its owner.                                               *)
THEOREM LockedExactInTurn ==
  ExchangeSpec /\ []RowsInTurn /\ []NoStaleHolds => [](AllClean => LockedExact)
<1>1. CleanLocks <=> (AllClean => LockedExact) BY DEF CleanLocks
<1> QED BY <1>1, InitLocks, NextCleanLocks, ExchangeAudit, InitTurn, NextTurn,
           ExchangeConsistentAlways, PTL DEF ExchangeSpec

-----------------------------------------------------------------------------
(***************************************************************************)
(* One worker: all requests take turns, and nothing is in doubt.           *)
(***************************************************************************)
OneWorker == \A t, o \in Workers : t = o

CancelPCs == {"cancel_wallet", "cancel_bet"}

(* What create_withdrawal and cancel_bet read without a lock still holds. *)
ReadsFresh ==
  \A t \in Workers :
    /\ pc[t] \in HoldPCs => snap[t][order[t].user] = wallet[order[t].user]
    /\ pc[t] \in CancelPCs => bet[req[t].bet].status = "OPEN"

(* A trail can only be unclean where the bet is cancelled. *)
LEMMA CleanUnlessCancelled ==
  Sound /\ AuditExact => \A b \in Bets : bet[b].status # "CANCELLED" => CleanTrail(b)
<1> SUFFICES ASSUME Sound, AuditExact, NEW b \in Bets, bet[b].status # "CANCELLED"
             PROVE  CleanTrail(b)
  OBVIOUS
<1>1. Audited(b) BY DEF AuditExact
<1>2. bet[b].status \in {"none", "OPEN", "MATCHED", "PENDING_SETTLEMENT", "SETTLED", "VOIDED"}
  BY DEF Sound, Typed, Bet, BetStatus
<1>3. events[b]["CANCELLED"] = 0
  <2>1. CASE bet[b].status = "none" BY <1>1, <2>1 DEF Audited, Trail
  <2>2. CASE bet[b].status = "OPEN" BY <1>1, <2>2 DEF Audited, Trail
  <2>3. CASE bet[b].status = "MATCHED" BY <1>1, <2>3 DEF Audited, Trail
  <2>4. CASE bet[b].status = "PENDING_SETTLEMENT" BY <1>1, <2>4 DEF Audited, Trail
  <2>5. CASE bet[b].status = "SETTLED" BY <1>1, <2>5 DEF Audited, Trail
  <2>6. CASE bet[b].status = "VOIDED" BY <1>1, <2>6 DEF Audited, Trail
  <2> QED BY <1>2, <2>1, <2>2, <2>3, <2>4, <2>5, <2>6
<1> QED BY <1>3 DEF CleanTrail

LEMMA CleanAfter ==
  (Sound /\ AuditExact => \A b \in Bets : bet[b].status # "CANCELLED" => CleanTrail(b))'
BY CleanUnlessCancelled, PTL

(* A betting step writes a cancellation only where cancel_bet commits. *)
LEMMA CancelWrites ==
  ASSUME Sound, NEW t \in Workers, ServiceStep(t), NEW c \in Bets,
         bet'[c].status = "CANCELLED"
  PROVE  \/ bet'[c] = bet[c] /\ events'[c] = events[c]
         \/ CancelCommit(t) /\ c = req[t].bet
<1>1. bet \in [Bets -> Bet] /\ events \in [Bets -> [EventTypes -> Nat]] /\ RequestOK(t)
  BY DEF Sound, Typed
<1>2. \/ UNCHANGED rows
      \/ ConfirmCommit(t)
      \/ CreateCommit(t) \/ AcceptCommit(t) \/ CancelCommit(t) \/ VoidCommit(t)
      \/ SettleWinner(t) \/ SettleNoWinner(t)
  BY DEF ServiceStep, BetServiceStep, CreateBegin, AcceptLock, LockStake, LockStakeRefused,
     CancelRead, UnlockStake, UnlockStakeRefused, AdminServiceStep, VoidLock, VoidRefund,
     VoidRefundRefused, SettlementStep, ConfirmLock, ConfirmScan, ConfirmRow, SettleSingle,
     SettleLock, SettleLockOn, SettleRefused, SettleRefusedOn, SettleWallet, SettlePlatform,
     SettleFail
<1>3. CASE UNCHANGED rows BY <1>3 DEF rows
<1>4. CASE ConfirmCommit(t)
  <2>1. c \notin req[t].cached BY <1>1, <1>4 DEF ConfirmCommit, Bet
  <2> QED BY <1>4, <2>1 DEF ConfirmCommit
<1>5. CASE \/ CreateCommit(t) \/ AcceptCommit(t) \/ CancelCommit(t) \/ VoidCommit(t)
           \/ SettleWinner(t) \/ SettleNoWinner(t)
  <2>1. PICK b : b = req[t].bet OBVIOUS
  <2>2. PICK type \in EventTypes, to \in BetStatus : Logged(b, type, to)
    BY <1>5, <2>1, CommitMoves
  <2>3. b \in Bets BY <1>5, <2>1, CommitMoves
  <2>4. bet'[b].status = "CANCELLED" => CancelCommit(t)
    <3>1. CASE CreateCommit(t) BY <1>1, <2>1, <2>3, <3>1 DEF CreateCommit, NoBet
    <3>2. CASE AcceptCommit(t) BY <1>1, <2>1, <2>3, <3>2 DEF AcceptCommit, Bet
    <3>3. CASE VoidCommit(t) BY <1>1, <2>1, <2>3, <3>3 DEF VoidCommit, Bet
    <3>4. CASE SettleWinner(t) \/ SettleNoWinner(t)
      BY <2>1, <3>4, SettledRow DEF RowSettles
    <3> QED BY <1>5, <3>1, <3>2, <3>3, <3>4
  <2> QED BY <2>1, <2>2, <2>3, <2>4 DEF Logged
<1> QED BY <1>2, <1>3, <1>4, <1>5

(* Where cancel_bet is after a step, it has just read the bet or it has    *)
(* locked the wallet, and no row was written.                              *)
LEMMA CancelSteps ==
  ASSUME Sound, NEW t \in Workers, ServiceStep(t), pc'[t] \in CancelPCs
  PROVE  /\ bet' = bet
         /\ \/ bet[req'[t].bet].status = "OPEN"
            \/ pc[t] \in CancelPCs /\ req' = req
<1>1. pc = [o \in Workers |-> pc[o]] /\ req \in [Workers -> Request] BY DEF Sound, Typed
<1>2. ~Finish(t) BY <1>1 DEF Finish, CancelPCs
<1>3. \A todo : ~NextBet(t, todo) BY <1>1 DEF NextBet, Goto, AfterBet, CancelPCs
<1>4. CASE BetServiceStep(t)
  <2>1. LockStake(t) => Goto(t, "create_commit") \/ Goto(t, "accept_commit")
    BY DEF LockStake, AfterLockStake
  <2>2. UnlockStake(t) \/ \E b \in Bets : CancelRead(t, b)
    BY <1>1, <1>2, <1>4, <2>1 DEF BetServiceStep, CreateBegin, AcceptLock,
       LockStakeRefused, CreateCommit, AcceptCommit, UnlockStakeRefused, CancelCommit, Goto,
       CancelPCs
  <2>3. CASE UnlockStake(t) BY <2>3 DEF UnlockStake, rows, CancelPCs
  <2>4. ASSUME NEW b \in Bets, CancelRead(t, b)
        PROVE  bet' = bet /\ bet[req'[t].bet].status = "OPEN"
    BY <1>1, <2>4 DEF CancelRead, rows, NoRequest
  <2> QED BY <2>2, <2>3, <2>4
<1>5. CASE AdminServiceStep(t)
  BY <1>1, <1>2, <1>5 DEF AdminServiceStep, VoidLock, VoidRefund, VoidRefundRefused, VoidCommit,
     Goto, CancelPCs
<1>6. CASE SettlementStep(t)
  <2>1. ASSUME NEW b \in Bets, ConfirmRow(t, b) PROVE Goto(t, "confirm_rows")
    BY <2>1 DEF ConfirmRow, Goto, Sound, Typed
  <2>2. ~SettleWinner(t) /\ ~SettleNoWinner(t)
    BY <1>1 DEF SettleWinner, SettleNoWinner, CompleteSettlement, AfterBet, Goto, CancelPCs
  <2> QED BY <1>1, <1>3, <1>6, <2>1, <2>2
    DEF SettlementStep, ConfirmLock, ConfirmScan, ConfirmCommit, AfterBet, SettleSingle,
        SettleLock, SettleLockOn, SettleRefused, SettleRefusedOn, SettleWallet,
        SettlePlatform, SettleFail, Goto, CancelPCs
<1> QED BY <1>4, <1>5, <1>6 DEF ServiceStep

(* After a funding step of t, only create_withdrawal is still waiting for  *)
(* its commit, with the balances as they are.                              *)
LEMMA FundingFresh ==
  ASSUME ExchangeConsistent, ReadsFresh, NEW t \in Workers, FundingStep(t)
  PROVE  /\ pc'[t] \in HoldPCs => snap'[t][order'[t].user] = wallet'[order'[t].user]
         /\ pc'[t] \notin CancelPCs
<1>1. /\ pc \in [Workers -> PCs \cup FundingPCs] /\ order \in [Workers -> Order]
      /\ snap \in [Workers -> [Users -> Wallet]]
  BY DEF ExchangeConsistent, FundingTypeOK, Sound, Typed
<1> USE DEF HoldPCs, CancelPCs
<1>2. CASE FinishOrder(t) BY <1>1, <1>2 DEF FinishOrder, Finish
<1>3. CASE \/ AdminDeposits(t) \/ AdminWithdrawals(t) \/ (\E d \in Deposits : PayfastItn(t, d))
  BY <1>1, <1>3 DEF AdminDeposits, AdminWithdrawals, PayfastItn, CompleteDeposit, FailDeposit,
     ApproveWithdrawal, EndWithdrawal, BeginOrder, Goto
<1>4. ASSUME NEW u \in Users, NEW w \in Withdrawals, NEW a \in WithdrawalInputs,
             CreateWithdrawal(t, u, w, a)
      PROVE  /\ snap'[t][order'[t].user] = wallet'[order'[t].user]
             /\ pc'[t] \notin CancelPCs
  BY <1>1, <1>4 DEF CreateWithdrawal, BeginOrder, NoOrder, Goto
<1>5. CASE InsertWithdrawal(t) \/ HoldWithdrawal(t)
  BY <1>1, <1>5 DEF InsertWithdrawal, HoldWithdrawal, LockOnly, Goto, ReadsFresh
<1>6. CASE CreditDeposit(t) \/ EndLock(t)
  BY <1>1, <1>6 DEF CreditDeposit, EndLock, Goto
<1>7. CASE \/ CompleteDepositCommit(t) \/ CompleteDepositRefused(t) \/ FailDepositCommit(t)
           \/ HoldRefused(t) \/ CreateWithdrawalCommit(t) \/ ApproveCommit(t)
           \/ EndRefused(t) \/ EndCommit(t)
  BY <1>2, <1>7 DEF CompleteDepositCommit, CompleteDepositRefused, FailDepositCommit,
     HoldRefused, CreateWithdrawalCommit, ApproveCommit, EndRefused, EndCommit
<1> QED BY <1>3, <1>4, <1>5, <1>6, <1>7 DEF FundingStep

LEMMA NextAlone ==
  ASSUME OneWorker
  PROVE  ExchangeConsistent /\ ExchangeConsistent' /\ AuditExact /\ AuditExact' /\ ReadsFresh
           /\ AllClean /\ [ExchangeNext]_ExchangeVars => ReadsFresh' /\ AllClean'
<1> SUFFICES ASSUME ExchangeConsistent, ExchangeConsistent', AuditExact, AuditExact',
                    ReadsFresh, AllClean, [ExchangeNext]_ExchangeVars
             PROVE  ReadsFresh' /\ AllClean'
  OBVIOUS
<1>1. Sound /\ Sound' BY DEF ExchangeConsistent
<1>2. ASSUME bet' = bet, events' = events PROVE AllClean'
  BY <1>2 DEF AllClean, CleanTrail
<1>3. CASE \/ Tick /\ UNCHANGED fund
           \/ FundingArrives
           \/ UNCHANGED ExchangeVars
  <2>1. bet' = bet /\ events' = events /\ UNCHANGED <<pc, req, snap, wallet, order>>
    BY <1>3 DEF Tick, FundingArrives, CreateDeposit, InitiatePayfastDeposit, PayFastDecides,
       ExchangeVars, vars, rows, work, fund
  <2> QED BY <1>2, <2>1 DEF ReadsFresh
<1>4. ASSUME NEW t \in Workers, FundingStep(t) PROVE ReadsFresh' /\ AllClean'
  <2>1. bet' = bet /\ events' = events BY <1>4, FundingKeepsBetting DEF betting
  <2>2. ReadsFresh' BY <1>4, FundingFresh DEF OneWorker, ReadsFresh
  <2> QED BY <1>2, <2>1, <2>2
<1>5. ASSUME NEW t \in Workers, ExchangeAbort(t) PROVE ReadsFresh' /\ AllClean'
  <2>1. bet' = bet /\ events' = events BY <1>5 DEF ExchangeAbort, rows
  <2>2. pc'[t] \notin HoldPCs BY <1>5, OffFunding DEF HoldPCs, FundingPCs
  <2>3. pc'[t] \notin CancelPCs
    <3>1. pc = [o \in Workers |-> pc[o]] BY <1>1 DEF Sound, Typed
    <3> QED BY <1>5, <3>1
      DEF ExchangeAbort, NextBet, AfterBet, FinishOrder, Finish, Goto, CancelPCs
  <2>4. ReadsFresh' BY <2>2, <2>3 DEF OneWorker, ReadsFresh
  <2> QED BY <1>2, <2>1, <2>4
<1>6. ASSUME NEW t \in Workers, BettingStep(t) PROVE ReadsFresh' /\ AllClean'
  <2>1. ServiceStep(t) BY <1>6 DEF BettingStep
  <2>2. pc'[t] \notin HoldPCs BY <1>6, OffFunding DEF HoldPCs, FundingPCs
  <2>3. pc'[t] \in CancelPCs => bet'[req'[t].bet].status = "OPEN"
    BY <1>1, <2>1, CancelSteps DEF ReadsFresh
  <2>4. ReadsFresh' BY <2>2, <2>3 DEF OneWorker, ReadsFresh
  <2>5. ASSUME NEW c \in Bets PROVE CleanTrail(c)'
    <3>1. CASE bet'[c].status # "CANCELLED"
      BY <1>1, <3>1, CleanAfter
    <3>2. CASE bet'[c] = bet[c] /\ events'[c] = events[c]
      BY <3>2 DEF AllClean, CleanTrail
    <3>3. CASE CancelCommit(t) /\ c = req[t].bet
      <4>1. bet[c].status = "OPEN" BY <3>3 DEF CancelCommit, ReadsFresh, CancelPCs
      <4>2. Trail(c, 1, 0, 0, 0, 0, 0) BY <4>1 DEF AuditExact, Audited
      <4>3. /\ events'[c]["CANCELLED"] = events[c]["CANCELLED"] + 1
            /\ events'[c]["MATCHED"] = events[c]["MATCHED"]
            /\ events'[c]["VOIDED"] = events[c]["VOIDED"]
        BY <1>1, <3>3 DEF CancelCommit, write_bet_event, Sound, Typed, EventTypes
      <4> QED BY <4>2, <4>3 DEF CleanTrail, Trail
    <3> QED BY <1>1, <2>1, <3>1, <3>2, <3>3, CancelWrites
  <2> QED BY <2>4, <2>5 DEF AllClean
<1> QED BY <1>3, <1>4, <1>5, <1>6 DEF ExchangeNext

(* What the funding run of one worker checks, for any number of users,     *)
(* bets, deposits and withdrawals: when requests are served one after the  *)
(* other, a deposit is credited once, a hold is used once, a locked        *)
(* balance is what the live bets and the open withdrawals say, and both    *)
(* balances are what the ledger says, up to the cents of half cents.       *)
THEOREM ExactAlone ==
  ASSUME OneWorker
  PROVE  ExchangeSpec => [](CreditedOnce /\ HoldUsedOnce /\ LedgerExplains /\ LockedExact)
<1>1. RowsInTurn BY DEF OneWorker, RowsInTurn
<1>2. ReadsFresh => NoStaleHolds BY DEF ReadsFresh, NoStaleHolds, StaleHold, HoldPCs
<1>3. ExchangeInit => ReadsFresh /\ AllClean
  BY DEF ExchangeInit, Init, InitRest, ReadsFresh, HoldPCs, CancelPCs, AllClean, CleanTrail,
     EventTypes
<1>4. ExchangeConsistent /\ ExchangeConsistent' /\ AuditExact /\ AuditExact' /\ ReadsFresh
        /\ AllClean /\ [ExchangeNext]_ExchangeVars => ReadsFresh' /\ AllClean'
  BY NextAlone
<1>5. ExchangeSpec => []RowsInTurn /\ []ReadsFresh /\ []AllClean
  BY <1>1, <1>3, <1>4, InitLocks, ExchangeAudit, ExchangeConsistentAlways, PTL DEF ExchangeSpec
<1> QED BY <1>2, <1>5, CreditedOnceInTurn, HoldUsedOnceInTurn, LedgerExplainsUnlessStale,
           LockedExactInTurn, PTL
=============================================================================
