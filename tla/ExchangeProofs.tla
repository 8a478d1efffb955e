--------------------------- MODULE ExchangeProofs ---------------------------
(***************************************************************************)
(* Bets and funding together, for any number of users, requests, deposits  *)
(* and withdrawals.  The betting steps give the funding requests the same  *)
(* guarantees they give each other, and the funding steps give both kinds  *)
(* theirs: they write no wallet they have not locked, and FundGuarantees   *)
(* says what they leave of the rows and orders of other funding requests.  *)
(***************************************************************************)
EXTENDS FundingConsistency, MoneyProofs

HoldPCs == {"withdraw_insert", "withdraw_hold", "withdraw_commit"}

(* What a step of worker t never does to the other funding requests: touch *)
(* their orders, share or unshare a wallet for them, change the owner or   *)
(* the amount of a row, take back an approval, or use a row that another   *)
(* request is creating.                                                    *)
OrdersKept(t) ==
  /\ \A o \in Workers \ {t} : order'[o] = order[o]
  /\ \A u \in Users, o \in Workers \ {t} : o \in share'[u] <=> o \in share[u]

FundRowsKept(t) ==
  /\ \A d \in Deposits : deposit[d].status # "none" =>
       /\ deposit'[d].status # "none"
       /\ deposit'[d].user_id = deposit[d].user_id /\ deposit'[d].amount = deposit[d].amount
  /\ \A w \in Withdrawals : withdrawal[w].status # "none" =>
       /\ withdrawal'[w].status # "none"
       /\ withdrawal'[w].user_id = withdrawal[w].user_id
       /\ withdrawal'[w].amount = withdrawal[w].amount
       /\ withdrawal[w].approved => withdrawal'[w].approved
  /\ \A w \in Withdrawals : withdrawal[w].status = "none" =>
       withdrawal'[w] = withdrawal[w] \/ (pc[t] \in HoldPCs /\ order[t].withdrawal = w)

FundGuarantees(t) == OrdersKept(t) /\ FundRowsKept(t)

(* Under both guarantees the facts of every other funding request survive. *)
LEMMA FundRely ==
  ASSUME FundingSound, NEW t \in Workers, Guarantees(t), FundGuarantees(t),
         NEW o \in Workers \ {t}
  PROVE  OrderOK(o)' /\ FundingLocksOK(o)'
<1>1. o # NoOne BY ConstantsAssumption DEF ConstantsAssumption
<1>2. /\ pc'[o] = pc[o] /\ snap'[o] = snap[o] /\ order'[o] = order[o]
      /\ \A u \in Users : o \in share'[u] <=> o \in share[u]
  BY DEF Guarantees, SessionsKept, FundGuarantees, OrdersKept
<1>3. /\ \A u \in Users : walletLock[u] = o =>
           walletLock'[u] = o /\ wallet'[u] = wallet[u]
      /\ \A u \in Users : walletLock'[u] = o => walletLock[u] = o
      /\ \A b \in Bets : betLock'[b] = o => betLock[b] = o
      /\ platformLock' = o => platformLock = o
  BY <1>1 DEF Guarantees, LocksKept, RowsKept
<1>4. OrderOK(o) /\ FundingLocksOK(o) BY DEF FundingSound
<1>5. FundingLocksOK(o)' BY <1>2, <1>3, <1>4 DEF FundingLocksOK
<1>6. ASSUME pc[o] \in {"deposit_wallet", "deposit_commit"}
      PROVE  /\ order'[o].deposit \in Deposits
             /\ deposit'[order'[o].deposit].status # "none"
             /\ order'[o].action = "complete" => CompletionOK(o)'
  BY <1>2, <1>3, <1>4, <1>6
  DEF OrderOK, CompletionOK, HoldsFresh, FundGuarantees, FundRowsKept
<1>7. ASSUME pc[o] \in HoldPCs PROVE HoldOK(o)'
  <2>1. HoldOK(o) BY <1>4, <1>7 DEF OrderOK, HoldPCs
  <2> DEFINE w == order[o].withdrawal
  <2>2. pc[t] \in HoldPCs => order[t].withdrawal # w
    BY <1>7 DEF FundingSound, HoldsDistinct, HoldPCs
  <2>3. withdrawal'[w] = withdrawal[w]
    BY <2>1, <2>2 DEF HoldOK, FundGuarantees, FundRowsKept
  <2> QED BY <1>2, <1>3, <2>1, <2>3 DEF HoldOK
<1>8. ASSUME pc[o] = "approve_commit"
      PROVE  /\ order'[o].withdrawal \in Withdrawals
             /\ withdrawal'[order'[o].withdrawal].status # "none"
  BY <1>2, <1>4, <1>8 DEF OrderOK, FundGuarantees, FundRowsKept
<1>9. ASSUME pc[o] \in {"withdraw_wallet", "withdraw_end"} PROVE EndOK(o)'
  <2>1. EndOK(o) BY <1>4, <1>9 DEF OrderOK
  <2> QED BY <1>2, <1>3, <2>1 DEF EndOK, HoldsFresh, FundGuarantees, FundRowsKept
<1>10. OrderOK(o)'
  BY <1>2, <1>4, <1>6, <1>7, <1>8, <1>9 DEF OrderOK, HoldPCs
<1> QED BY <1>5, <1>10

(* Sharers stay sharers, and a lock is only taken of a wallet nobody else  *)
(* shares.                                                                 *)
LEMMA ShareStep ==
  ASSUME FundingSound, NEW t \in Workers, Guarantees(t), FundGuarantees(t),
         share \in [Users -> SUBSET Workers], share' \in [Users -> SUBSET Workers],
         NEW u \in Users,
         t \in share'[u] =>
           /\ pc'[t] \in {"withdraw_hold", "withdraw_commit"} /\ order'[t].user = u
           /\ t \in share[u] \/ walletLock'[u] = NoOne,
         walletLock'[u] = t /\ share'[u] # {} => share'[u] = {t}
  PROVE  ShareOK(u)'
<1>1. NoOne \notin Workers BY ConstantsAssumption DEF ConstantsAssumption
<1>2. ShareOK(u) BY DEF FundingSound
<1>3. ASSUME NEW o \in share'[u]
      PROVE  pc'[o] \in {"withdraw_hold", "withdraw_commit"} /\ order'[o].user = u
  <2>1. o \in Workers BY <1>3
  <2>2. CASE o = t BY <1>3, <2>2
  <2>3. CASE o # t
    <3>1. o \in share[u] /\ pc'[o] = pc[o] /\ order'[o] = order[o]
      BY <1>3, <2>1, <2>3 DEF FundGuarantees, OrdersKept, Guarantees, SessionsKept
    <3> QED BY <1>2, <3>1 DEF ShareOK
  <2> QED BY <2>2, <2>3
<1>4. ASSUME walletLock'[u] # NoOne, share'[u] # {} PROVE share'[u] = {walletLock'[u]}
  <2>1. CASE walletLock'[u] = t BY <1>4, <2>1
  <2>2. CASE walletLock'[u] # t
    <3>1. walletLock'[u] = walletLock[u] BY <1>4, <2>2 DEF Guarantees, LocksKept
    <3>2. share'[u] \subseteq share[u]
      BY <1>4 DEF FundGuarantees, OrdersKept
    <3>3. share[u] = {walletLock[u]} BY <1>2, <1>4, <3>1, <3>2 DEF ShareOK
    <3> QED BY <1>4, <3>1, <3>2, <3>3
  <2> QED BY <2>1, <2>2
<1> QED BY <1>3, <1>4 DEF ShareOK

(* The facts about the rows of the two tables alone. *)
FundRowsOK ==
  /\ \A d \in Deposits : DepositOK(d)
  /\ \A w \in Withdrawals : WithdrawalOK(w)
  /\ OnlyApprovedPaid /\ CompletedIsCredited

FundTypes ==
  /\ deposit \in [Deposits -> Deposit]
  /\ withdrawal \in [Withdrawals -> Withdrawal]
  /\ payment \in [Deposits -> {"none", "checkout", "COMPLETE", "CANCELLED"}]
  /\ credits \in [Deposits -> Nat]
  /\ moves \in [Withdrawals -> [WithdrawalEntries -> Nat]]

(* A funding step inside its transaction: it takes at most free wallets    *)
(* and loads what it likes, and keeps the betting requests sound.          *)
LEMMA FundingAdvance ==
  ASSUME Sound, LocksTaken, NEW t \in Workers, NEW label \in FundingPCs, Goto(t, label),
         UNCHANGED <<betting, wallet, betLock, matchLock, platformLock, req, psnap>>,
         snap' \in [Workers -> [Users -> Wallet]],
         \A o \in Workers \ {t} : snap'[o] = snap[o],
         walletLock' \in [Users -> Null(Workers)],
         \A u \in Users : \/ walletLock'[u] = walletLock[u]
                          \/ walletLock[u] = NoOne /\ walletLock'[u] = t
  PROVE  Sound' /\ Guarantees(t) /\ LocksTaken'
<1>1. LockTypes' /\ LocksKept(t)
  BY DEF Sound, Typed, LockTypes, LocksKept
<1>2. WorkTypes' /\ SessionsKept(t)
  <2>1. pc' = [o \in Workers |-> pc'[o]] BY DEF Goto, Sound, Typed
  <2>2. WorkTypes' BY <2>1 DEF Sound, Typed, WorkTypes
  <2> QED BY <2>2 DEF Goto, SessionsKept, Sound, Typed
<1>3. pc'[t] = label /\ label \notin PCs
  BY DEF Goto, Sound, Typed, FundingPCs, PCs, SettlePCs
<1>4. pc'[t] \notin CreatePCs /\ RequestOK(t)'
  BY <1>3 DEF RequestOK, CreatePCs, PCs, SettlePCs
<1>5. IdsDistinct' BY <1>2, <1>4, IdsKept
<1>6. UNCHANGED <<now, rows, crashes>> BY DEF betting, rows
<1>7. platformLock' = t => platformLock = t /\ psnap'[t] = psnap[t] OBVIOUS
<1>8. Sound' /\ Guarantees(t)
  BY <1>1, <1>2, <1>3, <1>4, <1>5, <1>6, <1>7, AdvanceStep
<1>9. ASSUME NEW o \in Workers PROVE LocksOK(o)'
  <2>1. CASE o = t BY <1>3, <2>1 DEF LocksOK
  <2>2. CASE o # t BY <1>8, <2>2, LocksRely DEF LocksTaken
  <2> QED BY <2>1, <2>2
<1> QED BY <1>8, <1>9 DEF LocksTaken

(* The end of a funding request, which writes no wallet but those it has   *)
(* locked.                                                                 *)
LEMMA FundingEnd ==
  ASSUME Sound, LocksTaken, NEW t \in Workers, Finish(t), UNCHANGED betting,
         wallet' \in [Users -> Wallet],
         \A u \in Users : wallet'[u] = wallet[u] \/ walletLock[u] = t
  PROVE  Sound' /\ Guarantees(t) /\ LocksTaken'
<1>1. Ends(t) BY FinishEnds
<1>2. /\ now' = now /\ match' = match /\ bet' = bet /\ platform' = platform
      /\ ledger' = ledger /\ events' = events /\ crashes' = crashes
  BY DEF betting
<1>3. RowTypes' BY <1>2 DEF Sound, Typed, RowTypes
<1>4. RowsKept(t) BY <1>2 DEF RowsKept
<1>5. ASSUME NEW b \in Bets PROVE RowOK(b)' BY <1>2 DEF Sound, RowOK
<1>6. Sound' /\ Guarantees(t) BY <1>1, <1>3, <1>4, <1>5, EndStep
<1>7. ASSUME NEW o \in Workers PROVE LocksOK(o)'
  <2>1. CASE o = t BY <1>1, <2>1, EndsFree
  <2>2. CASE o # t BY <1>6, <2>2, LocksRely DEF LocksTaken
  <2> QED BY <2>1, <2>2
<1> QED BY <1>6, <1>7 DEF LocksTaken

(* What remains to be shown of a step that keeps both guarantees: the      *)
(* facts of its own request, and those of the rows.                        *)
LEMMA OrderStep ==
  ASSUME FundingTypeOK, FundingSound, NEW t \in Workers, Sound', LocksTaken',
         Guarantees(t), FundGuarantees(t),
         FundTypes', FundRowsOK', NEW label \in PCs \cup FundingPCs, Goto(t, label),
         order' \in [Workers -> Order], share' \in [Users -> SUBSET Workers],
         OrderOK(t)', FundingLocksOK(t)',
         \A u \in Users : t \in share'[u] =>
           /\ label \in {"withdraw_hold", "withdraw_commit"} /\ order'[t].user = u
           /\ t \in share[u] \/ walletLock'[u] = NoOne,
         \A u \in Users : walletLock'[u] = t /\ share'[u] # {} => share'[u] = {t},
         \A o \in Workers \ {t} : label \in HoldPCs /\ pc[o] \in HoldPCs =>
           order'[t].withdrawal # order[o].withdrawal
  PROVE  ExchangeConsistent'
<1>1. pc' \in [Workers -> PCs \cup FundingPCs] /\ pc'[t] = label
  BY DEF FundingTypeOK, Goto
<1>2. FundingTypeOK' BY <1>1 DEF FundingTypeOK, FundTypes, Sound, Typed
<1>3. ASSUME NEW o \in Workers PROVE OrderOK(o)' /\ FundingLocksOK(o)'
  <2>1. CASE o = t BY <2>1
  <2>2. CASE o # t BY <2>2, FundRely
  <2> QED BY <2>1, <2>2
<1>4. ASSUME NEW u \in Users PROVE ShareOK(u)'
  <2>1. share \in [Users -> SUBSET Workers] BY DEF FundingTypeOK
  <2>2. /\ t \in share'[u] =>
             /\ pc'[t] \in {"withdraw_hold", "withdraw_commit"} /\ order'[t].user = u
             /\ t \in share[u] \/ walletLock'[u] = NoOne
        /\ walletLock'[u] = t /\ share'[u] # {} => share'[u] = {t}
    BY <1>1
  <2> QED BY <2>1, <2>2, ShareStep
<1>5. HoldsDistinct'
  <2>1. \A o \in Workers \ {t} : pc'[o] = pc[o] /\ order'[o] = order[o]
    BY DEF Guarantees, SessionsKept, FundGuarantees, OrdersKept
  <2> QED BY <1>1, <2>1 DEF FundingSound, HoldsDistinct, HoldPCs
<1> QED BY <1>2, <1>3, <1>4, <1>5 DEF ExchangeConsistent, FundingSound, FundRowsOK

(* A step that writes no deposit, withdrawal or ledger row. *)
LEMMA FundRowsSame ==
  ASSUME ExchangeConsistent, NEW t \in Workers,
         UNCHANGED <<deposit, withdrawal, payment, credits, moves>>
  PROVE  FundRowsKept(t) /\ FundTypes' /\ FundRowsOK'
<1>1. FundTypes' BY DEF ExchangeConsistent, FundingTypeOK, FundTypes
<1>2. FundRowsKept(t) BY DEF FundRowsKept
<1>3. FundRowsOK'
  BY DEF ExchangeConsistent, FundingSound, FundRowsOK, DepositOK, WithdrawalOK,
         OnlyApprovedPaid, CompletedIsCredited
<1> QED BY <1>1, <1>2, <1>3

(* A step inside a funding transaction. *)
LEMMA InsideStep ==
  ASSUME ExchangeConsistent, NEW t \in Workers, NEW label \in FundingPCs, Goto(t, label),
         LockOnly,
         snap' \in [Workers -> [Users -> Wallet]],
         \A o \in Workers \ {t} : snap'[o] = snap[o],
         walletLock' \in [Users -> Null(Workers)],
         \A u \in Users : \/ walletLock'[u] = walletLock[u]
                          \/ walletLock[u] = NoOne /\ walletLock'[u] = t,
         order' \in [Workers -> Order], share' \in [Users -> SUBSET Workers],
         OrdersKept(t), OrderOK(t)', FundingLocksOK(t)',
         \A u \in Users : t \in share'[u] =>
           /\ label \in {"withdraw_hold", "withdraw_commit"} /\ order'[t].user = u
           /\ t \in share[u] \/ walletLock'[u] = NoOne,
         \A u \in Users : walletLock'[u] = t /\ share'[u] # {} => share'[u] = {t},
         \A o \in Workers \ {t} : label \in HoldPCs /\ pc[o] \in HoldPCs =>
           order'[t].withdrawal # order[o].withdrawal
  PROVE  ExchangeConsistent' /\ Guarantees(t) /\ FundGuarantees(t)
<1>1. UNCHANGED <<betting, wallet, betLock, matchLock, platformLock, req, psnap>>
  BY DEF LockOnly
<1>2. UNCHANGED <<deposit, withdrawal, payment, credits, moves>> BY DEF LockOnly
<1>3. Sound /\ LocksTaken /\ FundingTypeOK /\ FundingSound BY DEF ExchangeConsistent
<1>4. Sound' /\ Guarantees(t) /\ LocksTaken' BY <1>1, <1>3, FundingAdvance
<1>5. FundTypes' /\ FundRowsOK' /\ FundGuarantees(t)
  BY <1>2, FundRowsSame DEF FundGuarantees
<1>6. label \in PCs \cup FundingPCs OBVIOUS
<1>7. ExchangeConsistent' BY <1>3, <1>4, <1>5, <1>6, OrderStep
<1> QED BY <1>4, <1>5, <1>7

(* No funding order is attached to an idle request. *)
LEMMA NoOrderType == NoOrder \in Order
BY DEF NoOrder, Order, Null

(* What the end of a funding request does to the orders and the shared     *)
(* rows.                                                                   *)
LEMMA FinishOrderEffect ==
  ASSUME FundingTypeOK, NEW t \in Workers, FinishOrder(t)
  PROVE  /\ OrdersKept(t) /\ order' \in [Workers -> Order]
         /\ share' \in [Users -> SUBSET Workers]
         /\ \A u \in Users : t \notin share'[u]
BY NoOrderType DEF FinishOrder, FundingTypeOK, OrdersKept

(* The commit or the rollback of a funding request. *)
LEMMA FundingCommit ==
  ASSUME ExchangeConsistent, NEW t \in Workers, FinishOrder(t), UNCHANGED betting,
         wallet' \in [Users -> Wallet],
         \A u \in Users : wallet'[u] = wallet[u] \/ walletLock[u] = t,
         FundRowsKept(t), FundTypes', FundRowsOK'
  PROVE  ExchangeConsistent' /\ Guarantees(t) /\ FundGuarantees(t)
<1>1. Sound /\ LocksTaken /\ FundingTypeOK /\ FundingSound BY DEF ExchangeConsistent
<1>2. Finish(t) /\ Goto(t, "idle") BY DEF FinishOrder, Finish, Goto
<1>3. Sound' /\ Guarantees(t) /\ LocksTaken' BY <1>1, <1>2, FundingEnd
<1>4. /\ OrdersKept(t) /\ order' \in [Workers -> Order]
      /\ share' \in [Users -> SUBSET Workers]
      /\ \A u \in Users : t \notin share'[u]
  BY <1>1, FinishOrderEffect
<1>5. FundGuarantees(t) BY <1>4 DEF FundGuarantees
<1>6. pc'[t] = "idle" BY <1>1, <1>2 DEF Goto, Sound, Typed
<1>7. OrderOK(t)' /\ FundingLocksOK(t)' BY <1>6 DEF OrderOK, FundingLocksOK, FundingPCs
<1>8. \A u \in Users : walletLock'[u] # t
  BY <1>2, <1>1, ConstantsAssumption
  DEF ConstantsAssumption, Finish, ReleaseAll, Released, Sound, Typed
<1>9. "idle" \in PCs \cup FundingPCs /\ "idle" \notin HoldPCs BY DEF PCs, HoldPCs
<1>10. ExchangeConsistent'
  BY <1>1, <1>2, <1>3, <1>4, <1>5, <1>7, <1>8, <1>9, OrderStep
<1> QED BY <1>3, <1>5, <1>10

(* A request that begins holds nothing and shares nothing. *)
LEMMA BeginStep ==
  ASSUME ExchangeConsistent, NEW t \in Workers, NEW label \in FundingPCs, NEW o \in Order,
         BeginOrder(t, label, o), LockOnly, UNCHANGED <<walletLock, share>>,
         snap' \in [Workers -> [Users -> Wallet]],
         \A p \in Workers \ {t} : snap'[p] = snap[p],
         OrderOK(t)',
         \A p \in Workers \ {t} : label \in HoldPCs /\ pc[p] \in HoldPCs =>
           o.withdrawal # order[p].withdrawal
  PROVE  ExchangeConsistent' /\ Guarantees(t) /\ FundGuarantees(t)
<1>1. pc[t] = "idle" /\ pc[t] \in PCs /\ Goto(t, label) BY DEF BeginOrder, PCs
<1>2. FundingTypeOK /\ FundingSound /\ LocksOK(t)
  BY DEF ExchangeConsistent, LocksTaken
<1>3. Free(t) BY <1>1, <1>2, FreeAt DEF WalletHolders, BetHolders
<1>4. order' \in [Workers -> Order] /\ order'[t] = o /\ OrdersKept(t)
  BY <1>2 DEF BeginOrder, FundingTypeOK, OrdersKept
<1>5. UNCHANGED <<betLock, walletLock, platformLock>> BY DEF LockOnly
<1>6. FundingLocksOK(t)' BY <1>3, <1>5 DEF FundingLocksOK, Free
<1>7. \A u \in Users : t \notin share'[u]
  BY <1>1, <1>2 DEF FundingSound, ShareOK
<1>8. \A u \in Users : walletLock'[u] # t BY <1>3, <1>5 DEF Free
<1>9. /\ walletLock' \in [Users -> Null(Workers)] /\ walletLock' = walletLock
      /\ share' \in [Users -> SUBSET Workers]
  BY <1>2, <1>5 DEF FundingTypeOK, ExchangeConsistent, Sound, Typed
<1>10. \A u \in Users : t \in share'[u] =>
         /\ label \in {"withdraw_hold", "withdraw_commit"} /\ order'[t].user = u
         /\ t \in share[u] \/ walletLock'[u] = NoOne
  BY <1>7
<1>11. \A u \in Users : walletLock'[u] = t /\ share'[u] # {} => share'[u] = {t}
  BY <1>8
<1>12. \A p \in Workers \ {t} : label \in HoldPCs /\ pc[p] \in HoldPCs =>
         order'[t].withdrawal # order[p].withdrawal
  BY <1>4
<1> QED BY <1>1, <1>4, <1>6, <1>9, <1>10, <1>11, <1>12, InsideStep

-----------------------------------------------------------------------------
(* The steps of the funding requests. *)

(* complete_deposit begins on a deposit it has seen open. *)
LEMMA CompleteDepositStep ==
  ASSUME ExchangeConsistent, NEW t \in Workers, NEW d \in Deposits,
         NEW r \in Null(References), CompleteDeposit(t, d, r)
  PROVE  ExchangeConsistent' /\ Guarantees(t) /\ FundGuarantees(t)
<1> DEFINE o == [NoOrder EXCEPT !.deposit = d, !.user = deposit[d].user_id,
                   !.amount = deposit[d].amount, !.reference = r, !.action = "complete"]
<1>1. deposit[d] \in Deposit /\ deposit[d].status # "none" /\ deposit[d].user_id \in Users
  BY DEF CompleteDeposit, COMPLETABLE_DEPOSIT, ExchangeConsistent, FundingTypeOK,
         FundingSound, DepositOK
<1>2. o \in Order BY <1>1 DEF Order, NoOrder, Null, Deposit
<1>3. BeginOrder(t, "deposit_wallet", o) BY DEF CompleteDeposit
<1>4. LockOnly /\ UNCHANGED <<walletLock, share, snap>>
  BY DEF CompleteDeposit, LockOnly, locks
<1>5. snap' \in [Workers -> [Users -> Wallet]] /\ \A p \in Workers \ {t} : snap'[p] = snap[p]
  BY <1>4 DEF ExchangeConsistent, Sound, Typed
<1>6. OrderOK(t)'
  <2>1. pc'[t] = "deposit_wallet" /\ order'[t] = o
    BY <1>3 DEF BeginOrder, Goto, ExchangeConsistent, FundingTypeOK
  <2>2. deposit' = deposit BY <1>4 DEF LockOnly
  <2>3. /\ o.deposit = d /\ o.user = deposit[d].user_id /\ o.amount = deposit[d].amount
        /\ o.action = "complete"
    BY DEF NoOrder
  <2> HIDE DEF o
  <2> QED BY <1>1, <2>1, <2>2, <2>3 DEF OrderOK, CompletionOK
<1> QED
  <2> HIDE DEF o
  <2> QED BY <1>2, <1>3, <1>4, <1>5, <1>6, BeginStep DEF FundingPCs, HoldPCs

(* fail_deposit begins. *)
LEMMA FailDepositStep ==
  ASSUME ExchangeConsistent, NEW t \in Workers, NEW d \in Deposits, FailDeposit(t, d)
  PROVE  ExchangeConsistent' /\ Guarantees(t) /\ FundGuarantees(t)
<1> DEFINE o == [NoOrder EXCEPT !.deposit = d, !.user = deposit[d].user_id, !.action = "fail"]
<1>1. deposit[d] \in Deposit /\ deposit[d].status # "none" /\ deposit[d].user_id \in Users
  BY DEF FailDeposit, COMPLETABLE_DEPOSIT, ExchangeConsistent, FundingTypeOK,
         FundingSound, DepositOK
<1>2. o \in Order BY <1>1 DEF Order, NoOrder, Null, Deposit
<1>3. BeginOrder(t, "deposit_commit", o) BY DEF FailDeposit
<1>4. LockOnly /\ UNCHANGED <<walletLock, share, snap>>
  BY DEF FailDeposit, LockOnly, locks
<1>5. snap' \in [Workers -> [Users -> Wallet]] /\ \A p \in Workers \ {t} : snap'[p] = snap[p]
  BY <1>4 DEF ExchangeConsistent, Sound, Typed
<1>6. OrderOK(t)'
  <2>1. pc'[t] = "deposit_commit" /\ order'[t] = o
    BY <1>3 DEF BeginOrder, Goto, ExchangeConsistent, FundingTypeOK
  <2>2. deposit' = deposit BY <1>4 DEF LockOnly
  <2>3. o.deposit = d /\ o.action = "fail" BY DEF NoOrder
  <2> HIDE DEF o
  <2> QED BY <1>1, <2>1, <2>2, <2>3 DEF OrderOK, CompletionOK
<1> QED
  <2> HIDE DEF o
  <2> QED BY <1>2, <1>3, <1>4, <1>5, <1>6, BeginStep DEF FundingPCs, HoldPCs

(* approve_withdrawal begins. *)
LEMMA ApproveStep ==
  ASSUME ExchangeConsistent, NEW t \in Workers, NEW w \in Withdrawals, ApproveWithdrawal(t, w)
  PROVE  ExchangeConsistent' /\ Guarantees(t) /\ FundGuarantees(t)
<1> DEFINE o == [NoOrder EXCEPT !.withdrawal = w]
<1>1. withdrawal[w].status # "none" BY DEF ApproveWithdrawal, APPROVABLE
<1>2. o \in Order BY DEF Order, NoOrder, Null
<1>3. BeginOrder(t, "approve_commit", o) BY DEF ApproveWithdrawal
<1>4. LockOnly /\ UNCHANGED <<walletLock, share, snap>>
  BY DEF ApproveWithdrawal, LockOnly, locks
<1>5. snap' \in [Workers -> [Users -> Wallet]] /\ \A p \in Workers \ {t} : snap'[p] = snap[p]
  BY <1>4 DEF ExchangeConsistent, Sound, Typed
<1>6. OrderOK(t)'
  <2>1. pc'[t] = "approve_commit" /\ order'[t] = o
    BY <1>3 DEF BeginOrder, Goto, ExchangeConsistent, FundingTypeOK
  <2>2. withdrawal' = withdrawal BY <1>4 DEF LockOnly
  <2>3. o.withdrawal = w BY DEF NoOrder
  <2> HIDE DEF o
  <2> QED BY <1>1, <2>1, <2>2, <2>3 DEF OrderOK
<1> QED
  <2> HIDE DEF o
  <2> QED BY <1>2, <1>3, <1>4, <1>5, <1>6, BeginStep DEF FundingPCs, HoldPCs

(* complete_, reject_ and fail_withdrawal begin: only an approved request  *)
(* can be completed, and an approval is never taken back.                  *)
LEMMA EndWithdrawalStep ==
  ASSUME ExchangeConsistent, NEW t \in Workers, NEW w \in Withdrawals,
         NEW a \in DOMAIN Sources, EndWithdrawal(t, w, a)
  PROVE  ExchangeConsistent' /\ Guarantees(t) /\ FundGuarantees(t)
<1> DEFINE o == [NoOrder EXCEPT !.withdrawal = w, !.user = withdrawal[w].user_id,
                   !.amount = withdrawal[w].amount, !.action = a]
<1>1. a \in {"complete", "reject", "fail"} BY DEF Sources
<1>2. /\ withdrawal[w] \in Withdrawal /\ withdrawal[w].status # "none"
      /\ a = "complete" => withdrawal[w].status \in {"approved", "processing"}
  BY <1>1 DEF EndWithdrawal, Sources, ExchangeConsistent, FundingTypeOK
<1>3. withdrawal[w].user_id \in Users /\ (a = "complete" => withdrawal[w].approved)
  BY <1>2 DEF ExchangeConsistent, FundingSound, WithdrawalOK
<1>4. o \in Order BY <1>1, <1>2, <1>3 DEF Order, NoOrder, Null, Withdrawal
<1>5. BeginOrder(t, "withdraw_wallet", o) BY DEF EndWithdrawal
<1>6. LockOnly /\ UNCHANGED <<walletLock, share, snap>>
  BY DEF EndWithdrawal, LockOnly, locks
<1>7. snap' \in [Workers -> [Users -> Wallet]] /\ \A p \in Workers \ {t} : snap'[p] = snap[p]
  BY <1>6 DEF ExchangeConsistent, Sound, Typed
<1>8. OrderOK(t)'
  <2>1. pc'[t] = "withdraw_wallet" /\ order'[t] = o
    BY <1>5 DEF BeginOrder, Goto, ExchangeConsistent, FundingTypeOK
  <2>2. withdrawal' = withdrawal BY <1>6 DEF LockOnly
  <2>3. /\ o.withdrawal = w /\ o.user = withdrawal[w].user_id
        /\ o.amount = withdrawal[w].amount /\ o.action = a
    BY DEF NoOrder
  <2> HIDE DEF o
  <2> QED BY <1>1, <1>2, <1>3, <2>1, <2>2, <2>3 DEF OrderOK, EndOK
<1> QED
  <2> HIDE DEF o
  <2> QED BY <1>4, <1>5, <1>6, <1>7, <1>8, BeginStep DEF FundingPCs, HoldPCs

(* create_withdrawal begins: the id is new, and nobody else uses it. *)
LEMMA CreateWithdrawalStep ==
  ASSUME ExchangeConsistent, NEW t \in Workers, NEW u \in Users, NEW w \in Withdrawals,
         NEW a \in WithdrawalInputs, CreateWithdrawal(t, u, w, a)
  PROVE  ExchangeConsistent' /\ Guarantees(t) /\ FundGuarantees(t)
<1> DEFINE o == [NoOrder EXCEPT !.withdrawal = w, !.user = u, !.amount = Stored(a),
                                !.asked = a, !.action = "create"]
<1>1. a \in Nat /\ Stored(a) \in Nat
  BY FundingAssumption, StoredAmount DEF FundingAssumption
<1>2. o \in Order BY <1>1 DEF Order, NoOrder, Null
<1>3. BeginOrder(t, "withdraw_insert", o) BY DEF CreateWithdrawal
<1>4. LockOnly /\ UNCHANGED <<walletLock, share>>
  BY DEF CreateWithdrawal, LockOnly, locks
<1>5. snap' \in [Workers -> [Users -> Wallet]] /\ \A p \in Workers \ {t} : snap'[p] = snap[p]
  BY DEF CreateWithdrawal, ExchangeConsistent, Sound, Typed
<1>6. OrderOK(t)'
  <2>1. pc'[t] = "withdraw_insert" /\ order'[t] = o
    BY <1>3 DEF BeginOrder, Goto, ExchangeConsistent, FundingTypeOK
  <2>2. withdrawal' = withdrawal /\ withdrawal[w].status = "none"
    BY <1>4 DEF LockOnly, CreateWithdrawal
  <2>3. /\ o.withdrawal = w /\ o.user = u /\ o.action = "create"
        /\ o.amount = Stored(o.asked)
    BY DEF NoOrder
  <2> HIDE DEF o
  <2> QED BY <2>1, <2>2, <2>3 DEF OrderOK, HoldOK
<1>7. ASSUME NEW p \in Workers \ {t}, pc[p] \in HoldPCs
      PROVE  o.withdrawal # order[p].withdrawal
  <2>1. HoldOK(p) BY <1>7 DEF ExchangeConsistent, FundingSound, OrderOK, HoldPCs
  <2>2. o.withdrawal = w BY DEF NoOrder
  <2> QED BY <2>1, <2>2 DEF HoldOK, CreateWithdrawal
<1> QED
  <2> HIDE DEF o
  <2> QED BY <1>2, <1>3, <1>4, <1>5, <1>6, <1>7, BeginStep DEF FundingPCs

(* A request locks and loads the wallet of its order. *)
LEMMA OrderLockStep ==
  ASSUME ExchangeConsistent, NEW t \in Workers, NEW u \in Users, pc[t] \in FundingPCs,
         NEW label \in {"deposit_commit", "withdraw_end"}, LockWallet(t, u),
         Goto(t, label), UNCHANGED <<order, share>>, LockOnly,
         pc[t] \notin {"deposit_commit", "withdraw_commit", "withdraw_end", "withdraw_hold"},
         OrderOK(t)'
  PROVE  ExchangeConsistent' /\ Guarantees(t) /\ FundGuarantees(t)
<1>1. FundingTypeOK /\ FundingSound /\ Typed BY DEF ExchangeConsistent, Sound
<1>2. get_by_user_id_for_update(t, u) /\ share[u] \subseteq {t} BY DEF LockWallet
<1>3. snap' \in [Workers -> [Users -> Wallet]] /\ \A p \in Workers \ {t} : snap'[p] = snap[p]
  BY <1>1, <1>2 DEF get_by_user_id_for_update, Typed
<1>4. /\ walletLock' \in [Users -> Null(Workers)]
      /\ walletLock[u] = NoOne /\ walletLock'[u] = t
      /\ \A v \in Users \ {u} : walletLock'[v] = walletLock[v]
  BY <1>1, <1>2 DEF get_by_user_id_for_update, Typed, Null
<1>5. FundingLocksOK(t) BY <1>1 DEF FundingSound
<1>6. \A v \in Users : walletLock[v] # t BY <1>5 DEF FundingLocksOK
<1>7. betLock' = betLock /\ platformLock' = platformLock BY DEF LockOnly
<1>8. pc'[t] = label /\ label \in FundingPCs BY <1>1 DEF Goto, Typed, FundingPCs
<1>9. FundingLocksOK(t)' BY <1>5, <1>7, <1>8 DEF FundingLocksOK
<1>10. order' \in [Workers -> Order] /\ share' \in [Users -> SUBSET Workers] /\ OrdersKept(t)
  BY <1>1 DEF FundingTypeOK, OrdersKept
<1>11. \A v \in Users : t \notin share'[v]
  BY <1>1 DEF FundingSound, ShareOK
<1>12. \A v \in Users : walletLock'[v] = t /\ share'[v] # {} => share'[v] = {t}
  BY <1>2, <1>4, <1>6
<1>13. label \notin HoldPCs BY DEF HoldPCs
<1> QED BY <1>3, <1>4, <1>8, <1>9, <1>10, <1>11, <1>12, <1>13, InsideStep

(* credit_deposit: the wallet is locked and what it holds is loaded. *)
LEMMA CreditDepositStep ==
  ASSUME ExchangeConsistent, NEW t \in Workers, CreditDeposit(t)
  PROVE  ExchangeConsistent' /\ Guarantees(t) /\ FundGuarantees(t)
<1> DEFINE u == order[t].user
<1>1. pc[t] = "deposit_wallet" /\ OrderOK(t) /\ Typed
  BY DEF CreditDeposit, ExchangeConsistent, FundingSound, Sound
<1>2. order[t].action = "complete" /\ CompletionOK(t) BY <1>1 DEF OrderOK
<1>3. u \in Users BY <1>2 DEF CompletionOK
<1>4. HoldsFresh(t, u)'
  <2>1. wallet' = wallet /\ order' = order BY DEF CreditDeposit, LockOnly
  <2> QED BY <1>1, <1>3, <2>1, LoadedWallet DEF CreditDeposit, LockWallet, HoldsFresh
<1>5. OrderOK(t)'
  <2>1. pc'[t] = "deposit_commit" /\ order' = order /\ deposit' = deposit
    BY <1>1 DEF CreditDeposit, LockOnly, Goto, Typed
  <2> QED BY <1>1, <1>2, <1>4, <2>1 DEF OrderOK, CompletionOK
<1> QED BY <1>1, <1>3, <1>5, OrderLockStep DEF CreditDeposit, FundingPCs

(* The end of a withdrawal locks the wallet, which covers the hold. *)
LEMMA EndLockStep ==
  ASSUME ExchangeConsistent, NEW t \in Workers, EndLock(t)
  PROVE  ExchangeConsistent' /\ Guarantees(t) /\ FundGuarantees(t)
<1> DEFINE u == order[t].user
<1>1. pc[t] = "withdraw_wallet" /\ OrderOK(t) /\ Typed
  BY DEF EndLock, ExchangeConsistent, FundingSound, Sound
<1>2. EndOK(t) BY <1>1 DEF OrderOK
<1>3. u \in Users BY <1>2 DEF EndOK
<1>4. HoldsFresh(t, u)'
  <2>1. wallet' = wallet /\ order' = order BY DEF EndLock, LockOnly
  <2> QED BY <1>1, <1>3, <2>1, LoadedWallet DEF EndLock, LockWallet, HoldsFresh
<1>5. OrderOK(t)'
  <2>1. /\ pc'[t] = "withdraw_end" /\ order' = order /\ withdrawal' = withdrawal
        /\ wallet' = wallet /\ wallet[u].locked >= order[t].amount
    BY <1>1 DEF EndLock, LockOnly, Goto, Typed
  <2> QED BY <1>1, <1>2, <1>4, <2>1 DEF OrderOK, EndOK
<1> QED BY <1>1, <1>3, <1>5, OrderLockStep DEF EndLock, FundingPCs

(* The INSERT of a withdrawal shares a wallet nobody has locked. *)
LEMMA InsertStep ==
  ASSUME ExchangeConsistent, NEW t \in Workers, InsertWithdrawal(t)
  PROVE  ExchangeConsistent' /\ Guarantees(t) /\ FundGuarantees(t)
<1> DEFINE u == order[t].user
<1>1. /\ pc[t] = "withdraw_insert" /\ OrderOK(t) /\ FundingLocksOK(t)
      /\ Typed /\ FundingTypeOK /\ FundingSound
  BY DEF InsertWithdrawal, ExchangeConsistent, FundingSound, Sound
<1>2. HoldOK(t) BY <1>1 DEF OrderOK
<1>3. u \in Users BY <1>2 DEF HoldOK
<1>4. /\ walletLock[u] = NoOne /\ share' = [share EXCEPT ![u] = @ \cup {t}]
      /\ walletLock' = walletLock /\ snap' = snap /\ order' = order
      /\ withdrawal' = withdrawal /\ betLock' = betLock /\ platformLock' = platformLock
  BY DEF InsertWithdrawal, LockOnly
<1>5. Goto(t, "withdraw_hold") /\ LockOnly BY DEF InsertWithdrawal
<1>6. pc'[t] = "withdraw_hold" BY <1>1, <1>5 DEF Goto, Typed
<1>7. share' \in [Users -> SUBSET Workers] /\ t \in share'[u] /\ OrdersKept(t)
  BY <1>1, <1>3, <1>4 DEF FundingTypeOK, OrdersKept
<1>8. OrderOK(t)' BY <1>2, <1>4, <1>6, <1>7 DEF OrderOK, HoldOK
<1>9. \A v \in Users : walletLock[v] # t
  BY <1>1 DEF FundingLocksOK, FundingPCs
<1>10. FundingLocksOK(t)' BY <1>1, <1>4, <1>9 DEF FundingLocksOK, FundingPCs
<1>11. ASSUME NEW v \in Users, t \in share'[v] PROVE v = u
  <2>1. t \in share[v] => pc[t] \in {"withdraw_hold", "withdraw_commit"}
    BY <1>1 DEF FundingSound, ShareOK
  <2> QED BY <1>1, <1>4, <1>11, <2>1 DEF FundingTypeOK
<1>12. \A p \in Workers \ {t} : pc[p] \in HoldPCs => order[t].withdrawal # order[p].withdrawal
  BY <1>1 DEF FundingSound, HoldsDistinct, HoldPCs
<1>13. /\ snap' \in [Workers -> [Users -> Wallet]] /\ walletLock' \in [Users -> Null(Workers)]
       /\ order' \in [Workers -> Order] /\ "withdraw_hold" \in FundingPCs
  BY <1>1, <1>4 DEF Typed, FundingTypeOK, FundingPCs
<1> QED
  BY <1>4, <1>5, <1>7, <1>8, <1>9, <1>10, <1>11, <1>12, <1>13, InsideStep

(* hold_withdrawal locks the wallet it is the only one to share. *)
LEMMA HoldStep ==
  ASSUME ExchangeConsistent, NEW t \in Workers, HoldWithdrawal(t)
  PROVE  ExchangeConsistent' /\ Guarantees(t) /\ FundGuarantees(t)
<1> DEFINE u == order[t].user
<1>1. /\ pc[t] = "withdraw_hold" /\ OrderOK(t) /\ FundingLocksOK(t)
      /\ Typed /\ FundingTypeOK /\ FundingSound
  BY DEF HoldWithdrawal, ExchangeConsistent, FundingSound, Sound
<1>2. HoldOK(t) BY <1>1 DEF OrderOK
<1>3. u \in Users BY <1>2 DEF HoldOK
<1>4. /\ walletLock[u] = NoOne /\ share[u] = {t}
      /\ Mills(snap[t][u].available) >= order[t].asked
      /\ walletLock' = [walletLock EXCEPT ![u] = t]
      /\ share' = share /\ snap' = snap /\ order' = order
      /\ withdrawal' = withdrawal /\ betLock' = betLock /\ platformLock' = platformLock
  BY DEF HoldWithdrawal, LockOnly
<1>5. Goto(t, "withdraw_commit") /\ LockOnly BY DEF HoldWithdrawal
<1>6. pc'[t] = "withdraw_commit" BY <1>1, <1>5 DEF Goto, Typed
<1>7. walletLock' \in [Users -> Null(Workers)] /\ walletLock'[u] = t
  BY <1>1, <1>3, <1>4 DEF Typed, Null
<1>8. OrderOK(t)' BY <1>2, <1>4, <1>6, <1>7 DEF OrderOK, HoldOK
<1>9. \A v \in Users : walletLock[v] # t
  BY <1>1 DEF FundingLocksOK, FundingPCs
<1>10. FundingLocksOK(t)' BY <1>1, <1>4, <1>6 DEF FundingLocksOK, FundingPCs
<1>11. \A v \in Users : t \in share[v] => v = u
  BY <1>1 DEF FundingSound, ShareOK
<1>12. \A p \in Workers \ {t} : pc[p] \in HoldPCs => order[t].withdrawal # order[p].withdrawal
  BY <1>1 DEF FundingSound, HoldsDistinct, HoldPCs
<1>13. /\ snap' \in [Workers -> [Users -> Wallet]] /\ share' \in [Users -> SUBSET Workers]
       /\ order' \in [Workers -> Order] /\ "withdraw_commit" \in FundingPCs /\ OrdersKept(t)
  BY <1>1, <1>4 DEF Typed, FundingTypeOK, FundingPCs, OrdersKept
<1>14. \A v \in Users : v # u => walletLock'[v] = walletLock[v]
  BY <1>1, <1>4 DEF Typed
<1>15. \A v \in Users : walletLock'[v] = t /\ share'[v] # {} => share'[v] = {t}
  BY <1>4, <1>9, <1>14
<1> QED
  BY <1>4, <1>5, <1>7, <1>8, <1>10, <1>11, <1>12, <1>13, <1>14, <1>15, InsideStep

(* A funding request that gives up leaves every row as it is. *)
LEMMA RefusedStep ==
  ASSUME ExchangeConsistent, NEW t \in Workers,
         CompleteDepositRefused(t) \/ HoldRefused(t) \/ EndRefused(t)
  PROVE  ExchangeConsistent' /\ Guarantees(t) /\ FundGuarantees(t)
<1>1. /\ FinishOrder(t) /\ UNCHANGED betting /\ wallet' = wallet
      /\ UNCHANGED <<deposit, withdrawal, payment, credits, moves>>
  BY DEF CompleteDepositRefused, HoldRefused, EndRefused
<1>2. wallet' \in [Users -> Wallet] BY <1>1 DEF ExchangeConsistent, Sound, Typed
<1> QED BY <1>1, <1>2, FundRowsSame, FundingCommit

(* The commit of complete_deposit: whatever became of the row meanwhile,   *)
(* it is credited when it is completed.                                    *)
LEMMA CompleteDepositCommitStep ==
  ASSUME ExchangeConsistent, NEW t \in Workers, CompleteDepositCommit(t)
  PROVE  ExchangeConsistent' /\ Guarantees(t) /\ FundGuarantees(t)
<1> DEFINE o == order[t]
           e == o.deposit
           u == o.user
<1>1. FundingTypeOK /\ FundingSound /\ Typed BY DEF ExchangeConsistent, Sound
<1>2. CompletionOK(t) /\ pc[t] = "deposit_commit"
  BY <1>1 DEF CompleteDepositCommit, FundingSound, OrderOK
<1>3. /\ e \in Deposits /\ u \in Users /\ deposit[e].status # "none"
      /\ walletLock[u] = t /\ o.amount = deposit[e].amount
  BY <1>2 DEF CompletionOK, HoldsFresh
<1>4. /\ wallet' = [wallet EXCEPT ![u].available = snap[t][u].available + o.amount]
      /\ credits' = [credits EXCEPT ![e] = @ + o.amount]
      /\ deposit' = [deposit EXCEPT ![e].status = "completed",
                       ![e].provider_reference =
                          IF o.reference = NoOne THEN @ ELSE o.reference]
      /\ FinishOrder(t)
      /\ UNCHANGED <<betting, withdrawal, payment, moves>>
  BY DEF CompleteDepositCommit
<1>5. o \in Order /\ o.amount \in Nat /\ o.reference \in Null(References)
  BY <1>1 DEF FundingTypeOK, Order
<1>6. wallet' \in [Users -> Wallet] /\ \A v \in Users : wallet'[v] = wallet[v] \/ walletLock[v] = t
  <2>1. snap[t][u] \in Wallet BY <1>1, <1>3 DEF Typed
  <2>2. snap[t][u].available + o.amount \in Nat BY <1>5, <2>1 DEF Wallet
  <2> QED BY <1>1, <1>3, <1>4, <2>2 DEF Typed, Wallet
<1>7. /\ deposit'[e] = [deposit[e] EXCEPT !.status = "completed",
                          !.provider_reference = IF o.reference = NoOne THEN @ ELSE o.reference]
      /\ \A d \in Deposits \ {e} : deposit'[d] = deposit[d]
  BY <1>1, <1>3, <1>4 DEF FundingTypeOK
<1>8. /\ deposit'[e].status = "completed" /\ deposit'[e].user_id = deposit[e].user_id
      /\ deposit'[e].amount = deposit[e].amount
  <2>1. deposit[e] \in Deposit BY <1>1, <1>3 DEF FundingTypeOK
  <2> QED BY <1>7, <2>1 DEF Deposit
<1>9. FundRowsKept(t) BY <1>4, <1>7, <1>8 DEF FundRowsKept
<1>10. credits'[e] = credits[e] + o.amount /\ \A d \in Deposits \ {e} : credits'[d] = credits[d]
  BY <1>1, <1>3, <1>4 DEF FundingTypeOK
<1>11. FundTypes'
  <2>1. deposit'[e] \in Deposit
    <3>1. deposit[e] \in Deposit BY <1>1, <1>3 DEF FundingTypeOK
    <3> QED BY <1>5, <1>7, <3>1 DEF Deposit, DepositStatus
  <2>2. deposit' \in [Deposits -> Deposit] BY <1>1, <1>3, <1>4, <1>7, <2>1 DEF FundingTypeOK
  <2>3. credits' \in [Deposits -> Nat] BY <1>1, <1>3, <1>4, <1>5 DEF FundingTypeOK
  <2> QED BY <1>1, <1>4, <2>2, <2>3 DEF FundTypes, FundingTypeOK
<1>12. \A d \in Deposits : DepositOK(d)'
  BY <1>1, <1>3, <1>7, <1>8, <1>10 DEF FundingSound, DepositOK
<1>13. CompletedIsCredited'
  <2>1. credits[e] \in Nat BY <1>1, <1>3 DEF FundingTypeOK
  <2>2. credits'[e] >= deposit'[e].amount BY <1>3, <1>5, <1>8, <1>10, <2>1
  <2> QED BY <1>7, <1>8, <1>10, <2>2
    DEF ExchangeConsistent, CompletedIsCredited, COMPLETABLE_DEPOSIT
<1>14. OnlyApprovedPaid' /\ \A w \in Withdrawals : WithdrawalOK(w)'
  BY <1>4 DEF ExchangeConsistent, FundingSound, OnlyApprovedPaid, WithdrawalOK
<1> QED BY <1>4, <1>6, <1>9, <1>11, <1>12, <1>13, <1>14, FundingCommit DEF FundRowsOK

(* The commit of fail_deposit. *)
LEMMA FailDepositCommitStep ==
  ASSUME ExchangeConsistent, NEW t \in Workers, FailDepositCommit(t)
  PROVE  ExchangeConsistent' /\ Guarantees(t) /\ FundGuarantees(t)
<1> DEFINE e == order[t].deposit
<1>1. FundingTypeOK /\ FundingSound /\ Typed BY DEF ExchangeConsistent, Sound
<1>2. e \in Deposits /\ deposit[e].status # "none"
  BY <1>1 DEF FailDepositCommit, FundingSound, OrderOK
<1>3. /\ deposit' = [deposit EXCEPT ![e].status = "failed"] /\ FinishOrder(t)
      /\ UNCHANGED <<betting, wallet, withdrawal, payment, credits, moves>>
  BY DEF FailDepositCommit
<1>4. wallet' \in [Users -> Wallet] BY <1>1, <1>3 DEF Typed
<1>5. /\ deposit'[e] = [deposit[e] EXCEPT !.status = "failed"]
      /\ \A d \in Deposits \ {e} : deposit'[d] = deposit[d]
  BY <1>1, <1>2, <1>3 DEF FundingTypeOK
<1>6. /\ deposit'[e].status = "failed" /\ deposit'[e].user_id = deposit[e].user_id
      /\ deposit'[e].amount = deposit[e].amount
  <2>1. deposit[e] \in Deposit BY <1>1, <1>2 DEF FundingTypeOK
  <2> QED BY <1>5, <2>1 DEF Deposit
<1>7. FundRowsKept(t) BY <1>3, <1>5, <1>6 DEF FundRowsKept
<1>8. FundTypes'
  <2>1. deposit' \in [Deposits -> Deposit]
    BY <1>1, <1>2, <1>3 DEF FundingTypeOK, Deposit, DepositStatus
  <2> QED BY <1>1, <1>3, <2>1 DEF FundTypes, FundingTypeOK
<1>9. \A d \in Deposits : DepositOK(d)'
  BY <1>1, <1>2, <1>3, <1>5, <1>6 DEF FundingSound, DepositOK
<1>10. CompletedIsCredited'
  BY <1>3, <1>5, <1>6 DEF ExchangeConsistent, CompletedIsCredited, COMPLETABLE_DEPOSIT
<1>11. OnlyApprovedPaid' /\ \A w \in Withdrawals : WithdrawalOK(w)'
  BY <1>3 DEF ExchangeConsistent, FundingSound, OnlyApprovedPaid, WithdrawalOK
<1> QED BY <1>3, <1>4, <1>7, <1>8, <1>9, <1>10, <1>11, FundingCommit DEF FundRowsOK

(* The commit of approve_withdrawal, over whatever status the row has. *)
LEMMA ApproveCommitStep ==
  ASSUME ExchangeConsistent, NEW t \in Workers, ApproveCommit(t)
  PROVE  ExchangeConsistent' /\ Guarantees(t) /\ FundGuarantees(t)
<1> DEFINE e == order[t].withdrawal
<1>1. FundingTypeOK /\ FundingSound /\ Typed BY DEF ExchangeConsistent, Sound
<1>2. e \in Withdrawals /\ withdrawal[e].status # "none" /\ pc[t] = "approve_commit"
  BY <1>1 DEF ApproveCommit, FundingSound, OrderOK
<1>3. /\ withdrawal' = [withdrawal EXCEPT ![e].status = "approved", ![e].approved = TRUE]
      /\ FinishOrder(t)
      /\ UNCHANGED <<betting, wallet, deposit, payment, credits, moves>>
  BY DEF ApproveCommit
<1>4. wallet' \in [Users -> Wallet] BY <1>1, <1>3 DEF Typed
<1>5. /\ withdrawal'[e] = [withdrawal[e] EXCEPT !.status = "approved", !.approved = TRUE]
      /\ \A w \in Withdrawals \ {e} : withdrawal'[w] = withdrawal[w]
  BY <1>1, <1>2, <1>3 DEF FundingTypeOK
<1>6. /\ withdrawal'[e].status = "approved" /\ withdrawal'[e].user_id = withdrawal[e].user_id
      /\ withdrawal'[e].amount = withdrawal[e].amount /\ withdrawal'[e].approved = TRUE
  <2>1. withdrawal[e] \in Withdrawal BY <1>1, <1>2 DEF FundingTypeOK
  <2> QED BY <1>5, <2>1 DEF Withdrawal
<1>7. FundRowsKept(t) BY <1>2, <1>3, <1>5, <1>6 DEF FundRowsKept
<1>8. FundTypes'
  <2>1. withdrawal' \in [Withdrawals -> Withdrawal]
    BY <1>1, <1>2, <1>3 DEF FundingTypeOK, Withdrawal, WithdrawalStatus
  <2> QED BY <1>1, <1>3, <2>1 DEF FundTypes, FundingTypeOK
<1>9. \A w \in Withdrawals : WithdrawalOK(w)'
  BY <1>1, <1>2, <1>3, <1>5, <1>6 DEF FundingSound, WithdrawalOK
<1>10. OnlyApprovedPaid' BY <1>3, <1>5, <1>6 DEF ExchangeConsistent, OnlyApprovedPaid
<1>11. CompletedIsCredited' /\ \A d \in Deposits : DepositOK(d)'
  BY <1>3 DEF ExchangeConsistent, FundingSound, CompletedIsCredited, DepositOK
<1> QED BY <1>3, <1>4, <1>7, <1>8, <1>9, <1>10, <1>11, FundingCommit DEF FundRowsOK

(* An entry of a withdrawal is written. *)
LEMMA WriteWithdrawal ==
  ASSUME FundingTypeOK, NEW w \in Withdrawals, NEW e \in WithdrawalEntries, NEW a \in Nat,
         moves' = write_withdrawal(w, e, a)
  PROVE  /\ moves' \in [Withdrawals -> [WithdrawalEntries -> Nat]]
         /\ moves'[w][e] = moves[w][e] + a
         /\ \A x \in Withdrawals, k \in WithdrawalEntries :
              x # w \/ k # e => moves'[x][k] = moves[x][k]
BY DEF FundingTypeOK, write_withdrawal

(* The commit of create_withdrawal: the row is new and not approved. *)
LEMMA CreateWithdrawalCommitStep ==
  ASSUME ExchangeConsistent, NEW t \in Workers, CreateWithdrawalCommit(t)
  PROVE  ExchangeConsistent' /\ Guarantees(t) /\ FundGuarantees(t)
<1> DEFINE o == order[t]
           e == o.withdrawal
           u == o.user
<1>1. FundingTypeOK /\ FundingSound /\ Typed BY DEF ExchangeConsistent, Sound
<1>2. HoldOK(t) /\ pc[t] = "withdraw_commit"
  BY <1>1 DEF CreateWithdrawalCommit, FundingSound, OrderOK
<1>3. /\ e \in Withdrawals /\ withdrawal[e].status = "none" /\ u \in Users
      /\ walletLock[u] = t /\ Mills(snap[t][u].available) >= o.asked
  BY <1>2 DEF HoldOK
<1>4. /\ withdrawal' = [withdrawal EXCEPT ![e] =
                          [NoWithdrawal EXCEPT !.status = "pending", !.user_id = u,
                                               !.amount = o.amount, !.asked = o.asked]]
      /\ wallet' = [wallet EXCEPT ![u] = hold_withdrawal(snap[t][u], o.asked)]
      /\ moves' = write_withdrawal(e, "WITHDRAWAL_HOLD", o.amount)
      /\ FinishOrder(t)
      /\ UNCHANGED <<betting, deposit, payment, credits>>
  BY DEF CreateWithdrawalCommit
<1>5. o.amount \in Nat /\ o.asked \in Nat BY <1>1 DEF FundingTypeOK, Order
<1>6. wallet' \in [Users -> Wallet] /\ \A v \in Users : wallet'[v] = wallet[v] \/ walletLock[v] = t
  <2>1. snap[t][u].available \in Nat /\ snap[t][u].locked \in Nat
    BY <1>1, <1>3 DEF Typed, Wallet
  <2>2. hold_withdrawal(snap[t][u], o.asked) \in Wallet
    BY <1>3, <1>5, <2>1, RoundedApart DEF Wallet, hold_withdrawal
  <2> QED BY <1>1, <1>3, <1>4, <2>2 DEF Typed
<1> DEFINE r == [NoWithdrawal EXCEPT !.status = "pending", !.user_id = u,
                                       !.amount = o.amount, !.asked = o.asked]
<1>7. withdrawal'[e] = r /\ \A w \in Withdrawals \ {e} : withdrawal'[w] = withdrawal[w]
  BY <1>1, <1>3, <1>4 DEF FundingTypeOK
<1>8. r.status = "pending" /\ r.user_id = u /\ r.approved = FALSE /\ r \in Withdrawal
  BY <1>3, <1>5 DEF NoWithdrawal, Withdrawal, WithdrawalStatus, Null
<1> HIDE DEF r
<1>9. FundRowsKept(t) BY <1>2, <1>3, <1>4, <1>7 DEF FundRowsKept, HoldPCs
<1>10. /\ moves' \in [Withdrawals -> [WithdrawalEntries -> Nat]]
       /\ \A w \in Withdrawals, x \in WithdrawalEntries :
            w # e \/ x # "WITHDRAWAL_HOLD" => moves'[w][x] = moves[w][x]
       /\ \A w \in Withdrawals : moves'[w]["WITHDRAWAL"] = moves[w]["WITHDRAWAL"]
  <2>1. "WITHDRAWAL_HOLD" \in WithdrawalEntries /\ "WITHDRAWAL" \in WithdrawalEntries
    BY DEF WithdrawalEntries
  <2> HIDE DEF e, o
  <2> QED BY <1>1, <1>3, <1>4, <1>5, <2>1, WriteWithdrawal
<1>11. FundTypes'
  <2>1. withdrawal' \in [Withdrawals -> Withdrawal]
    BY <1>1, <1>3, <1>4, <1>7, <1>8 DEF FundingTypeOK
  <2> QED BY <1>1, <1>4, <1>10, <2>1 DEF FundTypes, FundingTypeOK
<1>12. \A w \in Withdrawals : WithdrawalOK(w)'
  BY <1>1, <1>3, <1>7, <1>8, <1>10 DEF FundingSound, WithdrawalOK
<1>13. OnlyApprovedPaid'
  <2>1. withdrawal[e] = NoWithdrawal BY <1>1, <1>3 DEF FundingSound, WithdrawalOK
  <2>2. ~(moves[e]["WITHDRAWAL"] > 0)
    BY <1>3, <2>1 DEF ExchangeConsistent, OnlyApprovedPaid, NoWithdrawal
  <2> QED BY <1>7, <1>10, <2>2 DEF ExchangeConsistent, OnlyApprovedPaid
<1>14. CompletedIsCredited' /\ \A d \in Deposits : DepositOK(d)'
  BY <1>4 DEF ExchangeConsistent, FundingSound, CompletedIsCredited, DepositOK
<1> QED BY <1>4, <1>6, <1>9, <1>11, <1>12, <1>13, <1>14, FundingCommit DEF FundRowsOK

(* The commit that ends a withdrawal: it pays only what was approved. *)
LEMMA EndCommitStep ==
  ASSUME ExchangeConsistent, NEW t \in Workers, EndCommit(t)
  PROVE  ExchangeConsistent' /\ Guarantees(t) /\ FundGuarantees(t)
<1> DEFINE o == order[t]
           e == o.withdrawal
           u == o.user
           paid == o.action = "complete"
           k == IF paid THEN "WITHDRAWAL" ELSE "WITHDRAWAL_RELEASE"
           n == IF paid THEN finalize_withdrawal_debit(snap[t][u], o.amount)
                        ELSE release_withdrawal_hold(snap[t][u], o.amount)
<1>1. FundingTypeOK /\ FundingSound /\ Typed BY DEF ExchangeConsistent, Sound
<1>2. EndOK(t) /\ pc[t] = "withdraw_end" BY <1>1 DEF EndCommit, FundingSound, OrderOK
<1>3. /\ e \in Withdrawals /\ withdrawal[e].status # "none" /\ u \in Users
      /\ o.action \in {"complete", "reject", "fail"} /\ (paid => withdrawal[e].approved)
      /\ walletLock[u] = t /\ snap[t][u] = wallet[u] /\ wallet[u].locked >= o.amount
  BY <1>2 DEF EndOK, HoldsFresh
<1>4. /\ wallet' = [wallet EXCEPT ![u] = n]
      /\ moves' = write_withdrawal(e, k, o.amount)
      /\ withdrawal' = [withdrawal EXCEPT ![e].status = Ended[o.action]]
      /\ FinishOrder(t)
      /\ UNCHANGED <<betting, deposit, payment, credits>>
  BY DEF EndCommit
<1>5. o.amount \in Nat BY <1>1 DEF FundingTypeOK, Order
<1>6. wallet' \in [Users -> Wallet] /\ \A v \in Users : wallet'[v] = wallet[v] \/ walletLock[v] = t
  <2>1. snap[t][u] \in Wallet BY <1>1, <1>3 DEF Typed
  <2>2. /\ finalize_withdrawal_debit(snap[t][u], o.amount) \in Wallet
        /\ release_withdrawal_hold(snap[t][u], o.amount) \in Wallet
    BY <1>3, <1>5, <2>1 DEF Wallet, finalize_withdrawal_debit, release_withdrawal_hold
  <2>3. n \in Wallet BY <2>2
  <2> HIDE DEF n
  <2> QED BY <1>1, <1>3, <1>4, <2>3 DEF Typed
<1>7. Ended[o.action] \in {"completed", "rejected", "failed"} BY <1>3 DEF Ended
<1>8. /\ withdrawal'[e] = [withdrawal[e] EXCEPT !.status = Ended[o.action]]
      /\ \A w \in Withdrawals \ {e} : withdrawal'[w] = withdrawal[w]
  BY <1>1, <1>3, <1>4 DEF FundingTypeOK
<1>9. /\ withdrawal'[e].status \in {"completed", "rejected", "failed"}
      /\ withdrawal'[e].user_id = withdrawal[e].user_id
      /\ withdrawal'[e].amount = withdrawal[e].amount
      /\ withdrawal'[e].approved = withdrawal[e].approved /\ withdrawal'[e] \in Withdrawal
  <2>1. withdrawal[e] \in Withdrawal BY <1>1, <1>3 DEF FundingTypeOK
  <2> HIDE DEF o
  <2> QED BY <1>7, <1>8, <2>1 DEF Withdrawal, WithdrawalStatus
<1>10. FundRowsKept(t) BY <1>3, <1>4, <1>8, <1>9 DEF FundRowsKept
<1>11. /\ moves' \in [Withdrawals -> [WithdrawalEntries -> Nat]]
       /\ \A w \in Withdrawals, x \in WithdrawalEntries :
            w # e \/ x # k => moves'[w][x] = moves[w][x]
  <2>1. k \in WithdrawalEntries BY DEF WithdrawalEntries
  <2> HIDE DEF e, o, k
  <2> QED BY <1>1, <1>3, <1>4, <1>5, <2>1, WriteWithdrawal
<1>12. FundTypes'
  <2>1. withdrawal' \in [Withdrawals -> Withdrawal]
    BY <1>1, <1>3, <1>4, <1>8, <1>9 DEF FundingTypeOK
  <2> QED BY <1>1, <1>4, <1>11, <2>1 DEF FundTypes, FundingTypeOK
<1>13. \A w \in Withdrawals : WithdrawalOK(w)'
  <2>1. ASSUME NEW w \in Withdrawals \ {e} PROVE WithdrawalOK(w)'
    BY <1>1, <1>8, <1>11 DEF FundingSound, WithdrawalOK
  <2>2. PICK f \in Withdrawals : f = e BY <1>3
  <2>3. WithdrawalOK(f)' BY <1>1, <1>3, <1>9, <2>2 DEF FundingSound, WithdrawalOK
  <2> QED BY <2>1, <2>2, <2>3
<1>14. OnlyApprovedPaid'
  <2>1. ASSUME NEW w \in Withdrawals, w # e \/ ~paid
        PROVE  moves'[w]["WITHDRAWAL"] = moves[w]["WITHDRAWAL"]
    BY <1>11, <2>1 DEF WithdrawalEntries
  <2>2. \A w \in Withdrawals : withdrawal'[w].approved = withdrawal[w].approved
    BY <1>8, <1>9
  <2> HIDE DEF o
  <2> QED BY <1>3, <2>1, <2>2 DEF ExchangeConsistent, OnlyApprovedPaid
<1>15. CompletedIsCredited' /\ \A d \in Deposits : DepositOK(d)'
  BY <1>4 DEF ExchangeConsistent, FundingSound, CompletedIsCredited, DepositOK
<1> QED BY <1>4, <1>6, <1>10, <1>12, <1>13, <1>14, <1>15, FundingCommit DEF FundRowsOK

-----------------------------------------------------------------------------
(* All steps together. *)

(* Every step of a funding request preserves the invariant and gives both  *)
(* kinds of requests its guarantees.                                       *)
LEMMA FundingStepConsistent ==
  ASSUME ExchangeConsistent, NEW t \in Workers, FundingStep(t)
  PROVE  ExchangeConsistent' /\ Guarantees(t) /\ FundGuarantees(t)
<1>1. ASSUME NEW d \in Deposits, PayfastItn(t, d)
      PROVE  CompleteDeposit(t, d, d) \/ FailDeposit(t, d)
  BY <1>1 DEF PayfastItn
<1>2. \A d \in Deposits : d \in Null(References) BY DEF Null, References
<1>3. CASE AdminDeposits(t) \/ \E d \in Deposits : PayfastItn(t, d)
  BY <1>1, <1>2, <1>3, CompleteDepositStep, FailDepositStep DEF AdminDeposits
<1>4. CASE AdminWithdrawals(t)
  BY <1>4, ApproveStep, EndWithdrawalStep DEF AdminWithdrawals
<1> QED
  BY <1>3, <1>4, CreateWithdrawalStep, CreditDepositStep, CompleteDepositCommitStep,
     RefusedStep, FailDepositCommitStep, InsertStep, HoldStep, CreateWithdrawalCommitStep,
     ApproveCommitStep, EndLockStep, EndCommitStep
  DEF FundingStep

(* The labels of the two kinds of requests differ. *)
LEMMA LabelsApart == PCs \cap FundingPCs = {}
BY DEF PCs, SettlePCs, FundingPCs

(* So does every betting step: it finds shared wallets unlockable. *)
LEMMA BettingStepConsistent ==
  ASSUME ExchangeConsistent, NEW t \in Workers, BettingStep(t)
  PROVE  ExchangeConsistent' /\ Guarantees(t) /\ FundGuarantees(t)
<1>1. FundingTypeOK /\ FundingSound /\ Sound /\ LocksTaken BY DEF ExchangeConsistent
<1>2. ServiceStep(t) BY DEF BettingStep
<1>3. Sound' /\ Guarantees(t) BY <1>1, <1>2, StepSound
<1>4. LocksTaken' BY <1>1, <1>2, <1>3, StepLocks
<1>5. /\ UNCHANGED <<deposit, withdrawal, payment, credits, moves>>
      /\ order' = order /\ share' = share
  BY DEF BettingStep, fund
<1>6. FundTypes' /\ FundRowsOK' /\ FundRowsKept(t) BY <1>5, FundRowsSame
<1>7. FundGuarantees(t) BY <1>5, <1>6 DEF FundGuarantees, OrdersKept
<1>8. PICK label \in PCs : Goto(t, label) BY <1>1, <1>2, LabelStep
<1>9. pc[t] \notin FundingPCs /\ pc'[t] \notin FundingPCs /\ label \notin HoldPCs
  BY <1>1, <1>2, <1>8, LabelBefore, LabelsApart DEF Goto, Sound, Typed, FundingPCs, HoldPCs
<1>10. OrderOK(t)' /\ FundingLocksOK(t)'
  BY <1>9 DEF OrderOK, FundingLocksOK, FundingPCs
<1>11. \A u \in Users : t \notin share'[u]
  BY <1>1, <1>5, <1>9 DEF FundingSound, ShareOK, FundingPCs
<1>12. ASSUME NEW u \in Users, walletLock'[u] = t, share'[u] # {} PROVE share'[u] = {t}
  <2>1. walletLock[u] = t BY <1>5, <1>12 DEF BettingStep
  <2>2. t # NoOne BY ConstantsAssumption DEF ConstantsAssumption
  <2> QED BY <1>1, <1>5, <1>12, <2>1, <2>2 DEF FundingSound, ShareOK
<1>13. order' \in [Workers -> Order] /\ share' \in [Users -> SUBSET Workers]
  BY <1>1, <1>5 DEF FundingTypeOK
<1>14. ExchangeConsistent'
  BY <1>1, <1>3, <1>4, <1>6, <1>7, <1>8, <1>9, <1>10, <1>11, <1>12, <1>13, OrderStep
<1> QED BY <1>3, <1>7, <1>14

(* So does a deadlock victim of either kind. *)
LEMMA ExchangeAbortConsistent ==
  ASSUME ExchangeConsistent, NEW t \in Workers, ExchangeAbort(t)
  PROVE  ExchangeConsistent' /\ Guarantees(t) /\ FundGuarantees(t)
<1>1. FundingTypeOK /\ FundingSound /\ Sound /\ LocksTaken BY DEF ExchangeConsistent
<1>2. UNCHANGED <<now, rows, crashes, deposit, withdrawal, payment, credits, moves>>
  BY DEF ExchangeAbort
<1>3. CASE FinishOrder(t)
  <2>1. UNCHANGED betting /\ wallet' = wallet BY <1>2 DEF betting, rows
  <2>2. wallet' \in [Users -> Wallet] BY <1>1, <2>1 DEF Sound, Typed
  <2> QED BY <1>2, <1>3, <2>1, <2>2, FundRowsSame, FundingCommit
<1>4. CASE pc[t] \in SettlePCs /\ NextBet(t, req[t].todo) /\ UNCHANGED <<order, share>>
  <2>1. req[t].todo \in SUBSET Bets BY <1>1 DEF Sound, Typed, Request
  <2>2. Ends(t) BY <1>4, <2>1, NextBetEnds
  <2>3. Sound' /\ Guarantees(t)
    <3>1. crashes' \in Nat /\ UNCHANGED <<now, rows>> BY <1>1, <1>2 DEF Sound, Typed
    <3> QED BY <1>1, <2>2, <3>1, RollbackStep
  <2>4. LocksTaken'
    <3>1. ASSUME NEW o \in Workers PROVE LocksOK(o)'
      BY <1>1, <2>2, <2>3, LocksRely, EndsFree DEF LocksTaken
    <3> QED BY <3>1 DEF LocksTaken
  <2>5. FundTypes' /\ FundRowsOK' /\ FundRowsKept(t) BY <1>2, FundRowsSame
  <2>6. FundGuarantees(t) BY <1>4, <2>5 DEF FundGuarantees, OrdersKept
  <2>7. PICK label \in {"idle", "settle_next"} : Goto(t, label) BY <2>2 DEF Ends
  <2>8. pc'[t] = label BY <1>1, <2>7 DEF Goto, Sound, Typed
  <2>9. OrderOK(t)' /\ FundingLocksOK(t)' BY <2>8 DEF OrderOK, FundingLocksOK, FundingPCs
  <2>10. \A u \in Users : t \notin share'[u]
    BY <1>1, <1>4 DEF FundingSound, ShareOK, SettlePCs
  <2>11. \A u \in Users : walletLock'[u] # t
    BY <1>1, <2>2, ConstantsAssumption
    DEF ConstantsAssumption, Ends, ReleaseAll, Released, Sound, Typed
  <2>12. order' \in [Workers -> Order] /\ share' \in [Users -> SUBSET Workers]
    BY <1>1, <1>4 DEF FundingTypeOK
  <2>13. label \in PCs \cup FundingPCs /\ label \notin HoldPCs BY DEF PCs, SettlePCs, HoldPCs
  <2>14. ExchangeConsistent'
    BY <1>1, <2>3, <2>4, <2>5, <2>6, <2>7, <2>9, <2>10, <2>11, <2>12, <2>13, OrderStep
  <2> QED BY <2>3, <2>6, <2>14
<1> QED BY <1>3, <1>4 DEF ExchangeAbort

(* New deposits, verdicts of the provider and the clock disturb nobody. *)
LEMMA StillStep ==
  ASSUME ExchangeConsistent, UNCHANGED <<rows, locks, work, crashes>>, now' \in Nat,
         UNCHANGED <<withdrawal, moves, order, share>>, FundTypes', FundRowsOK',
         \A d \in Deposits : deposit[d].status # "none" => deposit'[d] = deposit[d]
  PROVE  ExchangeConsistent'
<1>1. FundingTypeOK /\ FundingSound /\ Sound /\ LocksTaken BY DEF ExchangeConsistent
<1>2. Sound' BY <1>1, IdleStep
<1>3. /\ pc' = pc /\ req' = req /\ snap' = snap /\ bet' = bet /\ wallet' = wallet
      /\ betLock' = betLock /\ walletLock' = walletLock /\ platformLock' = platformLock
  BY DEF rows, locks, work
<1>4. LocksTaken' BY <1>1, <1>3 DEF LocksTaken, LocksOK, LockOrder
<1>5. FundingTypeOK' BY <1>1, <1>3 DEF FundingTypeOK, FundTypes
<1>6. ASSUME NEW t \in Workers PROVE OrderOK(t)' /\ FundingLocksOK(t)'
  <2>1. OrderOK(t) /\ FundingLocksOK(t) BY <1>1 DEF FundingSound
  <2>2. CompletionOK(t) => CompletionOK(t)'
    BY <1>3 DEF CompletionOK, HoldsFresh
  <2>3. HoldOK(t)' = HoldOK(t) BY <1>3 DEF HoldOK
  <2>4. EndOK(t)' = EndOK(t) BY <1>3 DEF EndOK, HoldsFresh
  <2>5. OrderOK(t)' BY <1>3, <2>1, <2>2, <2>3, <2>4 DEF OrderOK
  <2>6. FundingLocksOK(t)' BY <1>3, <2>1 DEF FundingLocksOK
  <2> QED BY <2>5, <2>6
<1>7. HoldsDistinct' /\ \A u \in Users : ShareOK(u)'
  BY <1>1, <1>3 DEF FundingSound, HoldsDistinct, ShareOK
<1> QED BY <1>2, <1>4, <1>5, <1>6, <1>7
  DEF ExchangeConsistent, FundingSound, FundRowsOK

(* A new deposit is open and nothing is credited for it yet. *)
LEMMA NewDeposit ==
  ASSUME ExchangeConsistent, NEW e \in Deposits, NEW u \in Users, NEW r \in Deposit,
         r.status \in {"pending", "processing"}, r.user_id = u, deposit[e].status = "none",
         deposit' = [deposit EXCEPT ![e] = r],
         payment' \in [Deposits -> {"none", "checkout", "COMPLETE", "CANCELLED"}],
         UNCHANGED <<withdrawal, credits, moves>>
  PROVE  /\ FundTypes' /\ FundRowsOK'
         /\ \A d \in Deposits : deposit[d].status # "none" => deposit'[d] = deposit[d]
<1>1. FundingTypeOK /\ FundingSound BY DEF ExchangeConsistent
<1>2. deposit'[e] = r /\ \A d \in Deposits \ {e} : deposit'[d] = deposit[d]
  BY <1>1 DEF FundingTypeOK
<1>4. FundTypes'
  <2>1. deposit' \in [Deposits -> Deposit] BY <1>1, <1>2 DEF FundingTypeOK
  <2> QED BY <1>1, <2>1 DEF FundTypes, FundingTypeOK
<1>5. credits[e] = 0 BY <1>1 DEF FundingSound, DepositOK
<1>6. CompletedIsCredited' /\ \A d \in Deposits : DepositOK(d)'
  BY <1>1, <1>2, <1>5
  DEF ExchangeConsistent, FundingSound, CompletedIsCredited, COMPLETABLE_DEPOSIT, DepositOK
<1>7. OnlyApprovedPaid' /\ \A w \in Withdrawals : WithdrawalOK(w)'
  BY <1>1 DEF ExchangeConsistent, FundingSound, OnlyApprovedPaid, WithdrawalOK
<1> QED BY <1>2, <1>4, <1>6, <1>7 DEF FundRowsOK

(* The steps that serve no request. *)
LEMMA ArrivalConsistent ==
  ASSUME ExchangeConsistent, FundingArrives
  PROVE  ExchangeConsistent'
<1>1. UNCHANGED <<rows, locks, work, crashes>> /\ now' = now
      /\ UNCHANGED <<withdrawal, credits, moves, order, share>>
  BY DEF FundingArrives, CreateDeposit, InitiatePayfastDeposit, PayFastDecides, vars
<1>2. now' \in Nat BY <1>1 DEF ExchangeConsistent, Sound, Typed
<1>3. payment \in [Deposits -> {"none", "checkout", "COMPLETE", "CANCELLED"}]
  BY DEF ExchangeConsistent, FundingTypeOK
<1>4. ASSUME NEW u \in Users, NEW d \in Deposits, NEW a \in DepositInputs,
             CreateDeposit(u, d, a) \/ InitiatePayfastDeposit(u, d, a)
      PROVE  ExchangeConsistent'
  <2>1. Stored(a) \in Nat /\ Formatted(a) \in Nat
    <3>1. a \in Nat BY FundingAssumption DEF FundingAssumption
    <3>2. Stored(a) \in Nat BY <3>1, StoredAmount
    <3>3. a \div 10 \in Nat BY <3>1
    <3> QED BY <3>2, <3>3 DEF Formatted
  <2>2. deposit[d].status = "none" BY <1>4 DEF CreateDeposit, InitiatePayfastDeposit
  <2>3. PICK r \in Deposit : /\ r.status \in {"pending", "processing"} /\ r.user_id = u
                             /\ deposit' = [deposit EXCEPT ![d] = r]
    <3>1. CASE CreateDeposit(u, d, a)
      BY <2>1, <3>1 DEF CreateDeposit, NoDeposit, Deposit, DepositStatus, Null
    <3>2. CASE InitiatePayfastDeposit(u, d, a)
      BY <2>1, <3>2 DEF InitiatePayfastDeposit, NoDeposit, Deposit, DepositStatus, Null
    <3> QED BY <1>4, <3>1, <3>2
  <2>4. payment' \in [Deposits -> {"none", "checkout", "COMPLETE", "CANCELLED"}]
    BY <1>3, <1>4 DEF CreateDeposit, InitiatePayfastDeposit
  <2>5. /\ FundTypes' /\ FundRowsOK'
        /\ \A e \in Deposits : deposit[e].status # "none" => deposit'[e] = deposit[e]
    BY <1>1, <2>1, <2>2, <2>3, <2>4, NewDeposit
  <2> QED BY <1>1, <1>2, <2>5, StillStep
<1>5. ASSUME NEW d \in Deposits, NEW v \in {"COMPLETE", "CANCELLED"}, PayFastDecides(d, v)
      PROVE  ExchangeConsistent'
  <2>1. deposit' = deposit BY <1>5 DEF PayFastDecides
  <2>2. payment' \in [Deposits -> {"none", "checkout", "COMPLETE", "CANCELLED"}]
    BY <1>3, <1>5 DEF PayFastDecides
  <2>3. FundTypes' BY <1>1, <2>1, <2>2 DEF ExchangeConsistent, FundingTypeOK, FundTypes
  <2>4. FundRowsOK'
    BY <1>1, <2>1 DEF ExchangeConsistent, FundingSound, FundRowsOK, DepositOK, WithdrawalOK,
         OnlyApprovedPaid, CompletedIsCredited
  <2> QED BY <1>1, <1>2, <2>1, <2>3, <2>4, StillStep
<1> QED BY <1>4, <1>5 DEF FundingArrives

(* The empty tables are consistent. *)
LEMMA InitExchange == ExchangeInit => ExchangeConsistent
<1> SUFFICES ASSUME ExchangeInit PROVE ExchangeConsistent OBVIOUS
<1>1. Consistent BY InitConsistent DEF ExchangeInit
<1>2. FundingInit /\ pc = [t \in Workers |-> "idle"] BY DEF ExchangeInit, Init, InitRest
<1>3. FundingTypeOK
  <2>1. NoDeposit \in Deposit BY DEF NoDeposit, Deposit, Null
  <2>2. NoWithdrawal \in Withdrawal BY DEF NoWithdrawal, Withdrawal, Null
  <2>3. wallet \in [Users -> Wallet] /\ pc \in [Workers -> PCs \cup FundingPCs]
    BY <1>1 DEF Consistent, TypeOK
  <2>4. /\ credits \in [Deposits -> Nat] /\ share \in [Users -> SUBSET Workers]
        /\ moves \in [Withdrawals -> [WithdrawalEntries -> Nat]]
        /\ payment \in [Deposits -> {"none", "checkout", "COMPLETE", "CANCELLED"}]
    BY <1>2 DEF FundingInit
  <2>5. order \in [Workers -> Order] BY <1>2, NoOrderType DEF FundingInit
  <2> QED BY <1>2, <2>1, <2>2, <2>3, <2>4, <2>5 DEF FundingInit, FundingTypeOK
<1>4. FundingSound
  <2>1. HoldsDistinct BY <1>2 DEF HoldsDistinct
  <2>2. \A t \in Workers : OrderOK(t) /\ FundingLocksOK(t)
    BY <1>2 DEF OrderOK, FundingLocksOK, FundingPCs
  <2>3. \A u \in Users : ShareOK(u) BY <1>2 DEF ShareOK, FundingInit
  <2>4. \A d \in Deposits : DepositOK(d) BY <1>2 DEF DepositOK, FundingInit, NoDeposit
  <2>5. \A w \in Withdrawals : WithdrawalOK(w)
    BY <1>2 DEF WithdrawalOK, FundingInit, NoWithdrawal
  <2> QED BY <2>1, <2>2, <2>3, <2>4, <2>5 DEF FundingSound
<1>5. OnlyApprovedPaid /\ CompletedIsCredited
  BY <1>2 DEF FundingInit, OnlyApprovedPaid, CompletedIsCredited, NoDeposit,
              COMPLETABLE_DEPOSIT, WithdrawalEntries
<1> QED BY <1>1, <1>3, <1>4, <1>5 DEF ExchangeConsistent, Consistent

(* Every step of the exchange preserves the invariant. *)
LEMMA NextExchange ==
  ExchangeConsistent /\ [ExchangeNext]_ExchangeVars => ExchangeConsistent'
<1> SUFFICES ASSUME ExchangeConsistent, [ExchangeNext]_ExchangeVars
             PROVE  ExchangeConsistent'
  OBVIOUS
<1>1. CASE (Tick /\ UNCHANGED fund) \/ UNCHANGED ExchangeVars
  <2>1. UNCHANGED <<rows, locks, work, crashes>> /\ UNCHANGED fund /\ now' \in Nat
    BY <1>1 DEF Tick, ExchangeVars, vars, ExchangeConsistent, Sound, Typed
  <2>2. UNCHANGED <<deposit, withdrawal, payment, credits, moves, order, share>>
    BY <2>1 DEF fund
  <2>3. FundTypes' /\ FundRowsOK'
    BY <2>2 DEF ExchangeConsistent, FundingTypeOK, FundTypes, FundingSound, FundRowsOK,
         DepositOK, WithdrawalOK, OnlyApprovedPaid, CompletedIsCredited
  <2> QED BY <2>1, <2>2, <2>3, StillStep
<1> QED
  BY <1>1, ArrivalConsistent, BettingStepConsistent, FundingStepConsistent,
     ExchangeAbortConsistent
  DEF ExchangeNext

(* Whatever bets, deposits and withdrawals run at the same time, and       *)
(* whichever of them the deadlock detector rolls back: every request finds *)
(* the wallet it has locked, and owner, amount and approval of its row, as *)
(* the rest of its transaction assumes them.                               *)
THEOREM ExchangeConsistentAlways == ExchangeSpec => []ExchangeConsistent
BY InitExchange, NextExchange, PTL DEF ExchangeSpec

(* The funding tables keep their types, and no balance becomes negative,   *)
(* whatever the withdrawals and the bets take of it.                       *)
THEOREM FundingTypeCorrect == ExchangeSpec => []FundingTypeOK
<1>1. ExchangeConsistent => FundingTypeOK BY DEF ExchangeConsistent
<1> QED BY <1>1, ExchangeConsistentAlways, PTL

(* No interleaving of the admin's requests pays out a withdrawal that was  *)
(* never approved.                                                         *)
THEOREM OnlyApprovedArePaid == ExchangeSpec => []OnlyApprovedPaid
<1>1. ExchangeConsistent => OnlyApprovedPaid BY DEF ExchangeConsistent
<1> QED BY <1>1, ExchangeConsistentAlways, PTL

(* A completed deposit has been credited and an open one has not, however  *)
(* late or often notifications and admins complete or fail it.             *)
THEOREM CompletedAreCredited == ExchangeSpec => []CompletedIsCredited
<1>1. ExchangeConsistent => CompletedIsCredited BY DEF ExchangeConsistent
<1> QED BY <1>1, ExchangeConsistentAlways, PTL

-----------------------------------------------------------------------------
(* Shared wallets. *)

(* A funding step that writes a wallet ends its request. *)
LEMMA FundingWrites ==
  ASSUME NEW t \in Workers, FundingStep(t)
  PROVE  wallet' = wallet \/ FinishOrder(t)
<1>1. CASE \/ AdminDeposits(t) \/ AdminWithdrawals(t) \/ (\E d \in Deposits : PayfastItn(t, d))
           \/ \E u \in Users, w \in Withdrawals, a \in WithdrawalInputs :
                CreateWithdrawal(t, u, w, a)
  BY <1>1 DEF AdminDeposits, AdminWithdrawals, PayfastItn, CompleteDeposit, FailDeposit,
     ApproveWithdrawal, EndWithdrawal, CreateWithdrawal
<1>2. CASE CreditDeposit(t) \/ InsertWithdrawal(t) \/ HoldWithdrawal(t) \/ EndLock(t)
  BY <1>2 DEF CreditDeposit, InsertWithdrawal, HoldWithdrawal, EndLock, LockOnly
<1>3. CASE \/ CompleteDepositCommit(t) \/ CompleteDepositRefused(t) \/ FailDepositCommit(t)
           \/ HoldRefused(t) \/ CreateWithdrawalCommit(t) \/ ApproveCommit(t)
           \/ EndRefused(t) \/ EndCommit(t)
  BY <1>3 DEF CompleteDepositCommit, CompleteDepositRefused, FailDepositCommit, HoldRefused,
     CreateWithdrawalCommit, ApproveCommit, EndRefused, EndCommit
<1> QED BY <1>1, <1>2, <1>3 DEF FundingStep

(* Who writes a shared wallet is its only sharer, and shares it no more. *)
LEMMA SharerWrites ==
  ASSUME ExchangeConsistent, ExchangeNext, NEW u \in Users, NEW t \in Workers,
         t \in share[u], wallet'[u] # wallet[u]
  PROVE  t \notin share'[u]
<1>1. wallet' # wallet OBVIOUS
<1>2. PICK s \in Workers : BettingStep(s) \/ FundingStep(s)
  BY <1>1 DEF ExchangeNext, Tick, FundingArrives, CreateDeposit, InitiatePayfastDeposit,
     PayFastDecides, vars, rows, ExchangeAbort
<1>3. walletLock[u] = s
  BY <1>2, BettingStepConsistent, FundingStepConsistent DEF Guarantees, RowsKept
<1>4. s # NoOne BY ConstantsAssumption DEF ConstantsAssumption
<1>5. t = s /\ pc[t] \in FundingPCs
  BY <1>3, <1>4 DEF ExchangeConsistent, FundingSound, ShareOK, FundingPCs
<1>6. FundingStep(t)
  BY <1>2, <1>5, LabelBefore, LabelsApart DEF BettingStep
<1>7. FinishOrder(t) BY <1>1, <1>6, FundingWrites
<1> QED BY <1>7, FinishOrderEffect DEF ExchangeConsistent

(* From its INSERT to its commit a create_withdrawal request keeps the     *)
(* wallet from everybody, so that its read can only be stale before that.  *)
THEOREM SharesAlwaysProtect == ExchangeSpec => ShareProtects
<1>1. ExchangeConsistent /\ [ExchangeNext]_ExchangeVars
        => [\A u \in Users, t \in Workers :
              t \in share[u] /\ wallet'[u] # wallet[u] => t \notin share'[u]]_ExchangeVars
  BY SharerWrites
<1> QED BY <1>1, ExchangeConsistentAlways, PTL DEF ExchangeSpec, ShareProtects

(* A waits-for cycle needs two sharers of a wallet, a void or a            *)
(* cancellation.                                                           *)
LEMMA NoExchangeCycle ==
  ASSUME ExchangeConsistent, NEW D \in SUBSET Workers, ExchangeDeadlocked(D),
         \A t \in D : pc[t] \notin VoidOrCancel,
         \A t, o \in D : pc[t] = "withdraw_hold" /\ pc[o] = "withdraw_hold"
                           /\ order[t].user = order[o].user => t = o
  PROVE  FALSE
<1>1. /\ Sound /\ LocksTaken /\ FundingSound
      /\ \A t \in D : /\ LocksOK(t) /\ OrderOK(t) /\ FundingLocksOK(t)
                      /\ pc[t] \in PCs \cup FundingPCs
  BY DEF ExchangeConsistent, LocksTaken, FundingSound, FundingTypeOK
<1>2. \A t \in D : t # NoOne BY ConstantsAssumption DEF ConstantsAssumption
<1>3. ASSUME NEW t \in D
      PROVE  pc[t] \in {"create_wallet", "accept_wallet", "confirm_rows", "settle_wallet1",
                        "settle_wallet2", "deposit_wallet", "withdraw_wallet",
                        "withdraw_hold", "withdraw_insert"}
  <2>1. PICK o \in D : ExchangeWaitsFor(t, o) BY DEF ExchangeDeadlocked
  <2>2. pc[t] # "settle_check"
    <3> SUFFICES ASSUME pc[t] = "settle_check" PROVE FALSE OBVIOUS
    <3>1. platformLock = o BY <2>1 DEF ExchangeWaitsFor, WaitsFor, WantsWallet
    <3>2. pc[o] = "settle_commit" BY <1>1, <3>1 DEF LocksOK, FundingLocksOK
    <3>3. PICK p \in D : ExchangeWaitsFor(o, p) BY DEF ExchangeDeadlocked
    <3> QED BY <3>2, <3>3 DEF ExchangeWaitsFor, WaitsFor, WantsWallet
  <2> QED BY <2>1, <2>2 DEF ExchangeWaitsFor, WaitsFor, WantsWallet, VoidOrCancel
<1>4. ASSUME NEW o \in D, NEW u \in Users, walletLock[u] = o
      PROVE  Climbs(o) /\ Lower(o) = u
  <2>1. pc[o] \in PCs BY <1>1, <1>3, <1>4 DEF FundingLocksOK
  <2>2. pc[o] \in WalletHolders /\ (pc[o] = "settle_wallet2" => u = LockOrder(req[o].bet)[1])
    BY <1>1, <1>4, <2>1 DEF LocksOK
  <2>3. pc[o] = "settle_wallet2" BY <1>3, <2>2 DEF WalletHolders
  <2> QED BY <2>2, <2>3 DEF Climbs, Lower
<1>5. ASSUME NEW t \in D, pc[t] = "withdraw_hold" PROVE FALSE
  <2> DEFINE u == order[t].user
  <2>1. u \in Users /\ t \in share[u] BY <1>1, <1>5 DEF OrderOK, HoldOK
  <2>2. PICK o \in D : ExchangeWaitsFor(t, o) BY DEF ExchangeDeadlocked
  <2>3. walletLock[u] = o \/ o \in share[u] \ {t}
    BY <1>5, <2>2 DEF ExchangeWaitsFor, WaitsFor, WantsWallet
  <2>4. ShareOK(u) BY <1>1, <2>1 DEF FundingSound
  <2>5. CASE walletLock[u] = o
    <3>1. t = o BY <1>2, <2>1, <2>4, <2>5 DEF ShareOK
    <3> QED BY <1>4, <1>5, <2>1, <2>5, <3>1 DEF Climbs
  <2>6. CASE o \in share[u] \ {t}
    <3>1. pc[o] \in {"withdraw_hold", "withdraw_commit"} /\ order[o].user = u
      BY <2>4, <2>6 DEF ShareOK
    <3>2. pc[o] = "withdraw_hold" BY <1>3, <3>1
    <3> QED BY <1>5, <2>6, <3>1, <3>2
  <2> QED BY <2>3, <2>5, <2>6
<1>6. ASSUME NEW o \in D, NEW u \in Users PROVE o \notin share[u]
  <2>1. o \in share[u] => pc[o] \in {"withdraw_hold", "withdraw_commit"}
    BY <1>1 DEF FundingSound, ShareOK
  <2> QED BY <1>3, <1>5, <2>1
<1>7. ASSUME NEW t \in D, pc[t] # "confirm_rows" PROVE \E o \in D : Climbs(o)
  <2>1. PICK o \in D : ExchangeWaitsFor(t, o) BY DEF ExchangeDeadlocked
  <2>2. CASE pc[t] \in {"create_wallet", "accept_wallet"}
    <3>1. req[t].user \in Users BY <1>1, <2>2, WantedWallet
    <3>2. walletLock[req[t].user] = o
      BY <1>6, <2>1, <2>2, <3>1 DEF ExchangeWaitsFor, WaitsFor, WantsWallet
    <3> QED BY <1>4, <3>1, <3>2
  <2>3. CASE pc[t] \in {"settle_wallet1", "settle_wallet2"}
    <3>1. SettleUser(t) \in Users BY <1>1, <2>3, WantedWallet
    <3>2. walletLock[SettleUser(t)] = o
      BY <1>6, <2>1, <2>3, <3>1 DEF ExchangeWaitsFor, WaitsFor, WantsWallet
    <3> QED BY <1>4, <3>1, <3>2
  <2>4. CASE pc[t] \in {"deposit_wallet", "withdraw_wallet", "withdraw_insert"}
    <3>1. order[t].user \in Users
      BY <1>1, <2>4 DEF OrderOK, CompletionOK, HoldOK, EndOK
    <3>2. walletLock[order[t].user] = o
      BY <1>6, <2>1, <2>4, <3>1 DEF ExchangeWaitsFor, WaitsFor, WantsWallet
    <3> QED BY <1>4, <3>1, <3>2
  <2> QED BY <1>3, <1>5, <1>7, <2>2, <2>3, <2>4
<1>8. ASSUME NEW t \in D, pc[t] = "confirm_rows"
      PROVE  \E o \in D : pc[o] # "confirm_rows"
  <2>1. PICK o \in D : ExchangeWaitsFor(t, o) BY DEF ExchangeDeadlocked
  <2>2. PICK b \in req[t].todo : betLock[b] = o
    BY <1>8, <2>1 DEF ExchangeWaitsFor, WaitsFor, WantsWallet
  <2> QED BY <1>1, <1>8, <2>2, ConfirmersApart
<1>9. \E o \in D : Climbs(o) BY <1>7, <1>8 DEF ExchangeDeadlocked
<1> DEFINE W == {t \in D : Climbs(t)}
<1>10. ASSUME NEW t \in W PROVE \E o \in W : Lower(o) = Higher(t)
  <2>1. pc[t] = "settle_wallet2" /\ t \in D BY DEF Climbs
  <2>2. PICK o \in D : ExchangeWaitsFor(t, o) BY DEF ExchangeDeadlocked
  <2>3. SettleUser(t) = Higher(t) BY <2>1 DEF SettleUser, Higher
  <2>4. Higher(t) \in Users BY <1>1, <2>1, Ascends DEF SettlePCs
  <2>5. walletLock[Higher(t)] = o
    BY <1>6, <2>1, <2>2, <2>3, <2>4 DEF ExchangeWaitsFor, WaitsFor, WantsWallet
  <2> QED BY <1>4, <2>4, <2>5
<1> HIDE DEF W
<1>11. W \in SUBSET Workers /\ W # {} /\ \A t \in W : Climbs(t) BY <1>9 DEF W
<1> QED BY <1>1, <1>10, <1>11, NoCircle

(* For any number of requests: a deposit, an admin's action on a           *)
(* withdrawal, a settlement or a single create_withdrawal never deadlocks  *)
(* with anything; a cycle has two create_withdrawal requests of one user   *)
(* in it, or a void_bet or a cancel_bet.                                   *)
THEOREM DeadlocksNeedSharers == ExchangeSpec => []DeadlockNeedsSharers
<1>1. ASSUME ExchangeConsistent, NEW D \in SUBSET Workers, ExchangeDeadlocked(D)
      PROVE  \/ \E t, o \in D : /\ t # o /\ pc[t] = "withdraw_hold" /\ pc[o] = "withdraw_hold"
                                /\ order[t].user = order[o].user
             \/ \E t \in D : pc[t] \in VoidOrCancel
  BY <1>1, NoExchangeCycle
<1>2. ExchangeConsistent => DeadlockNeedsSharers
  BY <1>1 DEF DeadlockNeedsSharers, VoidOrCancel
<1> QED BY <1>2, ExchangeConsistentAlways, PTL

-----------------------------------------------------------------------------
(***************************************************************************)
(* Balances and the ledger.  A betting commit moves the balances of u as   *)
(* it moves the betting entries (ExplainedMoves), a funding commit on a    *)
(* wallet it has locked and read as it moves the funding entries.          *)
(***************************************************************************)

(* What deposit d, and withdrawal w with its entry k, count for user v. *)
CreditOf(v, d)  == IF deposit[d].user_id = v THEN credits[d] ELSE 0
MoveOf(v, k, w) == IF withdrawal[w].user_id = v THEN moves[w][k] ELSE 0

(* The cent withdrawal w left with user v. *)
HoldGainOf(v, w) == IF withdrawal[w].user_id = v THEN HalfCent(withdrawal[w].asked) ELSE 0

(* The distance of both balances of u from their ledger stays the same. *)
Aligned(u) ==
  /\ Unexplained(u)' = Unexplained(u)
  /\ wallet'[u].locked - LedgerLocked(u)' = wallet[u].locked - LedgerLocked(u)

(* What a withdrawal left is an amount. *)
LEMMA HoldGains ==
  ASSUME FundTypes, FundTypes', NEW w \in Withdrawals
  PROVE  HalfCent(withdrawal[w].asked) \in Nat /\ HalfCent(withdrawal'[w].asked) \in Nat
<1>1. withdrawal[w] \in Withdrawal /\ withdrawal'[w] \in Withdrawal BY DEF FundTypes
<1>2. withdrawal[w].asked \in Nat /\ withdrawal'[w].asked \in Nat BY <1>1 DEF Withdrawal
<1>3. {0, 1} \subseteq Nat OBVIOUS
<1> QED BY <1>2, <1>3, StoredAmount

(* The totals of the funding entries are amounts. *)
LEMMA FundTotals ==
  ASSUME FundTypes, FundTypes', NEW v \in Users
  PROVE  /\ Credited(v) \in Nat /\ Credited(v)' \in Nat
         /\ \A k \in WithdrawalEntries : Moved(v, k) \in Nat /\ Moved(v, k)' \in Nat
         /\ HoldGain(v) \in Nat /\ HoldGain(v)' \in Nat
<1>1. IsFiniteSet(Deposits) /\ IsFiniteSet(Withdrawals)
  BY FundingAssumption DEF FundingAssumption
<1>2. [d \in Deposits |-> CreditOf(v, d)] \in [Deposits -> Nat]
  BY DEF FundTypes, CreditOf
<1>3. [d \in Deposits |-> CreditOf(v, d)]' \in [Deposits -> Nat]
  BY DEF FundTypes, CreditOf
<1>4. ASSUME NEW k \in WithdrawalEntries PROVE Moved(v, k) \in Nat /\ Moved(v, k)' \in Nat
  <2>1. [w \in Withdrawals |-> MoveOf(v, k, w)] \in [Withdrawals -> Nat]
    BY DEF FundTypes, MoveOf
  <2>2. [w \in Withdrawals |-> MoveOf(v, k, w)]' \in [Withdrawals -> Nat]
    BY DEF FundTypes, MoveOf
  <2> QED BY <1>1, <2>1, <2>2, SumType DEF Moved, MoveOf
<1>5. Credited(v) \in Nat /\ Credited(v)' \in Nat
  BY <1>1, <1>2, <1>3, SumType DEF Credited, CreditOf
<1>6. HoldGain(v) \in Nat /\ HoldGain(v)' \in Nat
  <2>1. /\ \A w \in Withdrawals : HalfCent(withdrawal[w].asked) \in Nat
        /\ \A w \in Withdrawals : HalfCent(withdrawal'[w].asked) \in Nat
    BY HoldGains
  <2>2. [w \in Withdrawals |-> HoldGainOf(v, w)] \in [Withdrawals -> Nat]
    BY <2>1 DEF HoldGainOf
  <2>3. [w \in Withdrawals |-> HoldGainOf(v, w)]' \in [Withdrawals -> Nat]
    BY <2>1 DEF HoldGainOf
  <2> QED BY <1>1, <2>2, <2>3, SumType DEF HoldGain, HoldGainOf
<1> QED BY <1>4, <1>5, <1>6

(* Only what deposit e counts for v changes. *)
LEMMA CreditedUpdate ==
  ASSUME FundTypes, FundTypes', NEW v \in Users, NEW e \in Deposits,
         \A d \in Deposits \ {e} : CreditOf(v, d)' = CreditOf(v, d)
  PROVE  /\ CreditOf(v, e) \in Nat /\ CreditOf(v, e)' \in Nat
         /\ Credited(v)' + CreditOf(v, e) = Credited(v) + CreditOf(v, e)'
<1> DEFINE F == [d \in Deposits |-> CreditOf(v, d)]
           G == [d \in Deposits |-> CreditOf(v, d)']
<1>1. IsFiniteSet(Deposits) BY FundingAssumption DEF FundingAssumption
<1>2. F \in [Deposits -> Nat] BY DEF FundTypes, CreditOf
<1>3. G \in [Deposits -> Nat] BY DEF FundTypes, CreditOf
<1>4. F[e] = CreditOf(v, e) /\ G[e] = CreditOf(v, e)' OBVIOUS
<1>5. \A d \in Deposits \ {e} : G[d] = F[d] OBVIOUS
<1>6. Credited(v) = Sum(F, Deposits) /\ Credited(v)' = Sum(G, Deposits)
  BY DEF Credited, CreditOf
<1> HIDE DEF F, G
<1>7. Sum(G, Deposits) + F[e] = Sum(F, Deposits) + G[e]
  BY <1>1, <1>2, <1>3, <1>5, SumUpdate
<1> QED BY <1>2, <1>3, <1>4, <1>6, <1>7

(* Only what withdrawal e counts for v changes. *)
LEMMA MovedUpdate ==
  ASSUME FundTypes, FundTypes', NEW v \in Users, NEW k \in WithdrawalEntries,
         NEW e \in Withdrawals,
         \A w \in Withdrawals \ {e} : MoveOf(v, k, w)' = MoveOf(v, k, w)
  PROVE  /\ MoveOf(v, k, e) \in Nat /\ MoveOf(v, k, e)' \in Nat
         /\ Moved(v, k)' + MoveOf(v, k, e) = Moved(v, k) + MoveOf(v, k, e)'
<1> DEFINE F == [w \in Withdrawals |-> MoveOf(v, k, w)]
           G == [w \in Withdrawals |-> MoveOf(v, k, w)']
<1>1. IsFiniteSet(Withdrawals) BY FundingAssumption DEF FundingAssumption
<1>2. F \in [Withdrawals -> Nat] BY DEF FundTypes, MoveOf
<1>3. G \in [Withdrawals -> Nat] BY DEF FundTypes, MoveOf
<1>4. F[e] = MoveOf(v, k, e) /\ G[e] = MoveOf(v, k, e)' OBVIOUS
<1>5. \A w \in Withdrawals \ {e} : G[w] = F[w] OBVIOUS
<1>6. Moved(v, k) = Sum(F, Withdrawals) /\ Moved(v, k)' = Sum(G, Withdrawals)
  BY DEF Moved, MoveOf
<1> HIDE DEF F, G
<1>7. Sum(G, Withdrawals) + F[e] = Sum(F, Withdrawals) + G[e]
  BY <1>1, <1>2, <1>3, <1>5, SumUpdate
<1> QED BY <1>2, <1>3, <1>4, <1>6, <1>7

(* Only what withdrawal e left with v changes. *)
LEMMA HoldGainUpdate ==
  ASSUME FundTypes, FundTypes', NEW v \in Users, NEW e \in Withdrawals,
         \A w \in Withdrawals \ {e} : withdrawal'[w] = withdrawal[w]
  PROVE  /\ HoldGainOf(v, e) \in Nat /\ HoldGainOf(v, e)' \in Nat
         /\ HoldGain(v)' + HoldGainOf(v, e) = HoldGain(v) + HoldGainOf(v, e)'
<1> DEFINE F == [w \in Withdrawals |-> HoldGainOf(v, w)]
           G == [w \in Withdrawals |-> HoldGainOf(v, w)']
<1>1. IsFiniteSet(Withdrawals) BY FundingAssumption DEF FundingAssumption
<1>2. /\ \A w \in Withdrawals : HalfCent(withdrawal[w].asked) \in Nat
      /\ \A w \in Withdrawals : HalfCent(withdrawal'[w].asked) \in Nat
  BY HoldGains
<1>3. F \in [Withdrawals -> Nat] BY <1>2 DEF HoldGainOf
<1>4. G \in [Withdrawals -> Nat] BY <1>2 DEF HoldGainOf
<1>5. F[e] = HoldGainOf(v, e) /\ G[e] = HoldGainOf(v, e)' OBVIOUS
<1>6. \A w \in Withdrawals \ {e} : G[w] = F[w] BY DEF HoldGainOf
<1>7. HoldGain(v) = Sum(F, Withdrawals) /\ HoldGain(v)' = Sum(G, Withdrawals)
  BY DEF HoldGain, HoldGainOf
<1> HIDE DEF F, G
<1>8. Sum(G, Withdrawals) + F[e] = Sum(F, Withdrawals) + G[e]
  BY <1>1, <1>3, <1>4, <1>6, SumUpdate
<1> QED BY <1>3, <1>4, <1>5, <1>7, <1>8

(* Alignment, in sums of amounts. *)
LEMMA AlignedBy ==
  ASSUME FundTypes, FundTypes', Typed, Typed', NEW u \in Users,
         wallet'[u].available + Credited(u) + Moved(u, "WITHDRAWAL_RELEASE")
           + Moved(u, "WITHDRAWAL_HOLD")' + BetCredits(u) + BetLocks(u)'
           + StakeGain(u) + HoldGain(u)
         = wallet[u].available + Credited(u)' + Moved(u, "WITHDRAWAL_RELEASE")'
           + Moved(u, "WITHDRAWAL_HOLD") + BetCredits(u)' + BetLocks(u)
           + StakeGain(u)' + HoldGain(u)',
         wallet'[u].locked + Moved(u, "WITHDRAWAL_HOLD") + Moved(u, "WITHDRAWAL_RELEASE")'
           + Moved(u, "WITHDRAWAL")' + BetDebits(u)' + BetLocks(u)
         = wallet[u].locked + Moved(u, "WITHDRAWAL_HOLD")' + Moved(u, "WITHDRAWAL_RELEASE")
           + Moved(u, "WITHDRAWAL") + BetDebits(u) + BetLocks(u)'
  PROVE  Aligned(u)
<1> DEFINE a == wallet[u].available  aa == wallet'[u].available
           l == wallet[u].locked     ll == wallet'[u].locked
           c == Credited(u)          cc == Credited(u)'
           h == Moved(u, "WITHDRAWAL_HOLD")     hh == Moved(u, "WITHDRAWAL_HOLD")'
           r == Moved(u, "WITHDRAWAL_RELEASE")  rr == Moved(u, "WITHDRAWAL_RELEASE")'
           p == Moved(u, "WITHDRAWAL")          pp == Moved(u, "WITHDRAWAL")'
           bl == BetLocks(u)    bbl == BetLocks(u)'
           bd == BetDebits(u)   bbd == BetDebits(u)'
           bc == BetCredits(u)  bbc == BetCredits(u)'
           g == StakeGain(u)    gg == StakeGain(u)'
           k == HoldGain(u)     kk == HoldGain(u)'
           f == InitFunds[u]
<1>1. /\ a \in Nat /\ aa \in Nat /\ l \in Nat /\ ll \in Nat /\ f \in Nat
  BY ConstantsAssumption DEF ConstantsAssumption, Typed, Wallet
<1>2. /\ c \in Nat /\ cc \in Nat /\ h \in Nat /\ hh \in Nat /\ r \in Nat /\ rr \in Nat
      /\ p \in Nat /\ pp \in Nat /\ k \in Nat /\ kk \in Nat
  BY FundTotals DEF WithdrawalEntries
<1>3. \A e \in EntryTypes : Sum(Entries(u, e), Bets) \in Nat /\ Sum(Entries(u, e)', Bets) \in Nat
  <2>1. ASSUME NEW e \in EntryTypes PROVE Sum(Entries(u, e)', Bets) \in Nat
    <3>1. Entries(u, e)' \in [Bets -> Nat] BY DEF Typed, Entries
    <3> QED BY <3>1, SumType, ConstantsAssumption DEF ConstantsAssumption
  <2> QED BY <2>1, BetTotals
<1>4. /\ bl \in Nat /\ bbl \in Nat /\ bd \in Nat /\ bbd \in Nat /\ bc \in Nat /\ bbc \in Nat
  BY <1>3 DEF BetLocks, BetDebits, BetCredits, EntryTypes
<1>5. /\ LedgerAvailable(u) = f + c - h + r - bl + bc
      /\ LedgerLocked(u) = h - r - p + bl - bd
  BY <1>1, <1>2, <1>3 DEF LedgerAvailable, LedgerLocked, BetLocks, BetDebits, BetCredits, EntryTypes
<1>6. /\ LedgerAvailable(u)' = f + cc - hh + rr - bbl + bbc
      /\ LedgerLocked(u)' = hh - rr - pp + bbl - bbd
  BY <1>1, <1>2, <1>3 DEF LedgerAvailable, LedgerLocked, BetLocks, BetDebits, BetCredits, EntryTypes
<1>7. /\ aa + c + r + hh + bc + bbl + g + k = a + cc + rr + h + bbc + bl + gg + kk
      /\ ll + h + rr + pp + bbd + bl = l + hh + r + p + bd + bbl
  OBVIOUS
<1>10. g \in Nat BY GainTypes DEF GainsTyped
<1>11. gg \in Nat BY GainTypesNext DEF GainsTyped
<1>12. Unexplained(u) = a - LedgerAvailable(u) - g - k BY DEF Unexplained
<1>13. Unexplained(u)' = aa - LedgerAvailable(u)' - gg - kk BY DEF Unexplained
<1> HIDE DEF a, aa, l, ll, c, cc, h, hh, r, rr, p, pp, bl, bbl, bd, bbd, bc, bbc, g, gg, k, kk, f
<1>8. aa - (f + cc - hh + rr - bbl + bbc) - gg - kk = a - (f + c - h + r - bl + bc) - g - k
  BY <1>1, <1>2, <1>4, <1>7, <1>10, <1>11
<1>9. ll - (hh - rr - pp + bbl - bbd) = l - (h - r - p + bl - bd)
  BY <1>1, <1>2, <1>4, <1>7
<1> QED BY <1>5, <1>6, <1>8, <1>9, <1>12, <1>13 DEF Aligned, l, ll

(* The same when no bet changes and no betting entry is written. *)
LEMMA FundedBy ==
  ASSUME FundTypes, FundTypes', Typed, Typed', ledger' = ledger,
         \A c \in Bets : GainKept(c), NEW u \in Users,
         wallet'[u].available + Credited(u) + Moved(u, "WITHDRAWAL_RELEASE")
           + Moved(u, "WITHDRAWAL_HOLD")' + HoldGain(u)
         = wallet[u].available + Credited(u)' + Moved(u, "WITHDRAWAL_RELEASE")'
           + Moved(u, "WITHDRAWAL_HOLD") + HoldGain(u)',
         wallet'[u].locked + Moved(u, "WITHDRAWAL_HOLD") + Moved(u, "WITHDRAWAL_RELEASE")'
           + Moved(u, "WITHDRAWAL")'
         = wallet[u].locked + Moved(u, "WITHDRAWAL_HOLD")' + Moved(u, "WITHDRAWAL_RELEASE")
           + Moved(u, "WITHDRAWAL")
  PROVE  Aligned(u)
<1>1. /\ BetLocks(u)' = BetLocks(u) /\ BetDebits(u)' = BetDebits(u)
      /\ BetCredits(u)' = BetCredits(u)
  BY DEF BetLocks, BetDebits, BetCredits, Entries
<1>2. StakeGain(u)' = StakeGain(u) BY GainsSame
<1> DEFINE a == wallet[u].available  aa == wallet'[u].available
           l == wallet[u].locked     ll == wallet'[u].locked
           c == Credited(u)          cc == Credited(u)'
           h == Moved(u, "WITHDRAWAL_HOLD")     hh == Moved(u, "WITHDRAWAL_HOLD")'
           r == Moved(u, "WITHDRAWAL_RELEASE")  rr == Moved(u, "WITHDRAWAL_RELEASE")'
           p == Moved(u, "WITHDRAWAL")          pp == Moved(u, "WITHDRAWAL")'
           k == HoldGain(u)                     kk == HoldGain(u)'
           bl == BetLocks(u)  bd == BetDebits(u)  bc == BetCredits(u)  g == StakeGain(u)
<1>3. a \in Nat /\ aa \in Nat /\ l \in Nat /\ ll \in Nat BY DEF Typed, Wallet
<1>4. /\ c \in Nat /\ cc \in Nat /\ h \in Nat /\ hh \in Nat /\ r \in Nat /\ rr \in Nat
      /\ p \in Nat /\ pp \in Nat /\ k \in Nat /\ kk \in Nat
  BY FundTotals DEF WithdrawalEntries
<1>5. /\ bl \in Nat /\ bd \in Nat /\ bc \in Nat /\ g \in Nat
  <2>1. \A e \in EntryTypes : Sum(Entries(u, e), Bets) \in Nat BY BetTotals
  <2> QED BY <2>1, GainTypes DEF BetLocks, BetDebits, BetCredits, EntryTypes, GainsTyped
<1>6. /\ aa + c + r + hh + k = a + cc + rr + h + kk
      /\ ll + h + rr + pp = l + hh + r + p
  OBVIOUS
<1>7. /\ aa + c + r + hh + bc + bl + g + k = a + cc + rr + h + bc + bl + g + kk
      /\ ll + h + rr + pp + bd + bl = l + hh + r + p + bd + bl
  <2> HIDE DEF a, aa, l, ll, c, cc, h, hh, r, rr, p, pp, k, kk, bl, bd, bc, g
  <2> QED BY <1>3, <1>4, <1>5, <1>6
<1> QED BY <1>1, <1>2, <1>7, AlignedBy

(* A step that neither writes the wallet of u nor an entry for u. *)
LEMMA NothingMoved ==
  ASSUME FundTypes, FundTypes', Typed, Typed', ledger' = ledger,
         \A c \in Bets : GainKept(c), NEW u \in Users,
         wallet'[u] = wallet[u],
         \A w \in Withdrawals : HoldGainOf(u, w)' = HoldGainOf(u, w),
         \A d \in Deposits : CreditOf(u, d)' = CreditOf(u, d),
         \A w \in Withdrawals, k \in WithdrawalEntries : MoveOf(u, k, w)' = MoveOf(u, k, w)
  PROVE  Aligned(u)
<1>1. Credited(u)' = Credited(u)
  <2>1. [d \in Deposits |-> CreditOf(u, d)'] = [d \in Deposits |-> CreditOf(u, d)] OBVIOUS
  <2> QED BY <2>1 DEF Credited, CreditOf
<1>2. ASSUME NEW k \in WithdrawalEntries PROVE Moved(u, k)' = Moved(u, k)
  <2>1. [w \in Withdrawals |-> MoveOf(u, k, w)'] = [w \in Withdrawals |-> MoveOf(u, k, w)]
    OBVIOUS
  <2> QED BY <2>1 DEF Moved, MoveOf
<1>3. HoldGain(u)' = HoldGain(u)
  <2>1. [w \in Withdrawals |-> HoldGainOf(u, w)'] = [w \in Withdrawals |-> HoldGainOf(u, w)]
    OBVIOUS
  <2> QED BY <2>1 DEF HoldGain, HoldGainOf
<1> QED BY <1>1, <1>2, <1>3, FundedBy DEF WithdrawalEntries

(* The types both ledgers rest on. *)
LEMMA LedgerTypes == ExchangeConsistent => FundTypes /\ Typed
BY DEF ExchangeConsistent, FundingTypeOK, FundTypes, Sound

(* The same for the next state. *)
LEMMA LedgerTypesPrime == ExchangeConsistent' => FundTypes' /\ Typed'
BY DEF ExchangeConsistent, FundingTypeOK, FundTypes, Sound

(* A betting step moves the balances as its entries say. *)
LEMMA BettingAligned ==
  ASSUME ExchangeConsistent, NEW t \in Workers, BettingStep(t), NEW u \in Users
  PROVE  Aligned(u)
<1>1. FundTypes /\ Typed /\ FundTypes' /\ Typed'
  BY LedgerTypes, LedgerTypesPrime, BettingStepConsistent
<1>2. UNCHANGED <<deposit, withdrawal, credits, moves>> BY DEF BettingStep, fund
<1>3. MoneyMove BY <1>1, ServiceMoves DEF BettingStep, ExchangeConsistent
<1>4. /\ \A d \in Deposits : CreditOf(u, d)' = CreditOf(u, d)
      /\ \A w \in Withdrawals, k \in WithdrawalEntries : MoveOf(u, k, w)' = MoveOf(u, k, w)
      /\ \A w \in Withdrawals : HoldGainOf(u, w)' = HoldGainOf(u, w)
  BY <1>2 DEF CreditOf, MoveOf, HoldGainOf
<1>5. CASE wallet' = wallet /\ ledger' = ledger /\ \A c \in Bets : GainKept(c)
  BY <1>1, <1>4, <1>5, NothingMoved
<1>6. CASE \E b \in Bets : Explained(b)
  <2>1. PICK b \in Bets : Explained(b) BY <1>6
  <2>2. Credited(u)' = Credited(u) BY <1>2 DEF Credited
  <2>3. \A k \in WithdrawalEntries : Moved(u, k)' = Moved(u, k) BY <1>2 DEF Moved
  <2>4. /\ Credited(u) \in Nat /\ \A k \in WithdrawalEntries : Moved(u, k) \in Nat
        /\ HoldGain(u) \in Nat
    BY <1>1, FundTotals
  <2>10. HoldGain(u)' = HoldGain(u) BY <1>2 DEF HoldGain
  <2> DEFINE a == wallet[u].available  aa == wallet'[u].available
             l == wallet[u].locked     ll == wallet'[u].locked
             c == Credited(u)
             h == Moved(u, "WITHDRAWAL_HOLD")
             r == Moved(u, "WITHDRAWAL_RELEASE")
             p == Moved(u, "WITHDRAWAL")
             bl == BetLocks(u)    bbl == BetLocks(u)'
             bd == BetDebits(u)   bbd == BetDebits(u)'
             bc == BetCredits(u)  bbc == BetCredits(u)'
             g == StakeGain(u)    gg == StakeGain(u)'
             k == HoldGain(u)
  <2>5. /\ bl \in Nat /\ bbl \in Nat /\ bd \in Nat /\ bbd \in Nat /\ bc \in Nat /\ bbc \in Nat
        /\ ll + bbd + bl = l + bd + bbl
        /\ aa + bc + bbl + g = a + bbc + bl + gg
    BY <1>1, <2>1, ExplainedMoves
  <2>11. g \in Nat BY <1>1, GainTypes DEF GainsTyped
  <2>12. gg \in Nat BY <1>1, GainTypesNext DEF GainsTyped
  <2>6. a \in Nat /\ aa \in Nat /\ l \in Nat /\ ll \in Nat BY <1>1 DEF Typed, Wallet
  <2>7. c \in Nat /\ h \in Nat /\ r \in Nat /\ p \in Nat /\ k \in Nat
    BY <2>4 DEF WithdrawalEntries
  <2>8. /\ aa + c + r + h + bc + bbl + g + k = a + c + r + h + bbc + bl + gg + k
        /\ ll + h + r + p + bbd + bl = l + h + r + p + bd + bbl
    <3> HIDE DEF a, aa, l, ll, c, h, r, p, bl, bbl, bd, bbd, bc, bbc, g, gg, k
    <3> QED BY <2>5, <2>6, <2>7, <2>11, <2>12
  <2>9. /\ Moved(u, "WITHDRAWAL_HOLD")' = h /\ Moved(u, "WITHDRAWAL_RELEASE")' = r
        /\ Moved(u, "WITHDRAWAL")' = p
    BY <2>3 DEF WithdrawalEntries
  <2> QED BY <1>1, <2>2, <2>8, <2>9, <2>10, AlignedBy
<1> QED BY <1>3, <1>5, <1>6 DEF MoneyMove

(* A funding commit writes no betting entry. *)
LEMMA FundingKeepsBetting ==
  ASSUME NEW t \in Workers, FundingStep(t)
  PROVE  UNCHANGED betting
<1>1. CASE \/ AdminDeposits(t) \/ AdminWithdrawals(t) \/ (\E d \in Deposits : PayfastItn(t, d))
           \/ \E u \in Users, w \in Withdrawals, a \in WithdrawalInputs :
                CreateWithdrawal(t, u, w, a)
  BY <1>1 DEF AdminDeposits, AdminWithdrawals, PayfastItn, CompleteDeposit, FailDeposit,
     ApproveWithdrawal, EndWithdrawal, CreateWithdrawal
<1>2. CASE CreditDeposit(t) \/ InsertWithdrawal(t) \/ HoldWithdrawal(t) \/ EndLock(t)
  BY <1>2 DEF CreditDeposit, InsertWithdrawal, HoldWithdrawal, EndLock, LockOnly
<1>3. CASE \/ CompleteDepositCommit(t) \/ CompleteDepositRefused(t) \/ FailDepositCommit(t)
           \/ HoldRefused(t) \/ CreateWithdrawalCommit(t) \/ ApproveCommit(t)
           \/ EndRefused(t) \/ EndCommit(t)
  BY <1>3 DEF CompleteDepositCommit, CompleteDepositRefused, FailDepositCommit, HoldRefused,
     CreateWithdrawalCommit, ApproveCommit, EndRefused, EndCommit
<1> QED BY <1>1, <1>2, <1>3 DEF FundingStep

(* complete_deposit credits the balance and writes the DEPOSIT entry. *)
LEMMA CompleteDepositAligned ==
  ASSUME ExchangeConsistent, NEW t \in Workers, CompleteDepositCommit(t), NEW v \in Users
  PROVE  Aligned(v)
<1>1. FundingTypeOK /\ FundingSound /\ FundTypes /\ Typed /\ FundTypes' /\ Typed'
  BY LedgerTypes, LedgerTypesPrime, CompleteDepositCommitStep DEF ExchangeConsistent
<1>2. CompletionOK(t) /\ pc[t] = "deposit_commit"
  BY <1>1 DEF CompleteDepositCommit, FundingSound, OrderOK
<1>3. PICK e \in Deposits, u \in Users, n \in Nat :
        e = order[t].deposit /\ u = order[t].user /\ n = order[t].amount
  BY <1>1, <1>2 DEF CompletionOK, FundingTypeOK, Order
<1>4. deposit[e].user_id = u /\ snap[t][u] = wallet[u]
  BY <1>2, <1>3 DEF CompletionOK, HoldsFresh
<1>5. /\ wallet' = [wallet EXCEPT ![u].available = snap[t][u].available + n]
      /\ credits' = [credits EXCEPT ![e] = @ + n]
      /\ \E r : deposit' = [deposit EXCEPT ![e].status = "completed",
                                           ![e].provider_reference = r]
      /\ UNCHANGED <<betting, withdrawal, payment, moves>>
  BY <1>3 DEF CompleteDepositCommit
<1>6. /\ ledger' = ledger /\ withdrawal' = withdrawal /\ moves' = moves
      /\ \A c \in Bets : GainKept(c)
  BY <1>5 DEF betting, GainKept
<1>7. /\ deposit'[e].user_id = u /\ credits'[e] = credits[e] + n
      /\ \A d \in Deposits \ {e} : deposit'[d] = deposit[d] /\ credits'[d] = credits[d]
  <2>1. deposit[e] \in Deposit BY <1>1 DEF FundTypes
  <2> QED BY <1>1, <1>4, <1>5, <2>1 DEF FundTypes, Deposit
<1>8. /\ \A w \in Withdrawals, k \in WithdrawalEntries : MoveOf(v, k, w)' = MoveOf(v, k, w)
      /\ \A w \in Withdrawals : HoldGainOf(v, w)' = HoldGainOf(v, w)
  BY <1>6 DEF MoveOf, HoldGainOf
<1>9. CASE v # u
  <2>1. wallet'[v] = wallet[v] BY <1>1, <1>5, <1>9 DEF Typed
  <2>2. \A d \in Deposits : CreditOf(v, d)' = CreditOf(v, d)
    BY <1>4, <1>7, <1>9 DEF CreditOf
  <2> QED BY <1>1, <1>6, <1>8, <2>1, <2>2, NothingMoved
<1>10. CASE v = u
  <2>1. wallet'[v].available = wallet[v].available + n /\ wallet'[v].locked = wallet[v].locked
    <3>1. wallet[u] \in Wallet BY <1>1 DEF Typed
    <3> QED BY <1>1, <1>4, <1>5, <1>10, <3>1 DEF Typed, Wallet
  <2>2. CreditOf(v, e)' = CreditOf(v, e) + n BY <1>4, <1>7, <1>10 DEF CreditOf
  <2>3. \A d \in Deposits \ {e} : CreditOf(v, d)' = CreditOf(v, d)
    BY <1>7 DEF CreditOf
  <2>4. /\ CreditOf(v, e) \in Nat
        /\ Credited(v)' + CreditOf(v, e) = Credited(v) + CreditOf(v, e)'
    BY <1>1, <2>3, CreditedUpdate
  <2>5. \A k \in WithdrawalEntries : Moved(v, k)' = Moved(v, k) BY <1>6 DEF Moved
  <2>6. Credited(v) \in Nat /\ Credited(v)' \in Nat
        /\ (\A k \in WithdrawalEntries : Moved(v, k) \in Nat) /\ HoldGain(v) \in Nat
    BY <1>1, FundTotals
  <2>12. HoldGain(v)' = HoldGain(v) BY <1>6 DEF HoldGain
  <2>7. Credited(v)' = Credited(v) + n BY <2>2, <2>4, <2>6
  <2>8. wallet[v].available \in Nat /\ wallet[v].locked \in Nat BY <1>1 DEF Typed, Wallet
  <2> DEFINE a == wallet[v].available
             l == wallet[v].locked
             c == Credited(v)
             h == Moved(v, "WITHDRAWAL_HOLD")
             r == Moved(v, "WITHDRAWAL_RELEASE")
             p == Moved(v, "WITHDRAWAL")
             g == HoldGain(v)
  <2>9. h \in Nat /\ r \in Nat /\ p \in Nat
        /\ Moved(v, "WITHDRAWAL_HOLD")' = h /\ Moved(v, "WITHDRAWAL_RELEASE")' = r
        /\ Moved(v, "WITHDRAWAL")' = p
    BY <2>5, <2>6 DEF WithdrawalEntries
  <2>10. (a + n) + c + r + h + g = a + (c + n) + r + h + g
    <3> HIDE DEF a, c, r, h, g
    <3> QED BY <2>6, <2>8, <2>9 DEF a, c, g
  <2>11. l + h + r + p = l + h + r + p OBVIOUS
  <2> QED BY <1>1, <1>6, <2>1, <2>7, <2>9, <2>10, <2>11, <2>12, FundedBy
<1> QED BY <1>9, <1>10

(* A commit that moves amount n of withdrawal e with one entry, and leaves *)
(* g of it where it was.                                                   *)
LEMMA WithdrawalMoved ==
  ASSUME FundTypes, FundTypes', Typed, Typed', ledger' = ledger,
         \A c \in Bets : GainKept(c), UNCHANGED <<deposit, credits>>,
         NEW e \in Withdrawals, NEW u \in Users, NEW n \in Nat, NEW k \in WithdrawalEntries,
         NEW g \in Nat, HoldGainOf(u, e)' = HoldGainOf(u, e) + g,
         k # "WITHDRAWAL_HOLD" => g = 0, withdrawal'[e].user_id = u,
         withdrawal[e].user_id = u \/ \A x \in WithdrawalEntries : moves[e][x] = 0,
         moves'[e][k] = moves[e][k] + n,
         \A x \in WithdrawalEntries : x # k => moves'[e][x] = moves[e][x],
         \A w \in Withdrawals \ {e} : withdrawal'[w] = withdrawal[w] /\ moves'[w] = moves[w],
         NEW v \in Users,
         v # u => wallet'[v] = wallet[v] /\ withdrawal[e].user_id # v,
         v = u => CASE k = "WITHDRAWAL_HOLD" ->
                         /\ wallet'[v].available + n = wallet[v].available + g
                         /\ wallet'[v].locked = wallet[v].locked + n
                    [] k = "WITHDRAWAL_RELEASE" ->
                         /\ wallet'[v].available = wallet[v].available + n
                         /\ wallet'[v].locked + n = wallet[v].locked
                    [] OTHER ->
                         /\ wallet'[v].available = wallet[v].available
                         /\ wallet'[v].locked + n = wallet[v].locked
  PROVE  Aligned(v)
<1>1. \A d \in Deposits : CreditOf(v, d)' = CreditOf(v, d) BY DEF CreditOf
<1>2. \A w \in Withdrawals \ {e}, x \in WithdrawalEntries : MoveOf(v, x, w)' = MoveOf(v, x, w)
  BY DEF MoveOf
<1>3. CASE v # u
  <2>1. \A x \in WithdrawalEntries : MoveOf(v, x, e)' = MoveOf(v, x, e)
    BY <1>3 DEF MoveOf
  <2>2. \A w \in Withdrawals : HoldGainOf(v, w)' = HoldGainOf(v, w)
    BY <1>3 DEF HoldGainOf
  <2> QED BY <1>1, <1>2, <1>3, <2>1, <2>2, NothingMoved
<1>4. CASE v = u
  <2>1. /\ MoveOf(v, k, e)' = MoveOf(v, k, e) + n
        /\ \A x \in WithdrawalEntries : x # k => MoveOf(v, x, e)' = MoveOf(v, x, e)
    <3>1. \A x \in WithdrawalEntries : MoveOf(v, x, e) = moves[e][x]
      BY <1>4 DEF MoveOf
    <3>2. \A x \in WithdrawalEntries : MoveOf(v, x, e)' = moves'[e][x]
      BY <1>4 DEF MoveOf
    <3> QED BY <3>1, <3>2
  <2>2. Credited(v)' = Credited(v) BY DEF Credited
  <2>3. Credited(v) \in Nat
        /\ \A x \in WithdrawalEntries : Moved(v, x) \in Nat /\ Moved(v, x)' \in Nat
    BY FundTotals
  <2>4. ASSUME NEW x \in WithdrawalEntries
        PROVE  Moved(v, x)' = IF x = k THEN Moved(v, x) + n ELSE Moved(v, x)
    <3>1. /\ MoveOf(v, x, e) \in Nat
          /\ Moved(v, x)' + MoveOf(v, x, e) = Moved(v, x) + MoveOf(v, x, e)'
      BY <1>2, MovedUpdate
    <3>2. MoveOf(v, x, e)' = IF x = k THEN MoveOf(v, x, e) + n ELSE MoveOf(v, x, e)
      BY <2>1
    <3> QED BY <2>3, <3>1, <3>2
  <2>12. HoldGain(v) \in Nat /\ HoldGain(v)' = HoldGain(v) + g
    <3>1. /\ HoldGainOf(v, e) \in Nat
          /\ HoldGain(v)' + HoldGainOf(v, e) = HoldGain(v) + HoldGainOf(v, e)'
      BY HoldGainUpdate
    <3>2. HoldGain(v) \in Nat /\ HoldGain(v)' \in Nat BY FundTotals
    <3>3. HoldGainOf(v, e)' = HoldGainOf(v, e) + g BY <1>4
    <3> QED BY <3>1, <3>2, <3>3
  <2> DEFINE a == wallet[v].available  aa == wallet'[v].available
             l == wallet[v].locked     ll == wallet'[v].locked
             c == Credited(v)
             h == Moved(v, "WITHDRAWAL_HOLD")     hh == Moved(v, "WITHDRAWAL_HOLD")'
             r == Moved(v, "WITHDRAWAL_RELEASE")  rr == Moved(v, "WITHDRAWAL_RELEASE")'
             p == Moved(v, "WITHDRAWAL")          pp == Moved(v, "WITHDRAWAL")'
             y == HoldGain(v)                     yy == HoldGain(v)'
  <2>5. a \in Nat /\ aa \in Nat /\ l \in Nat /\ ll \in Nat BY DEF Typed, Wallet
  <2>6. /\ c \in Nat /\ h \in Nat /\ r \in Nat /\ p \in Nat
        /\ y \in Nat /\ yy = y + g
    BY <2>3, <2>12 DEF WithdrawalEntries
  <2>7. /\ hh = IF k = "WITHDRAWAL_HOLD" THEN h + n ELSE h
        /\ rr = IF k = "WITHDRAWAL_RELEASE" THEN r + n ELSE r
        /\ pp = IF k = "WITHDRAWAL" THEN p + n ELSE p
    BY <2>4 DEF WithdrawalEntries
  <2>8. k \in {"WITHDRAWAL_HOLD", "WITHDRAWAL_RELEASE", "WITHDRAWAL"}
    BY DEF WithdrawalEntries
  <2>9. CASE k = "WITHDRAWAL_HOLD"
    <3>1. aa + n = a + g /\ ll = l + n /\ hh = h + n /\ rr = r /\ pp = p BY <1>4, <2>7, <2>9
    <3>2. /\ aa + c + r + hh + y = a + c + rr + h + yy
          /\ ll + h + rr + pp = l + hh + r + p
      <4> HIDE DEF a, aa, l, ll, c, h, hh, r, rr, p, pp, y, yy
      <4> QED BY <2>5, <2>6, <3>1
    <3> QED BY <2>2, <3>2, FundedBy
  <2>10. CASE k = "WITHDRAWAL_RELEASE"
    <3>1. aa = a + n /\ ll + n = l /\ hh = h /\ rr = r + n /\ pp = p /\ g = 0
      BY <1>4, <2>7, <2>10
    <3>2. /\ aa + c + r + hh + y = a + c + rr + h + yy
          /\ ll + h + rr + pp = l + hh + r + p
      <4> HIDE DEF a, aa, l, ll, c, h, hh, r, rr, p, pp, y, yy
      <4> QED BY <2>5, <2>6, <3>1
    <3> QED BY <2>2, <3>2, FundedBy
  <2>11. CASE k = "WITHDRAWAL"
    <3>1. aa = a /\ ll + n = l /\ hh = h /\ rr = r /\ pp = p + n /\ g = 0
      BY <1>4, <2>7, <2>11
    <3>2. /\ aa + c + r + hh + y = a + c + rr + h + yy
          /\ ll + h + rr + pp = l + hh + r + p
      <4> HIDE DEF a, aa, l, ll, c, h, hh, r, rr, p, pp, y, yy
      <4> QED BY <2>5, <2>6, <3>1
    <3> QED BY <2>2, <3>2, FundedBy
  <2> QED BY <2>8, <2>9, <2>10, <2>11
<1> QED BY <1>3, <1>4

(* create_withdrawal holds the amount, and writes the HOLD entry, exactly  *)
(* when the wallet is still the one it read.                               *)
LEMMA HoldAligned ==
  ASSUME ExchangeConsistent, NEW t \in Workers, CreateWithdrawalCommit(t), NEW v \in Users
  PROVE  Aligned(v) \/ (StaleHold(t) /\ pc'[t] = "idle" /\ order[t].user = v)
<1>1. FundingTypeOK /\ FundingSound /\ FundTypes /\ Typed /\ FundTypes' /\ Typed'
  BY LedgerTypes, LedgerTypesPrime, CreateWithdrawalCommitStep DEF ExchangeConsistent
<1>2. HoldOK(t) /\ pc[t] = "withdraw_commit"
  BY <1>1 DEF CreateWithdrawalCommit, FundingSound, OrderOK
<1>3. PICK e \in Withdrawals, u \in Users, n \in Nat, s \in Nat :
        /\ e = order[t].withdrawal /\ u = order[t].user
        /\ n = order[t].amount /\ s = order[t].asked
  BY <1>1, <1>2 DEF HoldOK, FundingTypeOK, Order
<1>4. CASE v = u /\ snap[t][u] # wallet[u]
  <2>1. pc'[t] = "idle" BY <1>1 DEF CreateWithdrawalCommit, FinishOrder, Finish, Typed
  <2> QED BY <1>2, <1>3, <1>4, <2>1 DEF StaleHold
<1>5. CASE v # u \/ snap[t][u] = wallet[u]
  <2>1. withdrawal[e].status = "none" /\ Mills(snap[t][u].available) >= s /\ n = Stored(s)
    BY <1>2, <1>3 DEF HoldOK
  <2>2. withdrawal[e] = NoWithdrawal /\ \A x \in WithdrawalEntries : moves[e][x] = 0
    BY <1>1, <2>1 DEF FundingSound, WithdrawalOK
  <2>3. /\ withdrawal' = [withdrawal EXCEPT ![e] =
                            [NoWithdrawal EXCEPT !.status = "pending", !.user_id = u,
                                                 !.amount = n, !.asked = s]]
        /\ wallet' = [wallet EXCEPT ![u] = hold_withdrawal(snap[t][u], s)]
        /\ moves' = write_withdrawal(e, "WITHDRAWAL_HOLD", n)
        /\ UNCHANGED <<betting, deposit, payment, credits>>
    BY <1>3 DEF CreateWithdrawalCommit
  <2>4. /\ ledger' = ledger /\ UNCHANGED <<deposit, credits>>
        /\ \A c \in Bets : GainKept(c)
    BY <2>3 DEF betting, GainKept
  <2>5. /\ withdrawal'[e].user_id = u /\ withdrawal'[e].asked = s
        /\ \A w \in Withdrawals \ {e} : withdrawal'[w] = withdrawal[w]
    BY <1>1, <2>3 DEF FundTypes, NoWithdrawal
  <2>6. /\ moves'[e]["WITHDRAWAL_HOLD"] = moves[e]["WITHDRAWAL_HOLD"] + n
        /\ \A x \in WithdrawalEntries : x # "WITHDRAWAL_HOLD" => moves'[e][x] = moves[e][x]
        /\ \A w \in Withdrawals \ {e} : moves'[w] = moves[w]
    BY <1>1, <2>3 DEF FundTypes, write_withdrawal, WithdrawalEntries
  <2>7. v # u => wallet'[v] = wallet[v] /\ withdrawal[e].user_id # v
    BY <1>1, <2>2, <2>3, ConstantsAssumption
    DEF ConstantsAssumption, Typed, NoWithdrawal
  <2> DEFINE g == HalfCent(s)
  <2>10. g \in Nat BY StoredAmount
  <2>8. v = u => /\ wallet'[v].available + n = wallet[v].available + g
                 /\ wallet'[v].locked = wallet[v].locked + n
    <3> SUFFICES ASSUME v = u PROVE /\ wallet'[v].available + n = wallet[v].available + g
                                    /\ wallet'[v].locked = wallet[v].locked + n
      OBVIOUS
    <3>1. snap[t][u] = wallet[u] BY <1>5
    <3>2. wallet'[u] = hold_withdrawal(wallet[u], s) BY <1>1, <2>3, <3>1 DEF Typed
    <3>3. wallet[u].available \in Nat /\ wallet[u].locked \in Nat
      BY <1>1 DEF Typed, Wallet
    <3>4. Mills(wallet[u].available) >= s BY <2>1, <3>1
    <3>5. /\ safe_subtract(wallet[u].available, s) = wallet[u].available - n + g
          /\ safe_add(wallet[u].locked, s) = wallet[u].locked + n
      BY <2>1, <3>3, <3>4, RoundedApart
    <3>6. /\ wallet'[u].available = wallet[u].available - n + g
          /\ wallet'[u].locked = wallet[u].locked + n
      BY <3>2, <3>5 DEF hold_withdrawal
    <3> HIDE DEF g
    <3> QED BY <2>10, <3>3, <3>6
  <2>9. "WITHDRAWAL_HOLD" \in WithdrawalEntries BY DEF WithdrawalEntries
  <2>11. HoldGainOf(u, e)' = HoldGainOf(u, e) + g
    <3>1. HoldGainOf(u, e) = 0
      BY <2>2, ConstantsAssumption DEF ConstantsAssumption, HoldGainOf, NoWithdrawal
    <3>2. HoldGainOf(u, e)' = g BY <2>5 DEF HoldGainOf
    <3> HIDE DEF g
    <3> QED BY <2>10, <3>1, <3>2
  <2> HIDE DEF g
  <2> QED BY <1>1, <2>2, <2>4, <2>5, <2>6, <2>7, <2>8, <2>9, <2>10, <2>11, WithdrawalMoved
<1> QED BY <1>4, <1>5

(* The end of a withdrawal releases or pays what it held. *)
LEMMA EndAligned ==
  ASSUME ExchangeConsistent, NEW t \in Workers, EndCommit(t), NEW v \in Users
  PROVE  Aligned(v)
<1>1. FundingTypeOK /\ FundingSound /\ FundTypes /\ Typed /\ FundTypes' /\ Typed'
  BY LedgerTypes, LedgerTypesPrime, EndCommitStep DEF ExchangeConsistent
<1>2. EndOK(t) /\ pc[t] = "withdraw_end" BY <1>1 DEF EndCommit, FundingSound, OrderOK
<1>3. PICK e \in Withdrawals, u \in Users, n \in Nat :
        e = order[t].withdrawal /\ u = order[t].user /\ n = order[t].amount
  BY <1>1, <1>2 DEF EndOK, FundingTypeOK, Order
<1>4. withdrawal[e].user_id = u /\ snap[t][u] = wallet[u] /\ wallet[u].locked >= n
  BY <1>2, <1>3 DEF EndOK, HoldsFresh
<1>5. PICK paid \in BOOLEAN : paid <=> order[t].action = "complete" OBVIOUS
<1>6. PICK k \in WithdrawalEntries : k = IF paid THEN "WITHDRAWAL" ELSE "WITHDRAWAL_RELEASE"
  BY DEF WithdrawalEntries
<1>7. /\ wallet' = [wallet EXCEPT ![u] =
                      IF paid THEN finalize_withdrawal_debit(wallet[u], n)
                              ELSE release_withdrawal_hold(wallet[u], n)]
      /\ moves' = write_withdrawal(e, k, n)
      /\ \E s : withdrawal' = [withdrawal EXCEPT ![e].status = s]
      /\ UNCHANGED <<betting, deposit, payment, credits>>
  BY <1>3, <1>4, <1>5, <1>6 DEF EndCommit
<1>8. /\ ledger' = ledger /\ UNCHANGED <<deposit, credits>>
      /\ \A c \in Bets : GainKept(c)
  BY <1>7 DEF betting, GainKept
<1>9. /\ withdrawal'[e].user_id = u /\ withdrawal'[e].asked = withdrawal[e].asked
      /\ \A w \in Withdrawals \ {e} : withdrawal'[w] = withdrawal[w]
  <2>1. withdrawal[e] \in Withdrawal BY <1>1 DEF FundTypes
  <2> QED BY <1>1, <1>4, <1>7, <2>1 DEF FundTypes, Withdrawal
<1>10. /\ moves'[e][k] = moves[e][k] + n
       /\ \A x \in WithdrawalEntries : x # k => moves'[e][x] = moves[e][x]
       /\ \A w \in Withdrawals \ {e} : moves'[w] = moves[w]
  BY <1>1, <1>7 DEF FundTypes, write_withdrawal
<1>11. v # u => wallet'[v] = wallet[v] /\ withdrawal[e].user_id # v
  BY <1>1, <1>4, <1>7 DEF Typed
<1>12. wallet[u].available \in Nat /\ wallet[u].locked \in Nat BY <1>1 DEF Typed, Wallet
<1>15. HoldGainOf(u, e)' = HoldGainOf(u, e) + 0
  <2>1. HoldGainOf(u, e) \in Nat BY <1>1, <1>9, HoldGainUpdate
  <2>2. HoldGainOf(u, e)' = HoldGainOf(u, e) BY <1>4, <1>9 DEF HoldGainOf
  <2> QED BY <2>1, <2>2
<1>13. CASE paid
  <2>1. k = "WITHDRAWAL" BY <1>6, <1>13
  <2>2. wallet'[u] = finalize_withdrawal_debit(wallet[u], n) BY <1>1, <1>7, <1>13 DEF Typed
  <2>3. wallet'[u].available = wallet[u].available /\ wallet'[u].locked + n = wallet[u].locked
    BY <1>4, <1>12, <2>2 DEF finalize_withdrawal_debit
  <2> QED BY <1>1, <1>4, <1>8, <1>9, <1>10, <1>11, <1>15, <2>1, <2>3, WithdrawalMoved
<1>14. CASE ~paid
  <2>1. k = "WITHDRAWAL_RELEASE" BY <1>6, <1>14
  <2>2. wallet'[u] = release_withdrawal_hold(wallet[u], n) BY <1>1, <1>7, <1>14 DEF Typed
  <2>3. /\ wallet'[u].available = wallet[u].available + n
        /\ wallet'[u].locked + n = wallet[u].locked
    BY <1>4, <1>12, <2>2 DEF release_withdrawal_hold
  <2> QED BY <1>1, <1>4, <1>8, <1>9, <1>10, <1>11, <1>15, <2>1, <2>3, WithdrawalMoved
<1> QED BY <1>13, <1>14

(* The other funding steps write no balance and no entry. *)
LEMMA QuietFunding ==
  ASSUME ExchangeConsistent, NEW t \in Workers, FundingStep(t),
         ~CompleteDepositCommit(t), ~CreateWithdrawalCommit(t), ~EndCommit(t)
  PROVE  /\ wallet' = wallet /\ credits' = credits /\ moves' = moves
         /\ \A d \in Deposits : deposit'[d].user_id = deposit[d].user_id
         /\ \A w \in Withdrawals : /\ withdrawal'[w].user_id = withdrawal[w].user_id
                                   /\ withdrawal'[w].asked = withdrawal[w].asked
<1>1. CASE \/ AdminDeposits(t) \/ AdminWithdrawals(t) \/ (\E d \in Deposits : PayfastItn(t, d))
           \/ \E u \in Users, w \in Withdrawals, a \in WithdrawalInputs :
                CreateWithdrawal(t, u, w, a)
  BY <1>1 DEF AdminDeposits, AdminWithdrawals, PayfastItn, CompleteDeposit, FailDeposit,
     ApproveWithdrawal, EndWithdrawal, CreateWithdrawal
<1>2. CASE CreditDeposit(t) \/ InsertWithdrawal(t) \/ HoldWithdrawal(t) \/ EndLock(t)
  BY <1>2 DEF CreditDeposit, InsertWithdrawal, HoldWithdrawal, EndLock, LockOnly
<1>3. CASE CompleteDepositRefused(t) \/ HoldRefused(t) \/ EndRefused(t)
  BY <1>3 DEF CompleteDepositRefused, HoldRefused, EndRefused
<1>4. CASE FailDepositCommit(t)
  <2>1. \A d \in Deposits : deposit[d] \in Deposit BY DEF ExchangeConsistent, FundingTypeOK
  <2>2. deposit' = [deposit EXCEPT ![order[t].deposit].status = "failed"]
        /\ UNCHANGED <<wallet, withdrawal, credits, moves>>
    BY <1>4 DEF FailDepositCommit
  <2>3. ASSUME NEW d \in Deposits PROVE deposit'[d].user_id = deposit[d].user_id
    BY <2>1, <2>2 DEF ExchangeConsistent, FundingTypeOK, Deposit
  <2> QED BY <2>2, <2>3
<1>5. CASE ApproveCommit(t)
  <2>1. \A w \in Withdrawals : withdrawal[w] \in Withdrawal
    BY DEF ExchangeConsistent, FundingTypeOK
  <2>2. withdrawal' = [withdrawal EXCEPT ![order[t].withdrawal].status = "approved",
                                         ![order[t].withdrawal].approved = TRUE]
        /\ UNCHANGED <<wallet, deposit, credits, moves>>
    BY <1>5 DEF ApproveCommit
  <2>3. ASSUME NEW w \in Withdrawals
        PROVE  /\ withdrawal'[w].user_id = withdrawal[w].user_id
               /\ withdrawal'[w].asked = withdrawal[w].asked
    BY <2>1, <2>2 DEF ExchangeConsistent, FundingTypeOK, Withdrawal
  <2> QED BY <2>2, <2>3
<1> QED BY <1>1, <1>2, <1>3, <1>4, <1>5 DEF FundingStep

(* Every step but a stale hold keeps balances and ledger aligned. *)
LEMMA StepAligned ==
  ASSUME ExchangeConsistent, ExchangeNext, NEW v \in Users
  PROVE  \/ Aligned(v)
         \/ \E t \in Workers : StaleHold(t) /\ pc'[t] = "idle" /\ order[t].user = v
<1>1. FundTypes /\ Typed /\ FundTypes' /\ Typed'
  BY LedgerTypes, LedgerTypesPrime, NextExchange
<1>2. ASSUME wallet' = wallet, ledger' = ledger, bet' = bet, moves' = moves,
             \A d \in Deposits : CreditOf(v, d)' = CreditOf(v, d),
             \A w \in Withdrawals : /\ withdrawal'[w].user_id = withdrawal[w].user_id
                                    /\ withdrawal'[w].asked = withdrawal[w].asked
      PROVE  Aligned(v)
  <2>1. /\ \A w \in Withdrawals, k \in WithdrawalEntries : MoveOf(v, k, w)' = MoveOf(v, k, w)
        /\ \A w \in Withdrawals : HoldGainOf(v, w)' = HoldGainOf(v, w)
        /\ \A c \in Bets : GainKept(c)
    BY <1>2 DEF MoveOf, HoldGainOf, GainKept
  <2> QED BY <1>1, <1>2, <2>1, NothingMoved
<1>3. ASSUME NEW t \in Workers, FundingStep(t), ~CompleteDepositCommit(t),
             ~CreateWithdrawalCommit(t), ~EndCommit(t)
      PROVE  Aligned(v)
  <2>1. /\ wallet' = wallet /\ credits' = credits /\ moves' = moves
        /\ \A d \in Deposits : deposit'[d].user_id = deposit[d].user_id
        /\ \A w \in Withdrawals : /\ withdrawal'[w].user_id = withdrawal[w].user_id
                                  /\ withdrawal'[w].asked = withdrawal[w].asked
    BY <1>3, QuietFunding
  <2>2. \A d \in Deposits : CreditOf(v, d)' = CreditOf(v, d) BY <2>1 DEF CreditOf
  <2>3. ledger' = ledger /\ bet' = bet BY <1>3, FundingKeepsBetting DEF betting
  <2> QED BY <1>2, <2>1, <2>2, <2>3
<1>4. CASE \/ Tick /\ UNCHANGED fund
           \/ \E t \in Workers : ExchangeAbort(t)
  <2>1. /\ wallet' = wallet /\ ledger' = ledger /\ bet' = bet /\ moves' = moves
        /\ credits' = credits /\ deposit' = deposit /\ withdrawal' = withdrawal
    BY <1>4 DEF Tick, ExchangeAbort, fund, rows
  <2>2. \A d \in Deposits : CreditOf(v, d)' = CreditOf(v, d) BY <2>1 DEF CreditOf
  <2> QED BY <1>2, <2>1, <2>2
<1>5. CASE FundingArrives
  <2>1. /\ wallet' = wallet /\ ledger' = ledger /\ bet' = bet /\ moves' = moves
        /\ credits' = credits /\ withdrawal' = withdrawal
    BY <1>5 DEF FundingArrives, CreateDeposit, InitiatePayfastDeposit, PayFastDecides,
                vars, rows
  <2>2. ASSUME NEW d \in Deposits PROVE CreditOf(v, d)' = CreditOf(v, d)
    <3>1. deposit[d].status # "none" => deposit'[d] = deposit[d]
      BY <1>1, <1>5 DEF FundingArrives, CreateDeposit, InitiatePayfastDeposit,
         PayFastDecides, FundTypes
    <3>2. deposit[d].status = "none" => credits[d] = 0
      BY DEF ExchangeConsistent, FundingSound, DepositOK
    <3> QED BY <2>1, <3>1, <3>2 DEF CreditOf
  <2> QED BY <1>2, <2>1, <2>2
<1> QED
  BY <1>3, <1>4, <1>5, BettingAligned, CompleteDepositAligned, HoldAligned, EndAligned
  DEF ExchangeNext

(* For any number of users and requests and any amounts asked for: half    *)
(* cents apart, the only step that moves a balance away from its ledger is *)
(* the commit of a create_withdrawal on a wallet that changed after its    *)
(* unlocked read.                                                          *)
THEOREM StaleHoldsAloneDiverge == ExchangeSpec => OnlyStaleHoldsDiverge
<1>1. ExchangeConsistent /\ [ExchangeNext]_ExchangeVars
        => [\A u \in Users :
              \/ \E t \in Workers : StaleHold(t) /\ pc'[t] = "idle" /\ order[t].user = u
              \/ /\ Unexplained(u)' = Unexplained(u)
                 /\ wallet'[u].locked - LedgerLocked(u)'
                    = wallet[u].locked - LedgerLocked(u)]_ExchangeVars
  BY StepAligned DEF Aligned
<1> QED BY <1>1, ExchangeConsistentAlways, PTL DEF ExchangeSpec, OnlyStaleHoldsDiverge
=============================================================================
