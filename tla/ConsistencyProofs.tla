------------------------- MODULE ConsistencyProofs --------------------------
(***************************************************************************)
(* Proof that Sound is an invariant of the betting core, for any number of *)
(* users, bets, matches and requests in flight.                            *)
(*                                                                         *)
(* The argument is rely/guarantee.  Guarantees(t) is what a step of worker *)
(* t never does to the others: touch their sessions, take or drop their    *)
(* locks, change a row they have locked, or change the terms of a bet that *)
(* exists.  Under it the facts of every other request survive (Rely), so   *)
(* that an action only has to be looked at for its own worker.             *)
(***************************************************************************)
EXTENDS Consistency, FiniteSetTheorems, WellFoundedInduction, TLAPS

RowTypes ==
  /\ now \in Nat /\ crashes \in Nat /\ platform \in Nat
  /\ match \in [Matches -> Match]
  /\ bet \in [Bets -> Bet]
  /\ wallet \in [Users -> Wallet]
  /\ ledger \in [Bets -> [Users -> [EntryTypes -> Nat]]]
  /\ events \in [Bets -> [EventTypes -> Nat]]

LockTypes ==
  /\ betLock \in [Bets -> Null(Workers)]
  /\ walletLock \in [Users -> Null(Workers)]
  /\ matchLock \in [Matches -> Null(Workers)]
  /\ platformLock \in Null(Workers)

WorkTypes ==
  /\ pc = [t \in Workers |-> pc[t]]
  /\ req \in [Workers -> Request]
  /\ snap \in [Workers -> [Users -> Wallet]]
  /\ psnap \in [Workers -> Nat]

(* The sessions of the other workers stay as they are ... *)
SessionsKept(t) ==
  \A o \in Workers \ {t} :
    pc'[o] = pc[o] /\ req'[o] = req[o] /\ snap'[o] = snap[o] /\ psnap'[o] = psnap[o]

(* ... and so do their locks; what t gives up or takes was its own or free. *)
LocksKept(t) ==
  /\ \A b \in Bets : \/ betLock'[b] = betLock[b]
                     \/ {betLock[b], betLock'[b]} \subseteq {NoOne, t}
  /\ \A u \in Users : \/ walletLock'[u] = walletLock[u]
                      \/ {walletLock[u], walletLock'[u]} \subseteq {NoOne, t}
  /\ \A m \in Matches : \/ matchLock'[m] = matchLock[m]
                        \/ {matchLock[m], matchLock'[m]} \subseteq {NoOne, t}
  /\ \/ platformLock' = platformLock
     \/ {platformLock, platformLock'} \subseteq {NoOne, t}

(* Rows others have locked, the terms of bets and results are not touched. *)
RowsKept(t) ==
  /\ \A u \in Users : wallet'[u] = wallet[u] \/ walletLock[u] = t
  /\ platform' = platform \/ platformLock = t
  /\ \A b \in Bets :
       /\ bet[b].status # "none" =>
            /\ betLock[b] \in {NoOne, t} \/ bet'[b] = bet[b]
            /\ bet'[b].status # "none"
            /\ bet'[b].creator_id = bet[b].creator_id
            /\ bet'[b].match_id = bet[b].match_id
            /\ bet'[b].stake_amount = bet[b].stake_amount
       /\ bet[b].status = "none" =>
            bet'[b] = bet[b] \/ (pc[t] = "create_commit" /\ req[t].bet = b)
  /\ \A m \in Matches : match'[m] = match[m] \/ matchLock[m] = t

Guarantees(t) == SessionsKept(t) /\ LocksKept(t) /\ RowsKept(t)

-----------------------------------------------------------------------------

(* Typed in three parts. *)
LEMMA TypeParts == Typed <=> RowTypes /\ LockTypes /\ WorkTypes
BY DEF Typed, RowTypes, LockTypes, WorkTypes

(* The same for the next state. *)
LEMMA TypePartsPrime == Typed' <=> RowTypes' /\ LockTypes' /\ WorkTypes'
BY DEF Typed, RowTypes, LockTypes, WorkTypes

(* An idle session is a request record. *)
LEMMA NoRequestType == NoRequest \in Request
BY DEF NoRequest, Request, Null

(* A step that keeps its guarantees leaves the other requests as they are. *)
LEMMA Rely ==
  ASSUME Sound, NEW t \in Workers, Guarantees(t), Typed',
         NEW o \in Workers \ {t}
  PROVE  RequestOK(o)'
<1> USE ConstantsAssumption
<1>1. /\ pc'[o] = pc[o] /\ req'[o] = req[o] /\ snap'[o] = snap[o]
      /\ RequestOK(o)
  BY DEF Guarantees, SessionsKept, Sound
<1>2. o # NoOne
  BY DEF ConstantsAssumption
<1>3. /\ \A b \in Bets : betLock[b] = o =>
           betLock'[b] = o /\ (bet[b].status # "none" => bet'[b] = bet[b])
      /\ \A u \in Users : walletLock[u] = o => walletLock'[u] = o
      /\ \A m \in Matches : matchLock[m] = o => matchLock'[m] = o /\ match'[m] = match[m]
      /\ platformLock = o => platformLock' = o
  BY <1>2 DEF Guarantees, LocksKept, RowsKept
<1>4. CASE pc[o] \in {"create_wallet", "create_commit"}
  <2>1. CreateOK(o) BY <1>1, <1>4 DEF RequestOK
  <2>2. ~(pc[t] = "create_commit" /\ req[t].bet = req[o].bet)
    BY <1>4 DEF Sound, IdsDistinct
  <2>3. bet'[req[o].bet] = bet[req[o].bet]
    BY <2>1, <2>2 DEF CreateOK, Guarantees, RowsKept
  <2> QED BY <1>1, <1>3, <1>4, <2>1, <2>3 DEF RequestOK, CreateOK, CanPay, SettlePCs
<1>5. CASE pc[o] \in {"accept_wallet", "accept_commit"}
  <2>1. AcceptOK(o) BY <1>1, <1>5 DEF RequestOK
  <2>2. bet'[req[o].bet] = bet[req[o].bet] /\ betLock'[req[o].bet] = o
    BY <1>3, <2>1 DEF AcceptOK
  <2>3. CanPay(o, req[o].user) => CanPay(o, req[o].user)'
    BY <1>1, <1>3, <2>1 DEF AcceptOK, CanPay
  <2>4. AcceptOK(o)'
    BY <1>1, <2>1, <2>2, <2>3 DEF AcceptOK
  <2> QED BY <1>1, <1>5, <2>4 DEF RequestOK, SettlePCs
<1>6. CASE pc[o] \in {"cancel_wallet", "cancel_bet"}
  <2>1. CancelOK(o) BY <1>1, <1>6 DEF RequestOK
  <2>2. /\ bet'[req[o].bet].status # "none"
        /\ bet'[req[o].bet].creator_id = bet[req[o].bet].creator_id
        /\ bet'[req[o].bet].stake_amount = bet[req[o].bet].stake_amount
    BY <2>1 DEF CancelOK, Guarantees, RowsKept
  <2>3. CanRelease(o, req[o].user) => CanRelease(o, req[o].user)'
    BY <1>1, <1>3, <2>1 DEF CancelOK, CanRelease
  <2>4. CancelOK(o)'
    BY <1>1, <2>1, <2>2, <2>3 DEF CancelOK
  <2> QED BY <1>1, <1>6, <2>4 DEF RequestOK, SettlePCs
<1>7. CASE pc[o] \in {"void_creator", "void_opponent", "void_commit"}
  <2>1. VoidOK(o) BY <1>1, <1>7 DEF RequestOK
  <2>2. bet'[req[o].bet] = bet[req[o].bet] /\ betLock'[req[o].bet] = o
    BY <1>3, <2>1 DEF VoidOK
  <2>3. bet[req[o].bet].creator_id \in Users
    BY <2>1 DEF VoidOK, Sound, RowOK
  <2>4. bet[req[o].bet].status = "MATCHED" => bet[req[o].bet].opponent_id \in Users
    BY <2>1 DEF VoidOK, Sound, RowOK, Typed, Bet, Null
  <2>5. \A u \in Users : CanRelease(o, u) => CanRelease(o, u)'
    BY <1>1, <1>3 DEF CanRelease
  <2>6. Refunded(req[o].bet)' = Refunded(req[o].bet) /\ Refunded(req[o].bet) \subseteq Users
    BY <1>1, <2>2, <2>3, <2>4 DEF Refunded
  <2>7. VoidOK(o)'
    BY <1>1, <2>1, <2>2, <2>3, <2>5, <2>6 DEF VoidOK
  <2> QED BY <1>1, <1>7, <2>7 DEF RequestOK, SettlePCs
<1>8. CASE pc[o] \in {"confirm_scan", "confirm_rows"}
  <2>1. ConfirmOK(o) BY <1>1, <1>8 DEF RequestOK
  <2>2. req[o].cached \subseteq Bets BY DEF Sound, Typed, Request
  <2>3. \A b \in req[o].todo : bet'[b].status # "none" /\ bet'[b].match_id = req[o].match
    BY <2>1 DEF ConfirmOK, Guarantees, RowsKept, Sound, Typed, Request
  <2>4. ConfirmOK(o)' BY <1>1, <1>3, <2>1, <2>2, <2>3 DEF ConfirmOK
  <2> QED BY <1>1, <1>8, <2>4 DEF RequestOK, SettlePCs
<1>9. CASE pc[o] \in SettlePCs \ {"settle_next"}
  <2>1. SettleOK(o) BY <1>1, <1>9 DEF RequestOK
  <2>2. bet'[req[o].bet] = bet[req[o].bet] /\ betLock'[req[o].bet] = o
    BY <1>3, <2>1 DEF SettleOK
  <2>3. bet[req[o].bet].creator_id \in Users /\ bet[req[o].bet].opponent_id \in Users
    BY <2>1 DEF SettleOK, Sound, RowOK, Typed, Bet, Null
  <2>4. /\ LockOrder(req[o].bet)' = LockOrder(req[o].bet)
        /\ LockOrder(req[o].bet)[1] \in Users
        /\ LockOrder(req[o].bet)[2] \in Users
    BY <1>1, <2>2, <2>3 DEF LockOrder
  <2>5. Covered(o)' = Covered(o)
    BY <1>1, <2>2 DEF Covered
  <2> QED BY <1>1, <1>3, <1>9, <2>1, <2>2, <2>4, <2>5 DEF RequestOK, SettleOK, SettlePCs
<1>10. CASE pc[o] \notin PCs \ {"idle", "settle_next"}
  BY <1>1, <1>10 DEF RequestOK, PCs, SettlePCs
<1> QED BY <1>4, <1>5, <1>6, <1>7, <1>8, <1>9, <1>10 DEF PCs, SettlePCs

-----------------------------------------------------------------------------
(* The end of a transaction: the locks and the loaded rows of t are gone,  *)
(* the request is over or about to settle its next bet.                    *)
Ends(t) ==
  /\ ReleaseAll(t) /\ DropSession(t)
  /\ \E label \in {"idle", "settle_next"} : Goto(t, label)
  /\ \E r \in Request : req' = [req EXCEPT ![t] = r]

(* Answering a request ends its transaction. *)
LEMMA FinishEnds == ASSUME NEW t \in Workers, Finish(t) PROVE Ends(t)
BY NoRequestType DEF Finish, Ends, Goto

(* So does the rollback between two bets of the settlement loop. *)
LEMMA NextBetEnds ==
  ASSUME NEW t \in Workers, NEW todo \in SUBSET Bets, NextBet(t, todo) PROVE Ends(t)
<1>1. [NoRequest EXCEPT !.todo = todo] \in Request
  BY DEF NoRequest, Request, Null
<1> QED BY <1>1 DEF NextBet, Ends, AfterBet

(* What the end of a transaction does to the locks and the sessions. *)
LEMMA EndsEffect ==
  ASSUME Typed, NEW t \in Workers, Ends(t)
  PROVE  /\ LockTypes' /\ WorkTypes' /\ SessionsKept(t) /\ LocksKept(t)
         /\ pc'[t] \in {"idle", "settle_next"}
         /\ \A u \in Users : walletLock'[u] # NoOne =>
              walletLock'[u] = walletLock[u] /\ walletLock[u] # t
         /\ platformLock' # NoOne => platformLock' = platformLock /\ platformLock # t
<1>1. LockTypes'
  BY DEF Ends, ReleaseAll, Released, Typed, LockTypes, Null
<1>2. WorkTypes'
  <2>1. PICK label \in {"idle", "settle_next"} : pc' = [pc EXCEPT ![t] = label]
    BY DEF Ends, Goto
  <2>2. pc' = [o \in Workers |-> pc'[o]]
    BY <2>1 DEF Typed
  <2>3. req' \in [Workers -> Request]
    BY DEF Ends, Typed
  <2>4. snap' \in [Workers -> [Users -> Wallet]] /\ psnap' \in [Workers -> Nat]
    BY DEF Ends, DropSession, NoWallets, Typed, Wallet
  <2> QED BY <2>2, <2>3, <2>4 DEF WorkTypes
<1>3. SessionsKept(t)
  BY DEF Ends, DropSession, Goto, SessionsKept, Typed
<1>4. LocksKept(t)
  <2>1. \A b \in Bets : betLock'[b] = IF betLock[b] = t THEN NoOne ELSE betLock[b]
    BY DEF Ends, ReleaseAll, Released, Typed
  <2>2. \A u \in Users : walletLock'[u] = IF walletLock[u] = t THEN NoOne ELSE walletLock[u]
    BY DEF Ends, ReleaseAll, Released, Typed
  <2>3. \A m \in Matches : matchLock'[m] = IF matchLock[m] = t THEN NoOne ELSE matchLock[m]
    BY DEF Ends, ReleaseAll, Released, Typed
  <2>4. platformLock' = IF platformLock = t THEN NoOne ELSE platformLock
    BY DEF Ends, ReleaseAll
  <2> QED BY <2>1, <2>2, <2>3, <2>4 DEF LocksKept
<1>5. pc'[t] \in {"idle", "settle_next"}
  BY DEF Ends, Goto, Typed
<1>6. /\ \A u \in Users : walletLock'[u] # NoOne =>
           walletLock'[u] = walletLock[u] /\ walletLock[u] # t
      /\ platformLock' # NoOne => platformLock' = platformLock /\ platformLock # t
  BY DEF Ends, ReleaseAll, Released, Typed
<1> QED BY <1>1, <1>2, <1>3, <1>4, <1>5, <1>6

(* A commit or a rollback preserves the invariant when it keeps the rows   *)
(* of the others and leaves well-formed rows behind.                       *)
LEMMA EndStep ==
  ASSUME Sound, NEW t \in Workers, Ends(t), RowsKept(t), RowTypes',
         \A b \in Bets : RowOK(b)'
  PROVE  Sound' /\ Guarantees(t)
<1> USE ConstantsAssumption
<1>1. /\ LockTypes' /\ WorkTypes' /\ SessionsKept(t) /\ LocksKept(t)
      /\ pc'[t] \in {"idle", "settle_next"}
      /\ \A u \in Users : walletLock'[u] # NoOne =>
           walletLock'[u] = walletLock[u] /\ walletLock[u] # t
      /\ platformLock' # NoOne => platformLock' = platformLock /\ platformLock # t
  BY EndsEffect DEF Sound
<1>2. Typed' BY <1>1, TypePartsPrime
<1>3. Guarantees(t) BY <1>1 DEF Guarantees
<1>4. ASSUME NEW o \in Workers PROVE RequestOK(o)'
  <2>1. CASE o = t BY <1>1, <2>1 DEF RequestOK, SettlePCs
  <2>2. CASE o # t BY <1>2, <1>3, <2>2, Rely
  <2> QED BY <2>1, <2>2
<1>5. IdsDistinct'
  BY <1>1 DEF IdsDistinct, Sound, SessionsKept
<1>6. SessionsFresh'
  <2>1. ASSUME NEW u \in Users, walletLock'[u] # NoOne, pc'[walletLock'[u]] \in PCs
        PROVE  snap'[walletLock'[u]][u] = wallet'[u]
    <3>1. walletLock'[u] = walletLock[u] /\ walletLock[u] \in Workers \ {t}
      BY <1>1, <2>1 DEF Sound, Typed, Null
    <3>2. wallet'[u] = wallet[u] BY <3>1 DEF RowsKept
    <3>3. snap'[walletLock[u]] = snap[walletLock[u]] /\ pc'[walletLock[u]] = pc[walletLock[u]]
      BY <1>1, <3>1 DEF SessionsKept
    <3>4. snap[walletLock[u]][u] = wallet[u] BY <2>1, <3>1, <3>3 DEF Sound, SessionsFresh
    <3> QED BY <3>1, <3>2, <3>3, <3>4
  <2>2. ASSUME platformLock' # NoOne PROVE psnap'[platformLock'] = platform'
    <3>1. platformLock' = platformLock /\ platformLock \in Workers \ {t}
      BY <1>1, <2>2 DEF Sound, Typed, Null
    <3>2. platform' = platform BY <3>1 DEF RowsKept
    <3>3. psnap'[platformLock] = psnap[platformLock] BY <1>1, <3>1 DEF SessionsKept
    <3>4. psnap[platformLock] = platform BY <2>2, <3>1 DEF Sound, SessionsFresh
    <3> QED BY <3>1, <3>2, <3>3, <3>4
  <2> QED BY <2>1, <2>2 DEF SessionsFresh
<1> QED BY <1>2, <1>3, <1>4, <1>5, <1>6 DEF Sound

(* No row is written. *)
LEMMA RowsUnchanged ==
  ASSUME Sound, NEW t \in Workers, UNCHANGED rows
  PROVE  RowsKept(t) /\ (\A b \in Bets : RowOK(b)')
<1>1. RowsKept(t)
  <2>1. wallet' = wallet /\ platform' = platform /\ bet' = bet /\ match' = match BY DEF rows
  <2> QED BY <2>1 DEF RowsKept
<1>2. ASSUME NEW b \in Bets PROVE RowOK(b)'
  BY DEF rows, Sound, RowOK
<1> QED BY <1>1, <1>2

(* A rollback preserves the invariant. *)
LEMMA RollbackStep ==
  ASSUME Sound, NEW t \in Workers, Ends(t), UNCHANGED <<now, rows>>, crashes' \in Nat
  PROVE  Sound' /\ Guarantees(t)
<1>1. RowTypes' BY DEF Sound, Typed, RowTypes, rows
<1> QED BY <1>1, RowsUnchanged, EndStep

(* A step inside a transaction writes no row: it takes free locks, and a   *)
(* wallet or the platform row it locks it also loads.                      *)
LEMMA AdvanceStep ==
  ASSUME Sound, NEW t \in Workers, UNCHANGED <<now, rows, crashes>>,
         LockTypes', WorkTypes', SessionsKept(t), LocksKept(t),
         pc'[t] \in PCs => pc[t] \in PCs,
         \A u \in Users : walletLock'[u] = t /\ pc'[t] \in PCs =>
           snap'[t][u] = wallet[u] \/ (walletLock[u] = t /\ snap'[t][u] = snap[t][u]),
         platformLock' = t =>
           psnap'[t] = platform \/ (platformLock = t /\ psnap'[t] = psnap[t]),
         RequestOK(t)', IdsDistinct'
  PROVE  Sound' /\ Guarantees(t)
<1> USE ConstantsAssumption
<1>1. RowTypes' BY DEF Sound, Typed, RowTypes, rows
<1>2. Typed' BY <1>1, TypePartsPrime
<1>3. Guarantees(t) BY RowsUnchanged DEF Guarantees
<1>4. ASSUME NEW o \in Workers PROVE RequestOK(o)'
  BY <1>2, <1>3, Rely
<1>5. SessionsFresh'
  <2>1. ASSUME NEW u \in Users, walletLock'[u] # NoOne, pc'[walletLock'[u]] \in PCs
        PROVE  snap'[walletLock'[u]][u] = wallet'[u]
    <3>1. wallet'[u] = wallet[u] BY DEF rows
    <3>2. CASE walletLock'[u] = t
      BY <2>1, <3>1, <3>2 DEF Sound, SessionsFresh
    <3>3. CASE walletLock'[u] # t
      <4>1. walletLock'[u] = walletLock[u] /\ walletLock[u] \in Workers \ {t}
        BY <2>1, <3>3 DEF LocksKept, Sound, Typed, Null
      <4>2. snap'[walletLock[u]] = snap[walletLock[u]] /\ pc'[walletLock[u]] = pc[walletLock[u]]
        BY <4>1 DEF SessionsKept
      <4>3. snap[walletLock[u]][u] = wallet[u] BY <2>1, <4>1, <4>2 DEF Sound, SessionsFresh
      <4> QED BY <3>1, <4>1, <4>2, <4>3
    <3> QED BY <3>2, <3>3
  <2>2. ASSUME platformLock' # NoOne PROVE psnap'[platformLock'] = platform'
    <3>1. platform' = platform BY DEF rows
    <3>2. CASE platformLock' = t
      BY <2>2, <3>1, <3>2 DEF Sound, SessionsFresh
    <3>3. CASE platformLock' # t
      <4>1. platformLock' = platformLock /\ platformLock \in Workers \ {t}
        BY <2>2, <3>3 DEF LocksKept, Sound, Typed, Null
      <4>2. psnap'[platformLock] = psnap[platformLock] BY <4>1 DEF SessionsKept
      <4>3. psnap[platformLock] = platform BY <2>2, <4>1 DEF Sound, SessionsFresh
      <4> QED BY <3>1, <4>1, <4>2, <4>3
    <3> QED BY <3>2, <3>3
  <2> QED BY <2>1, <2>2 DEF SessionsFresh
<1> QED BY <1>2, <1>3, <1>4, <1>5, RowsUnchanged DEF Sound

-----------------------------------------------------------------------------
(* The steps inside a transaction. *)

CreatePCs == {"create_wallet", "create_commit"}

(* Bet ids stay distinct when t does not begin to create a bet. *)
LEMMA IdsKept ==
  ASSUME Sound, NEW t \in Workers, SessionsKept(t),
         pc'[t] \notin CreatePCs \/ (pc[t] \in CreatePCs /\ req'[t].bet = req[t].bet)
  PROVE  IdsDistinct'
BY DEF Sound, IdsDistinct, SessionsKept, CreatePCs

(* A step that only changes the place and the parameters of its request.   *)
LEMMA WorkStep ==
  ASSUME Sound, NEW t \in Workers, NEW label \in PCs, NEW r \in Request,
         pc[t] \in PCs,
         Goto(t, label), req' = [req EXCEPT ![t] = r],
         UNCHANGED <<now, rows, locks, snap, psnap, crashes>>,
         RequestOK(t)', IdsDistinct'
  PROVE  Sound' /\ Guarantees(t)
<1>1. LockTypes' /\ LocksKept(t)
  BY DEF Sound, Typed, LockTypes, LocksKept, locks
<1>2. WorkTypes' /\ SessionsKept(t)
  BY DEF Sound, Typed, WorkTypes, SessionsKept, Goto
<1>3. /\ \A u \in Users : walletLock'[u] = t => walletLock[u] = t /\ snap'[t][u] = snap[t][u]
      /\ platformLock' = t => platformLock = t /\ psnap'[t] = psnap[t]
  BY DEF locks
<1> QED BY <1>1, <1>2, <1>3, AdvanceStep

(* A step that locks a bet row and changes its own request. *)
LEMMA BetLockStep ==
  ASSUME Sound, NEW t \in Workers, NEW b \in Bets, NEW label \in PCs, NEW r \in Request,
         pc[t] \in PCs,
         get_for_update(t, b), Goto(t, label), req' = [req EXCEPT ![t] = r],
         UNCHANGED <<now, rows, walletLock, matchLock, platformLock, snap, psnap, crashes>>,
         RequestOK(t)', IdsDistinct'
  PROVE  Sound' /\ Guarantees(t)
<1>1. LockTypes' /\ LocksKept(t)
  BY DEF Sound, Typed, LockTypes, LocksKept, get_for_update, Null
<1>2. WorkTypes' /\ SessionsKept(t)
  BY DEF Sound, Typed, WorkTypes, SessionsKept, Goto
<1> QED BY <1>1, <1>2, AdvanceStep

(* What get_by_user_id_for_update leaves in the session. *)
LEMMA LoadedWallet ==
  ASSUME Typed, NEW t \in Workers, NEW u \in Users, get_by_user_id_for_update(t, u)
  PROVE  /\ walletLock'[u] = t /\ snap'[t][u] = wallet[u]
         /\ \A v \in Users \ {u} : walletLock'[v] = walletLock[v] /\ snap'[t][v] = snap[t][v]
BY DEF Typed, get_by_user_id_for_update

(* A step that locks and loads a wallet. *)
LEMMA WalletLockStep ==
  ASSUME Sound, NEW t \in Workers, NEW u \in Users, NEW label \in PCs, pc[t] \in PCs,
         get_by_user_id_for_update(t, u), Goto(t, label),
         label \in CreatePCs => pc[t] \in CreatePCs,
         UNCHANGED <<now, rows, betLock, matchLock, platformLock, req, psnap, crashes>>,
         RequestOK(t)'
  PROVE  Sound' /\ Guarantees(t)
<1>1. LockTypes' /\ LocksKept(t)
  BY DEF Sound, Typed, LockTypes, LocksKept, get_by_user_id_for_update, Null
<1>2. WorkTypes' /\ SessionsKept(t)
  BY DEF Sound, Typed, WorkTypes, SessionsKept, Goto, get_by_user_id_for_update
<1>3. IdsDistinct'
  <2>1. pc'[t] = label /\ req'[t] = req[t] BY DEF Goto, Sound, Typed
  <2> QED BY <1>2, <2>1, IdsKept
<1>4. \A v \in Users : walletLock'[v] = t =>
        snap'[t][v] = wallet[v] \/ (walletLock[v] = t /\ snap'[t][v] = snap[t][v])
  BY DEF get_by_user_id_for_update, Sound, Typed
<1> QED BY <1>1, <1>2, <1>3, <1>4, AdvanceStep

(* What the column keeps of an amount, and its half cent. *)
LEMMA StoredAmount ==
  ASSUME NEW s \in Nat
  PROVE  Stored(s) \in Nat /\ HalfCent(s) \in {0, 1}
BY DEF Stored, HalfCent, round_half_up

(* Whole cents are stored as they are. *)
LEMMA StoredCents ==
  ASSUME NEW c \in Nat
  PROVE  Mills(c) \in Nat /\ Stored(Mills(c)) = c /\ HalfCent(Mills(c)) = 0
<1>1. (2 * (10 * c) + 10) \div (2 * 10) = c OBVIOUS
<1>2. (10 * c) % 10 = 0 OBVIOUS
<1> QED BY <1>1, <1>2 DEF Mills, Stored, HalfCent, round_half_up

(* Rounded apart, an amount adds to a balance what the column keeps of it, *)
(* and takes from one as much less the half cent.                          *)
LEMMA RoundedApart ==
  ASSUME NEW a \in Nat, NEW l \in Nat, NEW s \in Nat, Mills(a) >= s
  PROVE  /\ safe_subtract(a, s) \in Nat /\ safe_add(l, s) \in Nat
         /\ safe_subtract(a, s) = a - Stored(s) + HalfCent(s)
         /\ Stored(s) <= a + HalfCent(s)
         /\ safe_add(l, s) = l + Stored(s)
<1> DEFINE q == s \div 10
           r == s % 10
<1>1. q \in Nat /\ r \in 0..9 /\ s = 10 * q + r OBVIOUS
<1> HIDE DEF q, r
<1>2. Stored(s) = q + (IF r >= 5 THEN 1 ELSE 0)
  BY <1>1 DEF Stored, round_half_up
<1>3. safe_add(l, s) = l + q + (IF r >= 5 THEN 1 ELSE 0)
  BY <1>1 DEF safe_add, Stored, round_half_up, Mills
<1>4. 10 * a >= 10 * q + r BY <1>1 DEF Mills
<1>5. safe_subtract(a, s) = a - q - (IF r > 5 THEN 1 ELSE 0)
  BY <1>1, <1>4 DEF safe_subtract, Stored, round_half_up, Mills
<1>6. HalfCent(s) = (IF r = 5 THEN 1 ELSE 0) BY DEF HalfCent, r
<1> QED BY <1>1, <1>2, <1>3, <1>4, <1>5, <1>6

(* create_bet begins with an id nobody uses. *)
LEMMA CreateBeginStep ==
  ASSUME Sound, NEW t \in Workers, NEW u \in Users, NEW b \in Bets, NEW m \in Matches,
         NEW p \in Outcomes, NEW s \in StakeInputs, CreateBegin(t, u, b, m, p, s)
  PROVE  Sound' /\ Guarantees(t)
<1> DEFINE r == [NoRequest EXCEPT !.user = u, !.bet = b, !.match = m, !.outcome = p,
                                  !.stake = Stored(s), !.asked = s,
                                  !.expires_at = match[m].kickoff_at]
<1>1. r \in Request
  <2>1. s \in Nat /\ Stored(s) \in Nat BY ConstantsAssumption, StoredAmount DEF ConstantsAssumption
  <2> QED BY <2>1, ConstantsAssumption
  DEF NoRequest, Request, Null, ConstantsAssumption, Sound, Typed, Match
<1>2. pc'[t] = "create_wallet" /\ req'[t] = r /\ bet' = bet
  BY DEF CreateBegin, Goto, Sound, Typed, rows
<1>3. RequestOK(t)'
  <2>1. /\ r.user = u /\ r.bet = b /\ r.match = m /\ r.outcome = p
        /\ r.stake = Stored(s) /\ r.asked = s
    BY DEF NoRequest
  <2>2. bet[b].status = "none" BY DEF CreateBegin, FreshId
  <2>3. CreateOK(t)' BY <1>2, <2>1, <2>2 DEF CreateOK
  <2> QED BY <1>2, <2>3 DEF RequestOK, SettlePCs
<1>4. IdsDistinct'
  <2>1. \A o \in Workers \ {t} : pc'[o] = pc[o] /\ req'[o] = req[o]
    BY DEF CreateBegin, Goto, Sound, Typed
  <2>2. \A o \in Workers : pc[o] \in CreatePCs => req[o].bet # b
    BY DEF CreateBegin, FreshId, CreatePCs
  <2>3. r.bet = b BY DEF NoRequest
  <2> HIDE DEF r
  <2>4. req'[t].bet = b BY <1>2, <2>3
  <2> SUFFICES ASSUME NEW x \in Workers, NEW y \in Workers, x # y,
                      pc'[x] \in CreatePCs, pc'[y] \in CreatePCs
               PROVE  req'[x].bet # req'[y].bet
    BY DEF IdsDistinct, CreatePCs
  <2>5. CASE x = t BY <2>1, <2>2, <2>4, <2>5
  <2>6. CASE y = t BY <2>1, <2>2, <2>4, <2>6
  <2>7. CASE x # t /\ y # t BY <2>1, <2>7 DEF Sound, IdsDistinct, CreatePCs
  <2> QED BY <2>5, <2>6, <2>7
<1> QED
  <2>1. "create_wallet" \in PCs /\ pc[t] \in PCs BY DEF PCs, CreateBegin
  <2> QED BY <1>1, <1>3, <1>4, <2>1, WorkStep DEF CreateBegin

(* accept_bet checks the bet on the row it has locked. *)
LEMMA AcceptLockStep ==
  ASSUME Sound, NEW t \in Workers, NEW u \in Users, NEW b \in Bets, NEW p \in Outcomes,
         AcceptLock(t, u, b, p)
  PROVE  Sound' /\ Guarantees(t)
<1> DEFINE r == [NoRequest EXCEPT !.user = u, !.bet = b, !.outcome = p,
                                  !.stake = bet[b].stake_amount,
                                  !.asked = Mills(bet[b].stake_amount)]
<1>1. r \in Request
  <2>1. bet[b].stake_amount \in Nat /\ Mills(bet[b].stake_amount) \in Nat
    BY StoredCents DEF Sound, Typed, Bet
  <2> QED BY <2>1 DEF NoRequest, Request, Null
<1>2. pc'[t] = "accept_wallet" /\ req'[t] = r /\ bet' = bet /\ betLock'[b] = t
  BY DEF AcceptLock, Goto, Sound, Typed, rows, get_for_update
<1>3. /\ r.user = u /\ r.bet = b /\ r.outcome = p /\ r.stake = bet[b].stake_amount
      /\ r.asked = Mills(bet[b].stake_amount)
  BY DEF NoRequest
<1>4. RequestOK(t)'
  <2>1. AcceptOK(t)' BY <1>2, <1>3 DEF AcceptOK, AcceptLock
  <2> QED BY <1>2, <2>1 DEF RequestOK, SettlePCs
<1>5. IdsDistinct'
  <2>1. SessionsKept(t) BY DEF AcceptLock, SessionsKept, Goto, Sound, Typed
  <2> QED BY <1>2, <2>1, IdsKept DEF CreatePCs
<1> QED
  <2>1. "accept_wallet" \in PCs /\ pc[t] \in PCs BY DEF PCs, AcceptLock
  <2> QED BY <1>1, <1>4, <1>5, <2>1, BetLockStep DEF AcceptLock

(* lock_stake loads a wallet that covers the stake. *)
LEMMA LockStakeStep ==
  ASSUME Sound, NEW t \in Workers, LockStake(t)
  PROVE  Sound' /\ Guarantees(t)
<1> DEFINE u == req[t].user
           label == AfterLockStake[pc[t]]
<1>1. /\ bet' = bet /\ betLock' = betLock /\ req' = req
      /\ pc'[t] = label
  BY DEF LockStake, Goto, Sound, Typed, rows
<1>2. \/ pc[t] = "create_wallet" /\ label = "create_commit"
      \/ pc[t] = "accept_wallet" /\ label = "accept_commit"
  BY DEF LockStake, AfterLockStake
<1>3. u \in Users
  BY <1>2 DEF Sound, RequestOK, CreateOK, AcceptOK
<1>4. CanPay(t, u)'
  BY <1>1, <1>3 DEF LockStake, get_by_user_id_for_update, CanPay, Sound, Typed
<1>5. RequestOK(t)'
  <2>1. CASE pc[t] = "create_wallet"
    BY <1>1, <1>2, <1>4, <2>1 DEF RequestOK, CreateOK, Sound, SettlePCs
  <2>2. CASE pc[t] = "accept_wallet"
    BY <1>1, <1>2, <1>4, <2>2 DEF RequestOK, AcceptOK, Sound, SettlePCs
  <2> QED BY <1>2, <2>1, <2>2
<1> QED
  <2>1. label \in PCs /\ pc[t] \in PCs /\ (label \in CreatePCs => pc[t] \in CreatePCs)
    BY <1>2 DEF PCs, CreatePCs
  <2> QED BY <1>3, <1>5, <2>1, WalletLockStep DEF LockStake

(* cancel_bet reads an open bet; its creator and stake are final. *)
LEMMA CancelReadStep ==
  ASSUME Sound, NEW t \in Workers, NEW b \in Bets, CancelRead(t, b)
  PROVE  Sound' /\ Guarantees(t)
<1> DEFINE r == [NoRequest EXCEPT !.bet = b, !.user = bet[b].creator_id,
                                  !.stake = bet[b].stake_amount]
<1>1. bet[b].creator_id \in Users /\ bet[b].stake_amount \in Nat
  BY DEF Sound, RowOK, CancelRead, Typed, Bet
<1>2. r \in Request
  BY <1>1 DEF NoRequest, Request, Null
<1>3. pc'[t] = "cancel_wallet" /\ req'[t] = r /\ bet' = bet
  BY DEF CancelRead, Goto, Sound, Typed, rows
<1>4. r.user = bet[b].creator_id /\ r.bet = b /\ r.stake = bet[b].stake_amount
  BY DEF NoRequest
<1>5. RequestOK(t)'
  <2>1. CancelOK(t)' BY <1>1, <1>3, <1>4 DEF CancelOK, CancelRead
  <2> QED BY <1>3, <2>1 DEF RequestOK, SettlePCs
<1>6. IdsDistinct'
  <2>1. SessionsKept(t) BY DEF CancelRead, SessionsKept, Goto, Sound, Typed
  <2> QED BY <1>3, <2>1, IdsKept DEF CreatePCs
<1> QED
  <2>1. "cancel_wallet" \in PCs /\ pc[t] \in PCs BY DEF PCs, CancelRead
  <2> QED BY <1>2, <1>5, <1>6, <2>1, WorkStep DEF CancelRead

(* unlock_stake loads a wallet that covers the stake. *)
LEMMA UnlockStakeStep ==
  ASSUME Sound, NEW t \in Workers, UnlockStake(t)
  PROVE  Sound' /\ Guarantees(t)
<1> DEFINE u == req[t].user
<1>1. bet' = bet /\ req' = req /\ pc'[t] = "cancel_bet" /\ pc[t] = "cancel_wallet"
  BY DEF UnlockStake, Goto, Sound, Typed, rows
<1>2. CancelOK(t) BY <1>1 DEF Sound, RequestOK
<1>3. CanRelease(t, u)'
  BY <1>1, <1>2 DEF UnlockStake, get_by_user_id_for_update, CanRelease, CancelOK,
                    Sound, Typed
<1>4. RequestOK(t)'
  BY <1>1, <1>2, <1>3 DEF RequestOK, CancelOK, SettlePCs
<1> QED
  <2>1. "cancel_bet" \in PCs /\ pc[t] \in PCs /\ "cancel_bet" \notin CreatePCs
    BY <1>1 DEF PCs, CreatePCs
  <2>2. u \in Users BY <1>2 DEF CancelOK
  <2> QED BY <1>4, <2>1, <2>2, WalletLockStep DEF UnlockStake

(* void_bet checks the bet on the row it has locked. *)
LEMMA VoidLockStep ==
  ASSUME Sound, NEW t \in Workers, NEW b \in Bets, VoidLock(t, b)
  PROVE  Sound' /\ Guarantees(t)
<1> DEFINE r == [NoRequest EXCEPT !.bet = b, !.stake = bet[b].stake_amount]
<1>1. r \in Request
  BY DEF NoRequest, Request, Null, Sound, Typed, Bet
<1>2. pc'[t] = "void_creator" /\ req'[t] = r /\ bet' = bet /\ betLock'[b] = t
  BY DEF VoidLock, Goto, Sound, Typed, rows, get_for_update
<1>3. r.bet = b /\ r.stake = bet[b].stake_amount
  BY DEF NoRequest
<1>4. RequestOK(t)'
  <2>1. VoidOK(t)' BY <1>2, <1>3 DEF VoidOK, VoidLock
  <2> QED BY <1>2, <2>1 DEF RequestOK, SettlePCs
<1>5. IdsDistinct'
  <2>1. SessionsKept(t) BY DEF VoidLock, SessionsKept, Goto, Sound, Typed
  <2> QED BY <1>2, <2>1, IdsKept DEF CreatePCs
<1> QED
  <2>1. "void_creator" \in PCs /\ pc[t] \in PCs BY DEF PCs, VoidLock
  <2> QED BY <1>1, <1>4, <1>5, <2>1, BetLockStep DEF VoidLock

(* void_refund loads the wallets of the parties one after the other. *)
LEMMA VoidRefundStep ==
  ASSUME Sound, NEW t \in Workers, VoidRefund(t)
  PROVE  Sound' /\ Guarantees(t)
<1> DEFINE b == req[t].bet
           u == VoidUser(t)
           label == IF pc[t] = "void_creator" /\ bet[req[t].bet].status = "MATCHED"
                    THEN "void_opponent" ELSE "void_commit"
<1>1. /\ bet' = bet /\ betLock' = betLock /\ req' = req /\ pc'[t] = label
      /\ pc[t] \in {"void_creator", "void_opponent"}
  BY DEF VoidRefund, Goto, Sound, Typed, rows
<1>2. VoidOK(t) BY <1>1 DEF Sound, RequestOK
<1>3. /\ bet[b].creator_id \in Users
      /\ bet[b].status = "MATCHED" => bet[b].opponent_id \in Users
  BY <1>2 DEF VoidOK, Sound, RowOK, Typed, Bet, Null
<1>4. u \in Users
  BY <1>1, <1>2, <1>3 DEF VoidUser, VoidOK
<1>5. /\ walletLock'[u] = t /\ snap'[t][u] = wallet[u]
      /\ \A v \in Users \ {u} : walletLock'[v] = walletLock[v] /\ snap'[t][v] = snap[t][v]
  BY <1>4, LoadedWallet DEF VoidRefund, Sound
<1>6. /\ walletLock'[u] = t /\ snap'[t][u].locked >= req[t].stake
      /\ \A v \in Users : walletLock[v] = t /\ snap[t][v].locked >= req[t].stake
                        => walletLock'[v] = t /\ snap'[t][v].locked >= req[t].stake
  BY <1>5 DEF VoidRefund
<1>7. VoidOK(t)'
  <2>1. CASE pc[t] = "void_creator" /\ bet[b].status = "MATCHED"
    BY <1>1, <1>2, <1>6, <2>1 DEF VoidOK, VoidUser, CanRelease
  <2>2. CASE pc[t] = "void_creator" /\ bet[b].status # "MATCHED"
    <3>1. u = bet[b].creator_id BY <2>2 DEF VoidUser
    <3>2. Refunded(b)' = {u} BY <1>1, <2>2, <3>1 DEF Refunded
    <3> QED BY <1>1, <1>2, <1>6, <2>2, <3>2 DEF VoidOK, CanRelease
  <2>3. CASE pc[t] = "void_opponent"
    <3>1. u = bet[b].opponent_id /\ bet[b].status = "MATCHED"
      BY <1>2, <2>3 DEF VoidUser, VoidOK
    <3>2. Refunded(b)' = {bet[b].creator_id, u} BY <1>1, <3>1 DEF Refunded
    <3>3. walletLock[bet[b].creator_id] = t /\ snap[t][bet[b].creator_id].locked >= req[t].stake
      BY <1>2, <2>3 DEF VoidOK, CanRelease
    <3> QED BY <1>1, <1>2, <1>3, <1>6, <2>3, <3>2, <3>3 DEF VoidOK, CanRelease
  <2> QED BY <1>1, <2>1, <2>2, <2>3
<1>8. RequestOK(t)'
  BY <1>1, <1>7 DEF RequestOK, SettlePCs
<1> QED
  <2>1. label \in PCs /\ pc[t] \in PCs /\ label \notin CreatePCs BY <1>1 DEF PCs, CreatePCs
  <2> QED BY <1>4, <1>8, <2>1, WalletLockStep DEF VoidRefund

(* confirm_and_settle locks a match without a result. *)
LEMMA ConfirmLockStep ==
  ASSUME Sound, NEW t \in Workers, NEW m \in Matches, NEW o \in Outcomes,
         ConfirmLock(t, m, o)
  PROVE  Sound' /\ Guarantees(t)
<1> DEFINE r == [NoRequest EXCEPT !.match = m, !.outcome = o]
<1>1. r \in Request /\ r.match = m /\ r.outcome = o /\ r.cached = {} /\ r.todo = {}
  BY DEF NoRequest, Request, Null
<1>2. /\ pc'[t] = "confirm_scan" /\ req'[t] = r /\ match' = match /\ matchLock'[m] = t
      /\ ~match[m].confirmed
  BY DEF ConfirmLock, Goto, Sound, Typed, rows
<1>3. LockTypes' /\ LocksKept(t)
  BY DEF ConfirmLock, Sound, Typed, LockTypes, LocksKept, Null
<1>4. WorkTypes' /\ SessionsKept(t)
  <2> QED BY <1>1 DEF ConfirmLock, Sound, Typed, WorkTypes, SessionsKept, Goto
<1>5. RequestOK(t)'
  <2>1. ConfirmOK(t)' BY <1>1, <1>2 DEF ConfirmOK
  <2> QED BY <1>2, <2>1 DEF RequestOK, SettlePCs
<1>6. IdsDistinct' BY <1>2, <1>4, IdsKept DEF CreatePCs
<1>7. pc[t] \in PCs BY DEF ConfirmLock, PCs
<1> QED BY <1>3, <1>4, <1>5, <1>6, <1>7, AdvanceStep DEF ConfirmLock

(* The scan finds bets of this match that exist. *)
LEMMA ConfirmScanStep ==
  ASSUME Sound, NEW t \in Workers, ConfirmScan(t)
  PROVE  Sound' /\ Guarantees(t)
<1> DEFINE r == [req[t] EXCEPT !.todo = {b \in Bets : bet[b].match_id = req[t].match
                                                      /\ bet[b].status = "MATCHED"}]
<1>1. req[t] \in Request BY DEF Sound, Typed
<1>2. /\ r \in Request /\ r.match = req[t].match /\ r.outcome = req[t].outcome
      /\ r.cached = req[t].cached
      /\ r.todo = {b \in Bets : bet[b].match_id = req[t].match /\ bet[b].status = "MATCHED"}
  BY <1>1 DEF Request
<1>3. pc[t] = "confirm_scan" /\ pc'[t] = "confirm_rows" /\ req' = [req EXCEPT ![t] = r]
  BY DEF ConfirmScan, Goto, Sound, Typed
<1>4. req'[t] = r BY <1>3 DEF Sound, Typed
<1>5. RequestOK(t)'
  <2>1. ConfirmOK(t) BY <1>3 DEF Sound, RequestOK
  <2>2. bet' = bet /\ match' = match /\ betLock' = betLock /\ matchLock' = matchLock
    BY DEF ConfirmScan, rows, locks
  <2> HIDE DEF r
  <2>3. ConfirmOK(t)' BY <1>2, <1>4, <2>1, <2>2 DEF ConfirmOK
  <2> QED BY <1>3, <2>3 DEF RequestOK, SettlePCs
<1>6. IdsDistinct'
  <2>1. SessionsKept(t) BY DEF ConfirmScan, SessionsKept, Goto, Sound, Typed
  <2> QED BY <1>3, <2>1, IdsKept DEF CreatePCs
<1> QED
  <2>1. "confirm_rows" \in PCs /\ pc[t] \in PCs BY <1>3 DEF PCs
  <2> HIDE DEF r
  <2> QED BY <1>2, <1>3, <1>5, <1>6, <2>1, WorkStep DEF ConfirmScan

(* A row that is still MATCHED is locked and joins the pending bets. *)
LEMMA ConfirmRowStep ==
  ASSUME Sound, NEW t \in Workers, NEW b \in Bets, ConfirmRow(t, b)
  PROVE  Sound' /\ Guarantees(t)
<1> DEFINE found == IF bet[b].status = "MATCHED" THEN req[t].cached \cup {b} ELSE req[t].cached
           r == [req[t] EXCEPT !.todo = req[t].todo \ {b}, !.cached = found]
<1>1. req[t] \in Request BY DEF Sound, Typed
<1>2. /\ r \in Request /\ r.match = req[t].match /\ r.outcome = req[t].outcome
      /\ r.todo = req[t].todo \ {b} /\ r.cached = found
  BY <1>1 DEF Request
<1>3. pc[t] = "confirm_rows" /\ b \in req[t].todo /\ req' = [req EXCEPT ![t] = r]
  BY <1>1 DEF ConfirmRow, Sound, Typed, Request
<1>4. req'[t] = r /\ pc' = pc BY <1>3 DEF Sound, Typed, ConfirmRow
<1>5. ConfirmOK(t)'
  <2>1. ConfirmOK(t) BY <1>3 DEF Sound, RequestOK
  <2>2. bet' = bet /\ match' = match /\ matchLock' = matchLock
    BY DEF ConfirmRow, rows
  <2>3. betLock'[b] = t /\ \A c \in Bets \ {b} : betLock'[c] = betLock[c]
    BY DEF ConfirmRow, get_for_update, Sound, Typed
  <2>4. req[t].cached \subseteq Bets BY <1>1 DEF Request
  <2>5. \A c \in found : betLock'[c] = t /\ bet[c].status = "MATCHED"
                         /\ bet[c].match_id = req[t].match
    BY <1>3, <2>1, <2>3, <2>4 DEF ConfirmOK
  <2> HIDE DEF r, found
  <2> QED BY <1>2, <1>4, <2>1, <2>2, <2>5 DEF ConfirmOK
<1>6. RequestOK(t)' BY <1>3, <1>4, <1>5 DEF RequestOK, SettlePCs
<1>7. IdsDistinct'
  <2>1. SessionsKept(t) BY DEF ConfirmRow, SessionsKept, Sound, Typed
  <2> QED BY <1>3, <1>4, <2>1, IdsKept DEF CreatePCs
<1> QED
  <2>1. "confirm_rows" \in PCs /\ pc[t] \in PCs BY <1>3 DEF PCs
  <2>2. Goto(t, "confirm_rows") BY <1>3, <1>4 DEF Goto, Sound, Typed
  <2> HIDE DEF r
  <2> QED BY <1>2, <1>3, <1>6, <1>7, <2>1, <2>2, BetLockStep DEF ConfirmRow

(* settle_single_bet queues one bet. *)
LEMMA SettleSingleStep ==
  ASSUME Sound, NEW t \in Workers, NEW b \in Bets, SettleSingle(t, b)
  PROVE  Sound' /\ Guarantees(t)
<1> DEFINE r == [NoRequest EXCEPT !.todo = {b}]
<1>1. r \in Request BY DEF NoRequest, Request, Null
<1>2. pc'[t] = "settle_next" BY DEF SettleSingle, Goto, Sound, Typed
<1>3. RequestOK(t)' BY <1>2 DEF RequestOK, SettlePCs
<1>4. IdsDistinct'
  <2>1. SessionsKept(t) BY DEF SettleSingle, SessionsKept, Goto, Sound, Typed
  <2> QED BY <1>2, <2>1, IdsKept DEF CreatePCs
<1> QED
  <2>1. "settle_next" \in PCs /\ pc[t] \in PCs BY DEF PCs, SettlePCs, SettleSingle
  <2> QED BY <1>1, <1>3, <1>4, <2>1, WorkStep DEF SettleSingle

(* get_active_rate finds a row whenever one is effective, and every rate   *)
(* of fee_config is a proper fraction.                                     *)
LEMMA RateBound ==
  ASSUME Typed, NEW type, EffectiveRows(type) # {}
  PROVE  get_active_rate(type) \in 1..(RateUnit - 1)
<1> USE ConstantsAssumption
<1> DEFINE E == EffectiveRows(type)
           T == {now - q.effective_from : q \in E}
<1>1. \A q \in E : /\ q.rate \in 1..(RateUnit - 1) /\ q.effective_from \in Nat
                   /\ q.effective_from <= now
  BY DEF EffectiveRows, ConstantsAssumption
<1>2. now \in Nat BY DEF Typed
<1>3. T \subseteq Nat /\ T # {} BY <1>1, <1>2
<1>4. PICK x \in T : \A y \in T : ~(<<y, x>> \in OpToRel(<, Nat))
  <2> HIDE DEF T
  <2> QED BY <1>3, WFMin, NatLessThanWellFounded
<1>5. \A y \in T : x <= y
  <2> HIDE DEF T
  <2>1. SUFFICES ASSUME NEW y \in T, y < x PROVE FALSE BY <1>3
  <2>2. x \in Nat /\ y \in Nat BY <1>3
  <2>3. <<y, x>> \in OpToRel(<, Nat) BY <2>1, <2>2 DEF OpToRel
  <2> QED BY <1>4, <2>3
<1>6. PICK r \in E : x = now - r.effective_from OBVIOUS
<1>7. ASSUME NEW q \in E PROVE q.effective_from <= r.effective_from
  <2>1. now - q.effective_from \in T OBVIOUS
  <2>2. x <= now - q.effective_from BY <1>5, <2>1
  <2> HIDE DEF T, E
  <2>3. q.effective_from \in Nat /\ r.effective_from \in Nat BY <1>1
  <2> QED BY <1>2, <1>6, <2>2, <2>3
<1>8. \E c \in E : \A q \in E : q.effective_from <= c.effective_from
  BY <1>7
<1>9. (CHOOSE c \in E : \A q \in E : q.effective_from <= c.effective_from) \in E
  BY <1>8
<1> QED BY <1>1, <1>9 DEF get_active_rate

(* settle_bet locks the bet and reads both rates; the outcome it works on  *)
(* is one, wherever its session found it.                                  *)
LEMMA SettleLockOnStep ==
  ASSUME Sound, NEW t \in Workers, NEW b \in Bets, NEW o \in Null(Outcomes),
         SettleLockOn(t, b, o)
  PROVE  Sound' /\ Guarantees(t)
<1> DEFINE w == get_active_rate("WINNER_FEE")
           n == get_active_rate("NO_WINNER_FEE")
           r == [req[t] EXCEPT !.bet = b, !.todo = req[t].todo \ {b},
                   !.stake = bet[b].stake_amount, !.outcome = o,
                   !.winner_fee_rate = w, !.no_winner_fee_rate = n]
<1>1. req[t] \in Request BY DEF Sound, Typed
<1>2. bet[b].opponent_id # NoOne /\ o # NoOne
  BY DEF SettleLockOn, SettleChecks
<1>3. w \in 1..(RateUnit - 1) /\ n \in 1..(RateUnit - 1)
  BY RateBound DEF SettleLockOn, SettleChecks, FeeTypes, Sound
<1>4. bet[b].status # "none"
  BY <1>2 DEF Sound, RowOK, NoBet
<1>5. o \in Outcomes BY <1>2 DEF Null
<1>6. /\ r \in Request /\ r.bet = b /\ r.stake = bet[b].stake_amount /\ r.outcome = o
      /\ r.winner_fee_rate = w /\ r.no_winner_fee_rate = n
  <2> HIDE DEF w, n
  <2>1. w \in Nat /\ n \in Nat BY <1>3 DEF RateUnit
  <2>2. bet[b].stake_amount \in Nat BY DEF Sound, Typed, Bet
  <2> QED BY <1>1, <1>5, <2>1, <2>2 DEF Request, Null
<1>7. /\ req' = [req EXCEPT ![t] = r] /\ pc'[t] = "settle_wallet1"
      /\ bet' = bet /\ match' = match /\ betLock'[b] = t
  <2>1. req' = [req EXCEPT ![t] = r] BY DEF SettleLockOn
  <2>2. pc'[t] = "settle_wallet1" /\ bet' = bet /\ match' = match /\ betLock'[b] = t
    BY DEF SettleLockOn, Goto, get_for_update, Sound, Typed, rows
  <2> QED BY <2>1, <2>2
<1>8. req'[t] = r BY <1>7 DEF Sound, Typed
<1>9. RequestOK(t)'
  <2> HIDE DEF w, n, r
  <2>1. SettleOK(t)'
    BY <1>2, <1>3, <1>4, <1>5, <1>6, <1>7, <1>8 DEF SettleOK
  <2> QED BY <1>7, <2>1 DEF RequestOK, SettlePCs
<1>10. IdsDistinct'
  <2>1. SessionsKept(t) BY DEF SettleLockOn, SessionsKept, Goto, Sound, Typed
  <2> QED BY <1>7, <2>1, IdsKept DEF CreatePCs
<1> QED
  <2>1. "settle_wallet1" \in PCs /\ pc[t] \in PCs BY DEF PCs, SettlePCs, SettleLockOn
  <2> HIDE DEF r
  <2> QED BY <1>6, <1>7, <1>9, <1>10, <2>1, BetLockStep DEF SettleLockOn

(* The wallets a settlement locks are those of the two parties. *)
LEMMA LockOrderParties ==
  ASSUME Sound, NEW b \in Bets, bet[b].status # "none", bet[b].opponent_id # NoOne
  PROVE  /\ bet[b].creator_id \in Users /\ bet[b].opponent_id \in Users
         /\ bet[b].creator_id # bet[b].opponent_id
         /\ LockOrder(b)[1] \in Users /\ LockOrder(b)[2] \in Users
         /\ LockOrder(b)[1] # LockOrder(b)[2]
         /\ {LockOrder(b)[1], LockOrder(b)[2]} = {bet[b].creator_id, bet[b].opponent_id}
<1>1. /\ bet[b].creator_id \in Users /\ bet[b].opponent_id \in Users
      /\ bet[b].creator_id # bet[b].opponent_id
  BY DEF Sound, RowOK, Typed, Bet, Null
<1> QED BY <1>1 DEF LockOrder

(* The wallets of the parties are loaded in ascending order. *)
LEMMA SettleWalletStep ==
  ASSUME Sound, NEW t \in Workers, SettleWallet(t)
  PROVE  Sound' /\ Guarantees(t)
<1> DEFINE b == req[t].bet
           u == SettleUser(t)
           label == IF pc[t] = "settle_wallet1" THEN "settle_wallet2" ELSE "settle_check"
<1>1. /\ bet' = bet /\ match' = match /\ betLock' = betLock /\ req' = req /\ pc'[t] = label
      /\ platformLock' = platformLock
      /\ pc[t] \in {"settle_wallet1", "settle_wallet2"}
  BY DEF SettleWallet, Goto, Sound, Typed, rows
<1>2. SettleOK(t) BY <1>1 DEF Sound, RequestOK, SettlePCs
<1>3. LockOrder(b)[1] \in Users /\ LockOrder(b)[2] \in Users /\ LockOrder(b)[1] # LockOrder(b)[2]
  BY <1>2, LockOrderParties DEF SettleOK
<1>4. u = IF pc[t] = "settle_wallet1" THEN LockOrder(b)[1] ELSE LockOrder(b)[2]
  BY DEF SettleUser
<1>5. u \in Users BY <1>3, <1>4
<1>6. /\ walletLock'[u] = t
      /\ \A v \in Users \ {u} : walletLock'[v] = walletLock[v]
  BY <1>5, LoadedWallet DEF SettleWallet, Sound
<1>7. LockOrder(b)' = LockOrder(b) BY <1>1 DEF LockOrder
<1>8. SettleOK(t)'
  <2>1. walletLock'[LockOrder(b)[1]] = t
    BY <1>1, <1>2, <1>3, <1>4, <1>6 DEF SettleOK
  <2>2. pc'[t] = "settle_check" => walletLock'[LockOrder(b)[2]] = t
    BY <1>1, <1>4, <1>6
  <2>3. pc'[t] # "settle_commit" BY <1>1
  <2> QED BY <1>1, <1>2, <1>7, <2>1, <2>2, <2>3 DEF SettleOK
<1>9. RequestOK(t)' BY <1>1, <1>8 DEF RequestOK, SettlePCs
<1> QED
  <2>1. label \in PCs /\ pc[t] \in PCs /\ label \notin CreatePCs
    BY <1>1 DEF PCs, SettlePCs, CreatePCs
  <2> QED BY <1>5, <1>9, <2>1, WalletLockStep DEF SettleWallet

(* The platform row comes last, once both wallets cover the stake. *)
LEMMA SettlePlatformStep ==
  ASSUME Sound, NEW t \in Workers, SettlePlatform(t)
  PROVE  Sound' /\ Guarantees(t)
<1>1. /\ bet' = bet /\ match' = match /\ betLock' = betLock /\ req' = req /\ snap' = snap
      /\ walletLock' = walletLock /\ platformLock' = t /\ Covered(t)
      /\ pc[t] = "settle_check" /\ pc'[t] = "settle_commit"
  BY DEF SettlePlatform, Goto, Sound, Typed, rows
<1>2. SettleOK(t) BY <1>1 DEF Sound, RequestOK, SettlePCs
<1>3. Covered(t)' /\ LockOrder(req[t].bet)' = LockOrder(req[t].bet)
  BY <1>1 DEF Covered, LockOrder
<1>4. RequestOK(t)'
  <2>1. SettleOK(t)' BY <1>1, <1>2, <1>3 DEF SettleOK
  <2> QED BY <1>1, <2>1 DEF RequestOK, SettlePCs
<1>5. LockTypes' /\ LocksKept(t)
  BY DEF SettlePlatform, Sound, Typed, LockTypes, LocksKept, Null
<1>6. WorkTypes' /\ SessionsKept(t)
  <2> QED BY DEF SettlePlatform, Sound, Typed, WorkTypes, SessionsKept, Goto
<1>7. IdsDistinct' BY <1>1, <1>6, IdsKept DEF CreatePCs
<1>8. psnap'[t] = platform BY DEF SettlePlatform, Sound, Typed
<1>9. pc[t] \in PCs BY <1>1 DEF PCs, SettlePCs
<1> QED BY <1>1, <1>4, <1>5, <1>6, <1>7, <1>8, <1>9, AdvanceStep DEF SettlePlatform

-----------------------------------------------------------------------------
(* The commits and the rollbacks. *)


(* A wallet row locked by t is in the session of t as committed. *)
LEMMA HeldWallet ==
  ASSUME Sound, NEW t \in Workers, NEW u \in Users, walletLock[u] = t, pc[t] \in PCs
  PROVE  snap[t][u] = wallet[u] /\ wallet[u].available \in Nat /\ wallet[u].locked \in Nat
BY ConstantsAssumption DEF ConstantsAssumption, Sound, SessionsFresh, Typed, Wallet

(* The same for the platform account. *)
LEMMA HeldPlatform ==
  ASSUME Sound, NEW t \in Workers, platformLock = t
  PROVE  psnap[t] = platform
BY ConstantsAssumption DEF ConstantsAssumption, Sound, SessionsFresh

(* A stake taken from a covering available balance leaves a wallet behind. *)
LEMMA PaidWallet ==
  ASSUME Sound, NEW t \in Workers, NEW u \in Users, CanPay(t, u)
  PROVE  lock_stake(snap[t][u], req[t].asked) \in Wallet
<1>1. /\ snap[t][u].available \in Nat /\ snap[t][u].locked \in Nat /\ req[t].asked \in Nat
      /\ Mills(snap[t][u].available) >= req[t].asked
  BY DEF CanPay, Sound, Typed, Wallet, Request
<1> QED BY <1>1, RoundedApart DEF lock_stake, Wallet

(* The same for a stake taken from the locked balance. *)
LEMMA ReleasedWallet ==
  ASSUME Sound, NEW t \in Workers, NEW u \in Users,
         snap[t][u].locked >= req[t].stake, NEW credit \in Nat
  PROVE  /\ unlock_stake(snap[t][u], req[t].stake) \in Wallet
         /\ void_refund(snap[t][u], req[t].stake) \in Wallet
         /\ consume_stake(snap[t][u], req[t].stake, credit) \in Wallet
<1>1. snap[t][u].available \in Nat /\ snap[t][u].locked \in Nat /\ req[t].stake \in Nat
  BY DEF Sound, Typed, Wallet, Request
<1>2. snap[t][u].locked - req[t].stake \in Nat BY <1>1
<1> QED BY <1>1, <1>2 DEF unlock_stake, void_refund, consume_stake, Wallet

(* A fee rounded half up is never more than the amount it is taken of. *)
LEMMA FeeBound ==
  ASSUME NEW s \in Nat, NEW rate \in 1..(RateUnit - 1)
  PROVE  safe_multiply(s, rate) \in Nat /\ safe_multiply(s, rate) <= s
<1>1. rate \in Nat /\ rate <= 9999 BY DEF RateUnit
<1>2. s * rate \in Nat /\ s * rate <= s * 9999 BY <1>1
<1> DEFINE n == s * rate
<1> HIDE DEF n
<1>3. n \in Nat /\ n <= s * 9999 BY <1>2 DEF n
<1>4. /\ (2 * n + 10000) \div (2 * 10000) \in Nat
      /\ (2 * n + 10000) \div (2 * 10000) <= s
  BY <1>3
<1> QED BY <1>4 DEF safe_multiply, round_half_up, RateUnit, n

(* The amounts of a settlement are amounts, and make up the pool. *)
LEMMA AmountsExact ==
  ASSUME Sound, NEW t \in Workers, pc[t] = "settle_commit"
  PROVE  /\ req[t].stake \in Nat
         /\ WinnerAmounts(t).payout \in Nat /\ WinnerAmounts(t).fee \in Nat
         /\ WinnerAmounts(t).payout + WinnerAmounts(t).fee = req[t].stake + req[t].stake
         /\ NoWinnerAmounts(t).refund \in Nat /\ NoWinnerAmounts(t).fee \in Nat
         /\ NoWinnerAmounts(t).refund + NoWinnerAmounts(t).fee = req[t].stake
<1>1. SettleOK(t) BY DEF Sound, RequestOK, SettlePCs
<1>2. req[t].stake \in Nat BY DEF Sound, Typed, Request
<1> DEFINE f == safe_multiply(req[t].stake + req[t].stake, req[t].winner_fee_rate)
           g == safe_multiply(req[t].stake, req[t].no_winner_fee_rate)
<1>3. f \in Nat /\ f <= req[t].stake + req[t].stake
  <2>1. req[t].stake + req[t].stake \in Nat BY <1>2
  <2> QED BY <1>1, <2>1, FeeBound DEF SettleOK
<1>4. g \in Nat /\ g <= req[t].stake
  BY <1>1, <1>2, FeeBound DEF SettleOK
<1>5. /\ WinnerAmounts(t) = [payout |-> req[t].stake + req[t].stake - f, fee |-> f]
      /\ NoWinnerAmounts(t) = [refund |-> req[t].stake - g, fee |-> g]
  BY DEF WinnerAmounts, NoWinnerAmounts, compute_winner_amounts, compute_no_winner_amounts
<1> HIDE DEF f, g
<1> QED BY <1>2, <1>3, <1>4, <1>5

(* CreateCommit moves the stake of the creator from available to locked. *)
LEMMA CreateCommitStep ==
  ASSUME Sound, NEW t \in Workers, CreateCommit(t)
  PROVE  Sound' /\ Guarantees(t)
<1> DEFINE u == req[t].user
           b == req[t].bet
           s == req[t].stake
           n == [NoBet EXCEPT !.status = "OPEN", !.match_id = req[t].match, !.creator_id = u,
                   !.creator_prediction = req[t].outcome, !.stake_amount = s,
                   !.asked_stake = req[t].asked, !.expires_at = req[t].expires_at]
<1>1. CreateOK(t) /\ CanPay(t, u) /\ u \in Users /\ b \in Bets /\ bet[b].status = "none"
  BY DEF CreateCommit, Sound, RequestOK, CreateOK
<1>2. snap[t][u] = wallet[u] /\ walletLock[u] = t
      /\ wallet[u].available \in Nat /\ wallet[u].locked \in Nat
  <2>1. pc[t] \in PCs BY DEF CreateCommit, PCs
  <2> QED BY <1>1, <2>1, HeldWallet DEF CanPay
<1>3. /\ s \in Nat /\ req[t].asked \in Nat /\ req[t].expires_at \in Nat
      /\ Stored(req[t].asked) \in Nat
  BY StoredAmount DEF Sound, Typed, Request
<1>4. /\ bet' = [bet EXCEPT ![b] = n] /\ match' = match /\ platform' = platform
      /\ wallet' = [wallet EXCEPT ![u] = lock_stake(snap[t][u], req[t].asked)]
      /\ now' = now /\ crashes' = crashes /\ pc[t] = "create_commit"
      /\ ledger' = write_stake_lock(b, u, Stored(req[t].asked)) /\ events' = write_bet_event(b, "CREATED")
  BY DEF CreateCommit
<1>5. n \in Bet /\ n.status = "OPEN" /\ n.match_id = req[t].match /\ n.creator_id = u
      /\ n.creator_prediction = req[t].outcome /\ n.opponent_id = NoOne /\ n.platform_fee = 0
  <2> HIDE DEF u, s
  <2> QED BY <1>1, <1>3 DEF Bet, NoBet, Null, BetStatus, CreateOK
<1> HIDE DEF n
<1>6. Ends(t) BY FinishEnds DEF CreateCommit
<1>7. RowTypes'
  <2>1. bet' \in [Bets -> Bet] BY <1>4, <1>5 DEF Sound, Typed
  <2>2. wallet' \in [Users -> Wallet] BY <1>1, <1>4, PaidWallet DEF Sound, Typed
  <2>3. ledger' \in [Bets -> [Users -> [EntryTypes -> Nat]]]
    BY <1>1, <1>3, <1>4 DEF Sound, Typed, write_stake_lock, create_entry, EntryTypes
  <2>4. events' \in [Bets -> [EventTypes -> Nat]]
    BY <1>1, <1>4 DEF Sound, Typed, write_bet_event, EventTypes
  <2> QED BY <1>4, <2>1, <2>2, <2>3, <2>4 DEF RowTypes, Sound, Typed
<1>8. bet'[b] = n /\ \A c \in Bets \ {b} : bet'[c] = bet[c]
  BY <1>1, <1>4 DEF Sound, Typed
<1>9. RowsKept(t)
  <2>1. \A v \in Users : wallet'[v] = wallet[v] \/ walletLock[v] = t
    BY <1>2, <1>4 DEF Sound, Typed
  <2> QED BY <1>1, <1>4, <1>8, <2>1 DEF RowsKept
<1>10. ASSUME NEW c \in Bets PROVE RowOK(c)'
  <2>1. CASE c = b BY <1>1, <1>4, <1>5, <1>8, <2>1 DEF RowOK, CreateOK
  <2>2. CASE c # b BY <1>4, <1>8, <2>2 DEF Sound, RowOK
  <2> QED BY <2>1, <2>2
<1> QED BY <1>6, <1>7, <1>9, <1>10, EndStep

(* AcceptCommit does the same for the opponent, on the locked bet row. *)
LEMMA AcceptCommitStep ==
  ASSUME Sound, NEW t \in Workers, AcceptCommit(t)
  PROVE  Sound' /\ Guarantees(t)
<1> DEFINE u == req[t].user
           b == req[t].bet
           s == req[t].stake
           n == [bet[b] EXCEPT !.opponent_id = u, !.opponent_prediction = req[t].outcome,
                               !.status = "MATCHED"]
<1>1. AcceptOK(t) /\ CanPay(t, u) /\ u \in Users /\ b \in Bets
  BY DEF AcceptCommit, Sound, RequestOK, AcceptOK
<1>2. s \in Nat /\ Stored(req[t].asked) \in Nat BY StoredAmount DEF Sound, Typed, Request
<1>3. /\ bet' = [bet EXCEPT ![b] = n] /\ match' = match /\ platform' = platform
      /\ wallet' = [wallet EXCEPT ![u] = lock_stake(snap[t][u], req[t].asked)]
      /\ now' = now /\ crashes' = crashes
      /\ ledger' = write_stake_lock(b, u, Stored(req[t].asked)) /\ events' = write_bet_event(b, "MATCHED")
  BY DEF AcceptCommit
<1>4. /\ n \in Bet /\ n.status = "MATCHED" /\ n.match_id = bet[b].match_id
      /\ n.creator_id = bet[b].creator_id /\ n.stake_amount = bet[b].stake_amount
      /\ n.creator_prediction = bet[b].creator_prediction /\ n.opponent_id = u
      /\ n.opponent_prediction = req[t].outcome /\ n.platform_fee = bet[b].platform_fee
  <2>1. bet[b] \in Bet BY <1>1 DEF Sound, Typed
  <2> HIDE DEF u, b
  <2> QED BY <1>1, <2>1 DEF Bet, Null, BetStatus, AcceptOK
<1> HIDE DEF n
<1>5. Ends(t) BY FinishEnds DEF AcceptCommit
<1>6. RowTypes'
  <2>1. bet' \in [Bets -> Bet] BY <1>3, <1>4 DEF Sound, Typed
  <2>2. wallet' \in [Users -> Wallet] BY <1>1, <1>3, PaidWallet DEF Sound, Typed
  <2>3. ledger' \in [Bets -> [Users -> [EntryTypes -> Nat]]]
    BY <1>1, <1>2, <1>3 DEF Sound, Typed, write_stake_lock, create_entry, EntryTypes
  <2>4. events' \in [Bets -> [EventTypes -> Nat]]
    BY <1>1, <1>3 DEF Sound, Typed, write_bet_event, EventTypes
  <2> QED BY <1>3, <2>1, <2>2, <2>3, <2>4 DEF RowTypes, Sound, Typed
<1>7. bet'[b] = n /\ \A c \in Bets \ {b} : bet'[c] = bet[c]
  BY <1>1, <1>3 DEF Sound, Typed
<1>8. RowsKept(t)
  <2>1. \A v \in Users : wallet'[v] = wallet[v] \/ walletLock[v] = t
    BY <1>1, <1>3 DEF Sound, Typed, CanPay
  <2>2. betLock[b] = t /\ bet[b].status = "OPEN" BY <1>1 DEF AcceptOK
  <2> QED BY <1>1, <1>3, <1>4, <1>7, <2>1, <2>2 DEF RowsKept
<1>9. ASSUME NEW c \in Bets PROVE RowOK(c)'
  <2>1. CASE c = b
    <3>1. RowOK(b) BY <1>1 DEF Sound
    <3> QED BY <1>1, <1>3, <1>4, <1>7, <2>1, <3>1, ConstantsAssumption
            DEF RowOK, AcceptOK, ConstantsAssumption
  <2>2. CASE c # b BY <1>3, <1>7, <2>2 DEF Sound, RowOK
  <2> QED BY <2>1, <2>2
<1> QED BY <1>5, <1>6, <1>8, <1>9, EndStep

(* CancelCommit gives the creator the stake back; the bet may be in any    *)
(* status by now, but it exists and nobody has it locked.                  *)
LEMMA CancelCommitStep ==
  ASSUME Sound, NEW t \in Workers, CancelCommit(t)
  PROVE  Sound' /\ Guarantees(t)
<1> DEFINE u == req[t].user
           b == req[t].bet
           s == req[t].stake
           n == [bet[b] EXCEPT !.status = "CANCELLED"]
<1>1. CancelOK(t) /\ CanRelease(t, u) /\ u \in Users /\ b \in Bets
  BY DEF CancelCommit, Sound, RequestOK, CancelOK
<1>2. s \in Nat BY DEF Sound, Typed, Request
<1>3. /\ bet' = [bet EXCEPT ![b] = n] /\ match' = match /\ platform' = platform
      /\ wallet' = [wallet EXCEPT ![u] = unlock_stake(snap[t][u], s)]
      /\ now' = now /\ crashes' = crashes /\ betLock[b] = NoOne
      /\ ledger' = write_stake_unlock(b, u, s) /\ events' = write_bet_event(b, "CANCELLED")
  BY DEF CancelCommit
<1>4. /\ n \in Bet /\ n.status = "CANCELLED" /\ n.match_id = bet[b].match_id
      /\ n.creator_id = bet[b].creator_id /\ n.stake_amount = bet[b].stake_amount
      /\ n.creator_prediction = bet[b].creator_prediction /\ n.opponent_id = bet[b].opponent_id
      /\ n.opponent_prediction = bet[b].opponent_prediction
  <2>1. bet[b] \in Bet BY <1>1 DEF Sound, Typed
  <2> HIDE DEF b
  <2> QED BY <2>1 DEF Bet, BetStatus
<1> HIDE DEF n
<1>5. Ends(t) BY FinishEnds DEF CancelCommit
<1>6. RowTypes'
  <2>1. bet' \in [Bets -> Bet] BY <1>3, <1>4 DEF Sound, Typed
  <2>2. wallet' \in [Users -> Wallet]
    <3>1. unlock_stake(snap[t][u], s) \in Wallet BY <1>1, <1>2, ReleasedWallet DEF CanRelease
    <3> QED BY <1>3, <3>1 DEF Sound, Typed
  <2>3. ledger' \in [Bets -> [Users -> [EntryTypes -> Nat]]]
    BY <1>1, <1>2, <1>3 DEF Sound, Typed, write_stake_unlock, create_entry, EntryTypes
  <2>4. events' \in [Bets -> [EventTypes -> Nat]]
    BY <1>1, <1>3 DEF Sound, Typed, write_bet_event, EventTypes
  <2> QED BY <1>3, <2>1, <2>2, <2>3, <2>4 DEF RowTypes, Sound, Typed
<1>7. bet'[b] = n /\ \A c \in Bets \ {b} : bet'[c] = bet[c]
  BY <1>1, <1>3 DEF Sound, Typed
<1>8. RowsKept(t)
  <2>1. \A v \in Users : wallet'[v] = wallet[v] \/ walletLock[v] = t
    BY <1>1, <1>3 DEF Sound, Typed, CanRelease
  <2>2. bet[b].status # "none" BY <1>1 DEF CancelOK
  <2> QED BY <1>1, <1>3, <1>4, <1>7, <2>1, <2>2 DEF RowsKept
<1>9. ASSUME NEW c \in Bets PROVE RowOK(c)'
  <2>1. CASE c = b
    <3>1. RowOK(b) BY <1>1 DEF Sound
    <3> QED BY <1>1, <1>3, <1>4, <1>7, <2>1, <3>1 DEF RowOK, CancelOK
  <2>2. CASE c # b BY <1>3, <1>7, <2>2 DEF Sound, RowOK
  <2> QED BY <2>1, <2>2
<1> QED BY <1>5, <1>6, <1>8, <1>9, EndStep

(* VoidCommit gives every party the stake back. *)
LEMMA VoidCommitStep ==
  ASSUME Sound, NEW t \in Workers, VoidCommit(t)
  PROVE  Sound' /\ Guarantees(t)
<1> DEFINE b == req[t].bet
           s == req[t].stake
           R == Refunded(b)
           n == [bet[b] EXCEPT !.status = "VOIDED", !.settlement_outcome = "voided"]
<1>1. VoidOK(t) /\ b \in Bets /\ \A u \in R : CanRelease(t, u)
  BY DEF VoidCommit, Sound, RequestOK, VoidOK
<1>2. s \in Nat BY DEF Sound, Typed, Request
<1>3. /\ bet' = [bet EXCEPT ![b] = n] /\ match' = match /\ platform' = platform
      /\ wallet' = [u \in Users |-> IF u \in R THEN void_refund(snap[t][u], s) ELSE wallet[u]]
      /\ now' = now /\ crashes' = crashes
      /\ ledger' = write_void_refund(b, R, s) /\ events' = write_bet_event(b, "VOIDED")
  BY DEF VoidCommit
<1> HIDE DEF R
<1>4. /\ n \in Bet /\ n.status = "VOIDED" /\ n.match_id = bet[b].match_id
      /\ n.creator_id = bet[b].creator_id /\ n.stake_amount = bet[b].stake_amount
      /\ n.creator_prediction = bet[b].creator_prediction /\ n.opponent_id = bet[b].opponent_id
      /\ n.opponent_prediction = bet[b].opponent_prediction
  <2>1. bet[b] \in Bet BY <1>1 DEF Sound, Typed
  <2> HIDE DEF b
  <2> QED BY <2>1 DEF Bet, BetStatus, SettlementOutcome, Null
<1> HIDE DEF n
<1>5. Ends(t) BY FinishEnds DEF VoidCommit
<1>6. RowTypes'
  <2>1. bet' \in [Bets -> Bet] BY <1>3, <1>4 DEF Sound, Typed
  <2>2. wallet' \in [Users -> Wallet]
    <3>1. \A u \in Users : u \in R => void_refund(snap[t][u], s) \in Wallet
      BY <1>1, <1>2, ReleasedWallet DEF CanRelease
    <3> QED BY <1>3, <3>1 DEF Sound, Typed
  <2>3. ledger' \in [Bets -> [Users -> [EntryTypes -> Nat]]]
    BY <1>1, <1>2, <1>3 DEF Sound, Typed, write_void_refund, EntryTypes
  <2>4. events' \in [Bets -> [EventTypes -> Nat]]
    BY <1>1, <1>3 DEF Sound, Typed, write_bet_event, EventTypes
  <2> QED BY <1>3, <2>1, <2>2, <2>3, <2>4 DEF RowTypes, Sound, Typed
<1>7. bet'[b] = n /\ \A c \in Bets \ {b} : bet'[c] = bet[c]
  BY <1>1, <1>3 DEF Sound, Typed
<1>8. RowsKept(t)
  <2>1. \A v \in Users : wallet'[v] = wallet[v] \/ walletLock[v] = t
    BY <1>1, <1>3 DEF CanRelease
  <2>2. bet[b].status # "none" /\ betLock[b] = t BY <1>1 DEF VoidOK
  <2> QED BY <1>1, <1>3, <1>4, <1>7, <2>1, <2>2 DEF RowsKept
<1>9. ASSUME NEW c \in Bets PROVE RowOK(c)'
  <2>1. CASE c = b
    <3>1. RowOK(b) BY <1>1 DEF Sound
    <3> QED BY <1>1, <1>3, <1>4, <1>7, <2>1, <3>1 DEF RowOK, VoidOK
  <2>2. CASE c # b BY <1>3, <1>7, <2>2 DEF Sound, RowOK
  <2> QED BY <2>1, <2>2
<1> QED BY <1>5, <1>6, <1>8, <1>9, EndStep

(* ConfirmCommit sets the result of the match it has locked and queues the *)
(* matched bets it has locked.                                             *)
LEMMA ConfirmCommitStep ==
  ASSUME Sound, NEW t \in Workers, ConfirmCommit(t)
  PROVE  Sound' /\ Guarantees(t)
<1> USE ConstantsAssumption DEF ConstantsAssumption
<1> DEFINE m == req[t].match
           C == req[t].cached
           n == [match[m] EXCEPT !.status = "completed", !.outcome = req[t].outcome,
                                 !.confirmed = TRUE]
<1>1. ConfirmOK(t) /\ m \in Matches /\ C \subseteq Bets
  BY DEF ConfirmCommit, Sound, RequestOK, ConfirmOK, Typed, Request
<1>2. /\ match' = [match EXCEPT ![m] = n] /\ platform' = platform /\ wallet' = wallet
      /\ ledger' = ledger /\ now' = now /\ crashes' = crashes
      /\ bet' = [b \in Bets |-> IF b \in C
                   THEN [bet[b] EXCEPT !.status = "PENDING_SETTLEMENT"] ELSE bet[b]]
      /\ events' = [b \in Bets |-> IF b \in C
                      THEN [events[b] EXCEPT !["PENDING_SETTLEMENT"] = @ + 1] ELSE events[b]]
  BY DEF ConfirmCommit
<1>3. n \in Match /\ n.outcome = req[t].outcome /\ n.confirmed
  <2>1. match[m] \in Match BY <1>1 DEF Sound, Typed
  <2> HIDE DEF m
  <2> QED BY <1>1, <2>1 DEF Match, MatchStatus, Null, ConfirmOK
<1> HIDE DEF n
<1>4. Ends(t)
  <2>1. [NoRequest EXCEPT !.todo = C, !.cached = C] \in Request
    BY <1>1 DEF NoRequest, Request, Null
  <2> QED BY <2>1 DEF ConfirmCommit, Ends, AfterBet
<1>5. match'[m] = n /\ \A x \in Matches \ {m} : match'[x] = match[x]
  BY <1>1, <1>2 DEF Sound, Typed
<1>6. ASSUME NEW b \in C
      PROVE  /\ bet[b] \in Bet /\ bet'[b] = [bet[b] EXCEPT !.status = "PENDING_SETTLEMENT"]
             /\ betLock[b] = t /\ bet[b].status = "MATCHED" /\ bet[b].match_id = m
  BY <1>1, <1>2 DEF Sound, Typed, ConfirmOK
<1>7. \A b \in Bets \ C : bet'[b] = bet[b] BY <1>2
<1> HIDE DEF C
<1>8. RowTypes'
  <2>1. bet' \in [Bets -> Bet]
    <3>1. \A b \in C : [bet[b] EXCEPT !.status = "PENDING_SETTLEMENT"] \in Bet
      BY <1>6 DEF Bet, BetStatus
    <3> QED BY <1>2, <3>1 DEF Sound, Typed
  <2>2. match' \in [Matches -> Match] BY <1>2, <1>3 DEF Sound, Typed
  <2>3. events' \in [Bets -> [EventTypes -> Nat]]
    BY <1>2 DEF Sound, Typed, EventTypes
  <2> QED BY <1>2, <2>1, <2>2, <2>3 DEF RowTypes, Sound, Typed
<1>9. RowsKept(t)
  <2>1. matchLock[m] = t /\ ~match[m].confirmed BY <1>1 DEF ConfirmOK
  <2>2. ASSUME NEW b \in C
        PROVE  /\ betLock[b] = t /\ bet[b].status # "none" /\ bet'[b].status # "none"
               /\ bet'[b].creator_id = bet[b].creator_id
               /\ bet'[b].match_id = bet[b].match_id
               /\ bet'[b].stake_amount = bet[b].stake_amount
    BY <1>6 DEF Bet
  <2> QED BY <1>2, <1>5, <1>7, <2>1, <2>2 DEF RowsKept
<1>10. ASSUME NEW b \in Bets PROVE RowOK(b)'
  <2>1. RowOK(b) BY DEF Sound
  <2>2. CASE b \in C
    <3>1. /\ bet'[b].status = "PENDING_SETTLEMENT"
          /\ bet'[b].match_id = m
          /\ bet'[b].creator_id = bet[b].creator_id
          /\ bet'[b].opponent_id = bet[b].opponent_id
          /\ bet'[b].creator_prediction = bet[b].creator_prediction
          /\ bet'[b].opponent_prediction = bet[b].opponent_prediction
          /\ bet'[b].platform_fee = bet[b].platform_fee
          /\ bet[b].status = "MATCHED"
      <4>1. bet[b] \in Bet BY DEF Sound, Typed
      <4>2. /\ bet'[b] = [bet[b] EXCEPT !.status = "PENDING_SETTLEMENT"]
            /\ bet[b].status = "MATCHED" /\ bet[b].match_id = m
        BY <1>6, <2>2
      <4> QED BY <4>1, <4>2 DEF Bet
    <3>2. match'[bet'[b].match_id].confirmed BY <1>3, <1>5, <3>1
    <3> QED BY <1>1, <2>1, <3>1, <3>2 DEF RowOK
  <2>3. CASE b \notin C
    <3>1. bet'[b] = bet[b] BY <1>7, <2>3
    <3>2. bet[b].match_id \in Matches /\ match[bet[b].match_id].confirmed =>
            match'[bet[b].match_id].confirmed
      BY <1>3, <1>5
    <3> QED BY <2>1, <3>1, <3>2 DEF RowOK
  <2> QED BY <2>2, <2>3
<1> QED BY <1>4, <1>8, <1>9, <1>10, EndStep

(* What is true at settle_commit: t holds the bet, both parties' wallets,  *)
(* each covering the stake, and the platform row.                          *)
LEMMA ReadyToSettle ==
  ASSUME Sound, NEW t \in Workers, pc[t] = "settle_commit"
  PROVE  LET b == req[t].bet
             c == bet[b].creator_id
             d == bet[b].opponent_id
         IN  /\ b \in Bets /\ betLock[b] = t /\ bet[b].status # "none"
             /\ c \in Users /\ d \in Users /\ c # d
             /\ CanRelease(t, c) /\ CanRelease(t, d)
             /\ platformLock = t /\ psnap[t] = platform
<1>1. SettleOK(t) BY DEF Sound, RequestOK, SettlePCs
<1> DEFINE b == req[t].bet
           c == bet[b].creator_id
           d == bet[b].opponent_id
<1>2. b \in Bets /\ betLock[b] = t /\ bet[b].status # "none" /\ d # NoOne
      /\ walletLock[LockOrder(b)[1]] = t /\ walletLock[LockOrder(b)[2]] = t
      /\ Covered(t) /\ platformLock = t
  BY <1>1 DEF SettleOK
<1>3. /\ c \in Users /\ d \in Users /\ c # d
      /\ {LockOrder(b)[1], LockOrder(b)[2]} = {c, d}
  BY <1>2, LockOrderParties
<1>4. walletLock[c] = t /\ walletLock[d] = t
  <2> HIDE DEF b, c, d
  <2> QED BY <1>2, <1>3
<1>5. snap[t][c].locked >= req[t].stake /\ snap[t][d].locked >= req[t].stake
  BY <1>2 DEF Covered
<1>6. psnap[t] = platform BY <1>2, HeldPlatform
<1> QED BY <1>2, <1>3, <1>4, <1>5, <1>6 DEF CanRelease

(* The end of a settlement preserves the invariant, given what the two     *)
(* paths write to the wallets and the ledger.                              *)
LEMMA CompleteSettlementStep ==
  ASSUME Sound, NEW t \in Workers, pc[t] = "settle_commit",
         NEW winner \in Null(Users), NEW payout \in Nat, NEW fee \in Nat, NEW rate \in Nat,
         CompleteSettlement(t, winner, payout, fee, rate),
         wallet' \in [Users -> Wallet],
         \A u \in Users : wallet'[u] = wallet[u] \/ walletLock[u] = t,
         ledger' \in [Bets -> [Users -> [EntryTypes -> Nat]]]
  PROVE  Sound' /\ Guarantees(t)
<1> USE ConstantsAssumption DEF ConstantsAssumption
<1> DEFINE b == req[t].bet
           n == [bet[b] EXCEPT !.status = "SETTLED",
                               !.settlement_outcome = Path(b, req[t].outcome),
                               !.winner_id = winner, !.payout_amount = payout,
                               !.platform_fee = fee, !.applied_fee_rate = rate]
<1>1. /\ b \in Bets /\ betLock[b] = t /\ bet[b].status = "PENDING_SETTLEMENT"
      /\ platformLock = t /\ psnap[t] = platform
  BY ReadyToSettle DEF CompleteSettlement, CanSettle
<1>2. /\ bet' = [bet EXCEPT ![b] = n] /\ match' = match /\ platform' = psnap[t] + fee
      /\ now' = now /\ crashes' = crashes /\ events' = write_bet_event(b, "SETTLED")
  BY DEF CompleteSettlement
<1>3. /\ n \in Bet /\ n.status = "SETTLED" /\ n.match_id = bet[b].match_id
      /\ n.creator_id = bet[b].creator_id /\ n.stake_amount = bet[b].stake_amount
      /\ n.creator_prediction = bet[b].creator_prediction /\ n.opponent_id = bet[b].opponent_id
      /\ n.opponent_prediction = bet[b].opponent_prediction
  <2>1. bet[b] \in Bet BY <1>1 DEF Sound, Typed
  <2>2. Path(b, req[t].outcome) \in SettlementOutcome
    BY DEF Path, determine_path, SettlementOutcome
  <2> HIDE DEF b
  <2> QED BY <2>1, <2>2 DEF Bet, BetStatus, Null
<1> HIDE DEF n
<1>4. Ends(t)
  <2>1. req[t].todo \subseteq Bets /\ req[t].cached \subseteq Bets
    BY DEF Sound, Typed, Request
  <2>2. [NoRequest EXCEPT !.todo = req[t].todo, !.cached = req[t].cached \ {b}] \in Request
    BY <2>1 DEF NoRequest, Request, Null
  <2> QED BY <2>2 DEF CompleteSettlement, Ends, AfterBet
<1>5. RowTypes'
  <2>1. bet' \in [Bets -> Bet] BY <1>2, <1>3 DEF Sound, Typed
  <2>2. events' \in [Bets -> [EventTypes -> Nat]]
    BY <1>1, <1>2 DEF Sound, Typed, write_bet_event, EventTypes
  <2>3. platform' \in Nat BY <1>1, <1>2 DEF Sound, Typed
  <2> QED BY <1>2, <2>1, <2>2, <2>3 DEF RowTypes, Sound, Typed
<1>6. bet'[b] = n /\ \A c \in Bets \ {b} : bet'[c] = bet[c]
  BY <1>1, <1>2 DEF Sound, Typed
<1>7. RowsKept(t) BY <1>1, <1>2, <1>3, <1>6 DEF RowsKept
<1>8. ASSUME NEW c \in Bets PROVE RowOK(c)'
  <2>1. CASE c = b
    <3>1. RowOK(b) BY <1>1 DEF Sound
    <3> QED BY <1>1, <1>2, <1>3, <1>6, <2>1, <3>1 DEF RowOK
  <2>2. CASE c # b BY <1>2, <1>6, <2>2 DEF Sound, RowOK
  <2> QED BY <2>1, <2>2
<1> QED BY <1>4, <1>5, <1>7, <1>8, EndStep

(* The winner is paid what the platform does not take of the pool. *)
LEMMA SettleWinnerStep ==
  ASSUME Sound, NEW t \in Workers, SettleWinner(t)
  PROVE  Sound' /\ Guarantees(t)
<1> DEFINE b == req[t].bet
           creatorWins == Path(b, req[t].outcome) = "creator_wins"
           winner == IF creatorWins THEN bet[b].creator_id ELSE bet[b].opponent_id
           loser  == IF creatorWins THEN bet[b].opponent_id ELSE bet[b].creator_id
           s == req[t].stake
           p == WinnerAmounts(t).payout
           f == WinnerAmounts(t).fee
<1>1. pc[t] = "settle_commit" BY DEF SettleWinner
<1>2. /\ b \in Bets /\ winner \in Users /\ loser \in Users /\ winner # loser
      /\ CanRelease(t, winner) /\ CanRelease(t, loser)
  BY <1>1, ReadyToSettle
<1>3. s \in Nat /\ p \in Nat /\ f \in Nat BY <1>1, AmountsExact
<1>4. /\ wallet' = transfer_locked_funds(t, winner, loser, s, p)
      /\ ledger' = write_settlement_winner(b, winner, loser, s, p)
      /\ CompleteSettlement(t, winner, p, f, req[t].winner_fee_rate)
  BY DEF SettleWinner
<1> HIDE DEF winner, loser, p, f
<1>5. wallet' \in [Users -> Wallet]
  <2>1. /\ consume_stake(snap[t][winner], s, p) \in Wallet
        /\ consume_stake(snap[t][loser], s, 0) \in Wallet
    BY <1>2, <1>3, ReleasedWallet DEF CanRelease
  <2> QED BY <1>2, <1>4, <2>1 DEF transfer_locked_funds, Sound, Typed
<1>6. \A u \in Users : wallet'[u] = wallet[u] \/ walletLock[u] = t
  BY <1>2, <1>4 DEF transfer_locked_funds, Sound, Typed, CanRelease
<1>7. ledger' \in [Bets -> [Users -> [EntryTypes -> Nat]]]
  <2> DEFINE W == [ledger[b][winner] EXCEPT
                     !["SETTLEMENT_DEDUCT"] = ledger[b][winner]["SETTLEMENT_DEDUCT"] + s,
                     !["PAYOUT_CREDIT"] = ledger[b][winner]["PAYOUT_CREDIT"] + p]
             L == [ledger[b][loser] EXCEPT
                     !["SETTLEMENT_DEDUCT"] = ledger[b][loser]["SETTLEMENT_DEDUCT"] + s]
  <2>1. /\ ledger \in [Bets -> [Users -> [EntryTypes -> Nat]]]
        /\ ledger[b][winner] \in [EntryTypes -> Nat] /\ ledger[b][loser] \in [EntryTypes -> Nat]
    BY <1>2 DEF Sound, Typed
  <2>2. W \in [EntryTypes -> Nat] /\ L \in [EntryTypes -> Nat]
    BY <1>3, <2>1 DEF EntryTypes
  <2>3. ledger' = [ledger EXCEPT ![b] = [ledger[b] EXCEPT ![winner] = W, ![loser] = L]]
    BY <1>2, <1>4, <2>1 DEF write_settlement_winner
  <2> HIDE DEF W, L
  <2> QED BY <1>2, <2>1, <2>2, <2>3
<1>8. req[t].winner_fee_rate \in Nat BY DEF Sound, Typed, Request
<1> QED BY <1>1, <1>2, <1>3, <1>4, <1>5, <1>6, <1>7, <1>8, CompleteSettlementStep DEF Null

(* Each party gets the own stake back, less the fee. *)
LEMMA SettleNoWinnerStep ==
  ASSUME Sound, NEW t \in Workers, SettleNoWinner(t)
  PROVE  Sound' /\ Guarantees(t)
<1> DEFINE b == req[t].bet
           c == bet[b].creator_id
           d == bet[b].opponent_id
           s == req[t].stake
           p == NoWinnerAmounts(t).refund
           f == NoWinnerAmounts(t).fee
<1>1. pc[t] = "settle_commit" BY DEF SettleNoWinner
<1>2. /\ b \in Bets /\ c \in Users /\ d \in Users /\ c # d
      /\ CanRelease(t, c) /\ CanRelease(t, d)
  BY <1>1, ReadyToSettle
<1>3. s \in Nat /\ p \in Nat /\ f \in Nat BY <1>1, AmountsExact
<1>4. /\ wallet' = settle_no_winner(t, c, d, s, p)
      /\ ledger' = write_settlement_no_winner(b, c, d, f, p)
      /\ CompleteSettlement(t, NoOne, p, f + f, req[t].no_winner_fee_rate)
  BY DEF SettleNoWinner
<1> HIDE DEF c, d, p, f
<1>5. wallet' \in [Users -> Wallet]
  <2>1. /\ consume_stake(snap[t][c], s, p) \in Wallet
        /\ consume_stake(snap[t][d], s, p) \in Wallet
    BY <1>2, <1>3, ReleasedWallet DEF CanRelease
  <2> QED BY <1>2, <1>4, <2>1 DEF settle_no_winner, Sound, Typed
<1>6. \A u \in Users : wallet'[u] = wallet[u] \/ walletLock[u] = t
  BY <1>2, <1>4 DEF settle_no_winner, Sound, Typed, CanRelease
<1>7. ledger' \in [Bets -> [Users -> [EntryTypes -> Nat]]]
  <2> DEFINE E(u) == [ledger[b][u] EXCEPT
                        !["FEE_DEDUCT"] = ledger[b][u]["FEE_DEDUCT"] + f,
                        !["SETTLEMENT_DEDUCT"] = ledger[b][u]["SETTLEMENT_DEDUCT"] + p,
                        !["REFUND_CREDIT"] = ledger[b][u]["REFUND_CREDIT"] + p]
  <2>1. ledger \in [Bets -> [Users -> [EntryTypes -> Nat]]] BY DEF Sound, Typed
  <2>2. ASSUME NEW u \in Users PROVE E(u) \in [EntryTypes -> Nat]
    <3>1. ledger[b][u] \in [EntryTypes -> Nat] BY <1>2, <2>1
    <3> QED BY <1>3, <3>1 DEF EntryTypes
  <2>3. ledger' = [ledger EXCEPT ![b] = [ledger[b] EXCEPT ![c] = E(c), ![d] = E(d)]]
    BY <1>2, <1>4, <2>1 DEF write_settlement_no_winner
  <2> HIDE DEF E
  <2> QED BY <1>2, <2>1, <2>2, <2>3
<1>8. req[t].no_winner_fee_rate \in Nat /\ f + f \in Nat
  BY <1>3 DEF Sound, Typed, Request
<1> QED BY <1>1, <1>2, <1>3, <1>4, <1>5, <1>6, <1>7, <1>8, CompleteSettlementStep DEF Null

-----------------------------------------------------------------------------
(* A request that is rolled back, and goes on with its next bet or not,    *)
(* preserves the invariant: refusals, errors, deadlock victims, crashes.   *)
LEMMA VictimStep ==
  ASSUME Sound, NEW t \in Workers,
         Finish(t) \/ \E todo \in SUBSET Bets : NextBet(t, todo),
         UNCHANGED <<now, rows>>, crashes' \in Nat
  PROVE  Sound' /\ Guarantees(t)
<1>1. Ends(t) BY FinishEnds, NextBetEnds
<1> QED BY <1>1, RollbackStep

(* The refusals of the services roll back. *)
LEMMA RefusalSteps ==
  ASSUME Sound, NEW t \in Workers,
         \/ LockStakeRefused(t) \/ UnlockStakeRefused(t) \/ VoidRefundRefused(t)
         \/ (\E b \in Bets : \E o : SettleRefusedOn(t, b, o)) \/ SettleFail(t)
  PROVE  Sound' /\ Guarantees(t)
<1>1. \A b \in Bets : req[t].todo \in SUBSET Bets /\ req[t].todo \ {b} \in SUBSET Bets
  BY DEF Sound, Typed, Request
<1>2. req[t].todo \in SUBSET Bets BY DEF Sound, Typed, Request
<1>3. UNCHANGED <<now, rows>> /\ crashes' = crashes
  BY DEF LockStakeRefused, UnlockStakeRefused, VoidRefundRefused, SettleRefusedOn, SettleFail
<1>4. crashes' \in Nat BY <1>3 DEF Sound, Typed
<1>5. Finish(t) \/ \E todo \in SUBSET Bets : NextBet(t, todo)
  BY <1>1, <1>2
  DEF LockStakeRefused, UnlockStakeRefused, VoidRefundRefused, SettleRefusedOn, SettleFail
<1> QED BY <1>3, <1>4, <1>5, VictimStep

(* Every step of bet_service, admin_service and the settlement services    *)
(* preserves the invariant and gives the other requests its guarantees.    *)
LEMMA BetServiceSound ==
  ASSUME Sound, NEW t \in Workers, BetServiceStep(t) PROVE Sound' /\ Guarantees(t)
BY CreateBeginStep, AcceptLockStep, LockStakeStep, RefusalSteps, CreateCommitStep,
   AcceptCommitStep, CancelReadStep, UnlockStakeStep, CancelCommitStep
   DEF BetServiceStep

(* The same for void_bet. *)
LEMMA AdminServiceSound ==
  ASSUME Sound, NEW t \in Workers, AdminServiceStep(t) PROVE Sound' /\ Guarantees(t)
BY VoidLockStep, VoidRefundStep, RefusalSteps, VoidCommitStep DEF AdminServiceStep

(* The same for confirmation and settlement. *)
LEMMA SettlementSound ==
  ASSUME Sound, NEW t \in Workers, SettlementStep(t) PROVE Sound' /\ Guarantees(t)
<1>1. ASSUME NEW b \in Bets, SettleLock(t, b) PROVE Sound' /\ Guarantees(t)
  <2>1. MatchOutcome(b) \in Null(Outcomes)
    <3>1. bet[b].opponent_id # NoOne BY <1>1 DEF SettleLock, SettleLockOn, SettleChecks
    <3>2. bet[b].match_id \in Matches BY <3>1 DEF Sound, RowOK, NoBet
    <3> QED BY <3>2 DEF MatchOutcome, Sound, Typed, Match
  <2> QED BY <1>1, <2>1, SettleLockOnStep DEF SettleLock
<1>2. ASSUME NEW b \in Bets, SettleRefused(t, b) PROVE Sound' /\ Guarantees(t)
  BY <1>2, RefusalSteps DEF SettleRefused
<1> QED
  BY <1>1, <1>2, ConfirmLockStep, ConfirmScanStep, ConfirmRowStep, ConfirmCommitStep,
     SettleSingleStep, RefusalSteps, SettleWalletStep, SettlePlatformStep,
     SettleWinnerStep, SettleNoWinnerStep
  DEF SettlementStep

(* So do a deadlock victim and a crash. *)
LEMMA AbortSound ==
  ASSUME Sound, NEW t \in Workers, DeadlockAbort(t) \/ Crash(t)
  PROVE  Sound' /\ Guarantees(t)
<1>1. req[t].todo \in SUBSET Bets BY DEF Sound, Typed, Request
<1>2. UNCHANGED <<now, rows>> /\ crashes' \in Nat
  BY DEF DeadlockAbort, Crash, Sound, Typed
<1>3. Finish(t) \/ \E todo \in SUBSET Bets : NextBet(t, todo)
  BY <1>1 DEF DeadlockAbort, Crash
<1> QED BY <1>2, <1>3, VictimStep

(* So every step of the core does. *)
LEMMA StepSound ==
  ASSUME Sound, NEW t \in Workers, ServiceStep(t) \/ DeadlockAbort(t) \/ Crash(t)
  PROVE  Sound' /\ Guarantees(t)
BY BetServiceSound, AdminServiceSound, SettlementSound, AbortSound DEF ServiceStep

(* The clock and stuttering steps touch no row, lock or request. *)
LEMMA IdleStep ==
  ASSUME Sound, UNCHANGED <<rows, locks, work, crashes>>, now' \in Nat
  PROVE  Sound'
<1>1. Typed' BY DEF Sound, Typed, rows, locks, work
<1>2. SessionsFresh' /\ IdsDistinct'
  BY DEF Sound, SessionsFresh, IdsDistinct, rows, locks, work
<1>3. \A b \in Bets : RowOK(b)'
  BY DEF Sound, RowOK, rows
<1>4. ASSUME NEW t \in Workers PROVE RequestOK(t)'
  <2>1. RequestOK(t) BY DEF Sound
  <2> QED BY <2>1
    DEF RequestOK, CreateOK, AcceptOK, CancelOK, VoidOK, ConfirmOK, SettleOK, CanPay,
        CanRelease, Refunded, LockOrder, Covered, rows, locks, work
<1> QED BY <1>1, <1>2, <1>3, <1>4 DEF Sound

(* The database with any fixtures and no request in flight is sound. *)
LEMMA InitSound ==
  ASSUME InitRest, match \in [Matches -> Match]
  PROVE  Sound
<1> USE ConstantsAssumption DEF ConstantsAssumption
<1>1. Typed
  <2>1. NoBet \in Bet BY DEF NoBet, Bet, Null
  <2>2. NoEntries \in [EntryTypes -> Nat] BY DEF NoEntries
  <2>3. NoWallets \in [Users -> Wallet] BY DEF NoWallets, Wallet
  <2>4. wallet \in [Users -> Wallet] BY DEF InitRest, Wallet
  <2>5. bet \in [Bets -> Bet] BY <2>1 DEF InitRest
  <2>6. /\ ledger \in [Bets -> [Users -> [EntryTypes -> Nat]]]
        /\ events \in [Bets -> [EventTypes -> Nat]]
    BY <2>2 DEF InitRest
  <2>7. /\ pc = [t \in Workers |-> pc[t]] /\ req \in [Workers -> Request]
        /\ snap \in [Workers -> [Users -> Wallet]] /\ psnap \in [Workers -> Nat]
    BY <2>3, NoRequestType DEF InitRest
  <2>8. LockTypes BY DEF InitRest, LockTypes, Null
  <2> QED BY <2>4, <2>5, <2>6, <2>7, <2>8 DEF Typed, LockTypes, InitRest
<1>2. SessionsFresh BY DEF InitRest, SessionsFresh
<1>3. IdsDistinct BY DEF InitRest, IdsDistinct
<1>4. \A b \in Bets : RowOK(b) BY DEF InitRest, RowOK, NoBet
<1>5. \A t \in Workers : RequestOK(t) BY DEF InitRest, RequestOK, SettlePCs
<1> QED BY <1>1, <1>2, <1>3, <1>4, <1>5 DEF Sound

-----------------------------------------------------------------------------
(* The locks a request holds. *)

(* The steps of t leave the locks of the others in place. *)
LEMMA LocksRely ==
  ASSUME Sound, NEW t \in Workers, Guarantees(t), NEW o \in Workers \ {t}, LocksOK(o)
  PROVE  LocksOK(o)'
<1>1. o # NoOne BY ConstantsAssumption DEF ConstantsAssumption
<1>2. pc'[o] = pc[o] /\ req'[o] = req[o] BY DEF Guarantees, SessionsKept
<1>3. /\ \A b \in Bets : betLock'[b] = o => betLock[b] = o
      /\ \A u \in Users : walletLock'[u] = o => walletLock[u] = o
      /\ platformLock' = o => platformLock = o
  BY <1>1 DEF Guarantees, LocksKept
<1>4. \A b \in Bets : betLock[b] = o /\ bet[b].status # "none" => bet'[b] = bet[b]
  BY <1>1 DEF Guarantees, RowsKept
<1>5. ASSUME pc[o] = "settle_wallet2"
      PROVE  LockOrder(req[o].bet)' = LockOrder(req[o].bet)
  <2>1. SettleOK(o) BY <1>5 DEF Sound, RequestOK, SettlePCs
  <2>2. bet'[req[o].bet] = bet[req[o].bet] BY <1>4, <2>1 DEF SettleOK
  <2> QED BY <1>2, <2>2 DEF LockOrder
<1> QED BY <1>2, <1>3, <1>4, <1>5 DEF LocksOK

(* A request that holds neither bet nor wallet nor the platform row. *)
Free(t) ==
  /\ \A b \in Bets : betLock[b] # t
  /\ \A u \in Users : walletLock[u] # t
  /\ platformLock # t

(* No request between two transactions holds a row, nor one that creates   *)
(* or cancels a bet and has not reached the wallet.                        *)
LEMMA FreeAt ==
  ASSUME NEW t \in Workers, LocksOK(t), pc[t] \in PCs, pc[t] \notin WalletHolders \cup BetHolders
  PROVE  Free(t)
BY DEF LocksOK, Free, WalletHolders, BetHolders

(* The end of a transaction releases everything. *)
LEMMA EndsFree ==
  ASSUME Sound, NEW t \in Workers, Ends(t)
  PROVE  LocksOK(t)'
<1>1. Free(t)'
  BY ConstantsAssumption
  DEF ConstantsAssumption, Free, Ends, ReleaseAll, Released, Sound, Typed
<1> QED BY <1>1 DEF LocksOK, Free

(* A step that locks nothing, of a request that holds nothing. *)
LEMMA FreeStep ==
  ASSUME NEW t \in Workers, Free(t), UNCHANGED <<betLock, walletLock, platformLock>>
  PROVE  LocksOK(t)'
BY DEF LocksOK, Free

(* The first lock of a transaction is a bet. *)
LEMMA BetLockTaken ==
  ASSUME Sound, NEW t \in Workers, Free(t), NEW b \in Bets, NEW label,
         get_for_update(t, b), Goto(t, label), UNCHANGED <<walletLock, platformLock>>,
         label \in BetHolders \ {"confirm_rows"}
  PROVE  LocksOK(t)'
<1>1. pc'[t] = label BY DEF Goto, Sound, Typed
<1> QED BY <1>1 DEF LocksOK, Free

(* A wallet is locked on the way to a place where wallets are held. *)
LEMMA WalletLockTaken ==
  ASSUME Sound, NEW t \in Workers, LocksOK(t), pc[t] \in PCs, NEW u, NEW label,
         get_by_user_id_for_update(t, u), Goto(t, label), UNCHANGED <<betLock, platformLock, bet, req>>,
         label \in WalletHolders, pc[t] \in BetHolders => label \in BetHolders,
         label # "confirm_rows", platformLock # t,
         label = "settle_wallet2" =>
           u = LockOrder(req[t].bet)[1] /\ \A v \in Users : walletLock[v] # t
  PROVE  LocksOK(t)'
<1>1. pc'[t] = label BY DEF Goto, Sound, Typed
<1>2. \A v \in Users : walletLock'[v] = t => v = u \/ walletLock[v] = t
  BY DEF get_by_user_id_for_update, Sound, Typed
<1>3. LockOrder(req[t].bet)' = LockOrder(req[t].bet) BY DEF LockOrder
<1> QED BY <1>1, <1>2, <1>3 DEF LocksOK

(* The steps of bet_service take their locks as LocksOK says. *)
LEMMA BetServiceLocks ==
  ASSUME Sound, NEW t \in Workers, LocksOK(t), BetServiceStep(t)
  PROVE  LocksOK(t)'
<1> USE DEF WalletHolders, BetHolders
<1>1. ASSUME NEW u \in Users, NEW b \in Bets, NEW m \in Matches, NEW p \in Outcomes,
             NEW s \in StakeInputs, CreateBegin(t, u, b, m, p, s)
      PROVE  LocksOK(t)'
  <2>1. pc[t] = "idle" /\ pc[t] \in PCs BY <1>1 DEF CreateBegin, PCs
  <2> QED BY <1>1, <2>1, FreeAt, FreeStep DEF CreateBegin, locks
<1>2. ASSUME NEW b \in Bets, CancelRead(t, b) PROVE LocksOK(t)'
  <2>1. pc[t] = "idle" /\ pc[t] \in PCs BY <1>2 DEF CancelRead, PCs
  <2> QED BY <1>2, <2>1, FreeAt, FreeStep DEF CancelRead, locks
<1>3. ASSUME NEW u \in Users, NEW b \in Bets, NEW p \in Outcomes, AcceptLock(t, u, b, p)
      PROVE  LocksOK(t)'
  <2>1. pc[t] = "idle" /\ pc[t] \in PCs BY <1>3 DEF AcceptLock, PCs
  <2> QED BY <1>3, <2>1, FreeAt, BetLockTaken DEF AcceptLock
<1>4. CASE LockStake(t)
  <2>1. /\ pc[t] \in PCs /\ pc[t] # "settle_commit"
        /\ \/ pc[t] = "create_wallet" /\ Goto(t, "create_commit")
           \/ pc[t] = "accept_wallet" /\ Goto(t, "accept_commit")
    BY <1>4 DEF LockStake, AfterLockStake, PCs
  <2>2. platformLock # t BY <2>1 DEF LocksOK
  <2>3. UNCHANGED <<betLock, platformLock, bet, req>> BY <1>4 DEF LockStake, rows
  <2> QED BY <1>4, <2>1, <2>2, <2>3, WalletLockTaken DEF LockStake
<1>5. CASE UnlockStake(t)
  <2>1. pc[t] \in PCs /\ pc[t] = "cancel_wallet" BY <1>5 DEF UnlockStake, PCs
  <2>2. platformLock # t BY <2>1 DEF LocksOK
  <2>3. UNCHANGED <<betLock, platformLock, bet, req>> BY <1>5 DEF UnlockStake, rows
  <2> QED BY <1>5, <2>1, <2>2, <2>3, WalletLockTaken DEF UnlockStake
<1>6. CASE \/ LockStakeRefused(t) \/ UnlockStakeRefused(t)
           \/ CreateCommit(t) \/ AcceptCommit(t) \/ CancelCommit(t)
  BY <1>6, FinishEnds, EndsFree
  DEF LockStakeRefused, UnlockStakeRefused, CreateCommit, AcceptCommit, CancelCommit
<1> QED BY <1>1, <1>2, <1>3, <1>4, <1>5, <1>6 DEF BetServiceStep

(* So does void_bet. *)
LEMMA AdminServiceLocks ==
  ASSUME Sound, NEW t \in Workers, LocksOK(t), AdminServiceStep(t)
  PROVE  LocksOK(t)'
<1> USE DEF WalletHolders, BetHolders
<1>1. ASSUME NEW b \in Bets, VoidLock(t, b) PROVE LocksOK(t)'
  <2>1. pc[t] = "idle" /\ pc[t] \in PCs BY <1>1 DEF VoidLock, PCs
  <2> QED BY <1>1, <2>1, FreeAt, BetLockTaken DEF VoidLock
<1>2. CASE VoidRefund(t)
  <2>1. pc[t] \in PCs /\ pc[t] # "settle_commit" BY <1>2 DEF VoidRefund, PCs
  <2>2. platformLock # t BY <2>1 DEF LocksOK
  <2>3. UNCHANGED <<betLock, platformLock, bet, req>> BY <1>2 DEF VoidRefund, rows
  <2>4. Goto(t, "void_opponent") \/ Goto(t, "void_commit") BY <1>2 DEF VoidRefund
  <2> QED BY <1>2, <2>1, <2>2, <2>3, <2>4, WalletLockTaken DEF VoidRefund
<1>3. CASE VoidRefundRefused(t) \/ VoidCommit(t)
  BY <1>3, FinishEnds, EndsFree DEF VoidRefundRefused, VoidCommit
<1> QED BY <1>1, <1>2, <1>3 DEF AdminServiceStep

(* A settlement locks its bet whatever outcome the session finds. *)
LEMMA SettleLockLocks ==
  ASSUME Sound, NEW t \in Workers, LocksOK(t), NEW b \in Bets, NEW o, SettleLockOn(t, b, o)
  PROVE  LocksOK(t)'
<1> USE DEF WalletHolders, BetHolders
<1>1. pc[t] = "settle_next" /\ pc[t] \in PCs BY DEF SettleLockOn, PCs, SettlePCs
<1> QED BY <1>1, FreeAt, BetLockTaken DEF SettleLockOn

(* Commits and rollbacks of a settlement end its transaction. *)
LEMMA CommitEnds ==
  ASSUME Sound, NEW t \in Workers,
         \/ ConfirmCommit(t) \/ (\E b \in Bets : SettleRefused(t, b))
         \/ SettleWinner(t) \/ SettleNoWinner(t) \/ SettleFail(t)
  PROVE  Ends(t)
<1>1. req[t] \in Request BY DEF Sound, Typed
<1>2. /\ req[t].todo \in SUBSET Bets /\ req[t].cached \in SUBSET Bets
      /\ \A b \in Bets : req[t].todo \ {b} \in SUBSET Bets
  BY <1>1 DEF Request
<1>3. CASE SettleFail(t) \/ \E b \in Bets : SettleRefused(t, b)
  BY <1>2, <1>3, NextBetEnds DEF SettleFail, SettleRefused, SettleRefusedOn
<1>4. CASE ConfirmCommit(t)
  <2>1. [NoRequest EXCEPT !.todo = req[t].cached, !.cached = req[t].cached] \in Request
    BY <1>2 DEF NoRequest, Request, Null
  <2> QED BY <1>4, <2>1 DEF ConfirmCommit, Ends, AfterBet
<1>5. CASE SettleWinner(t) \/ SettleNoWinner(t)
  <2>1. PICK winner, payout, fee, rate : CompleteSettlement(t, winner, payout, fee, rate)
    BY <1>5 DEF SettleWinner, SettleNoWinner
  <2>2. [NoRequest EXCEPT !.todo = req[t].todo, !.cached = req[t].cached \ {req[t].bet}]
          \in Request
    BY <1>2 DEF NoRequest, Request, Null
  <2> QED BY <2>1, <2>2 DEF CompleteSettlement, Ends, AfterBet
<1> QED BY <1>3, <1>4, <1>5

(* A deadlock victim and a crashed request give up everything. *)
LEMMA AbortEnds ==
  ASSUME Sound, NEW t \in Workers, DeadlockAbort(t) \/ Crash(t) PROVE Ends(t)
<1>1. req[t].todo \in SUBSET Bets BY DEF Sound, Typed, Request
<1> QED BY <1>1, FinishEnds, NextBetEnds DEF DeadlockAbort, Crash

(* So do confirmation and settlement: the wallets in ascending order, the  *)
(* platform row last.                                                      *)
LEMMA SettlementLocks ==
  ASSUME Sound, NEW t \in Workers, LocksOK(t), SettlementStep(t)
  PROVE  LocksOK(t)'
<1> USE DEF WalletHolders, BetHolders
<1>1. ASSUME NEW m \in Matches, NEW o \in Outcomes, ConfirmLock(t, m, o) PROVE LocksOK(t)'
  <2>1. pc[t] = "idle" /\ pc[t] \in PCs BY <1>1 DEF ConfirmLock, PCs
  <2> QED BY <1>1, <2>1, FreeAt, FreeStep DEF ConfirmLock
<1>2. CASE ConfirmScan(t)
  <2>1. pc[t] = "confirm_scan" /\ pc[t] \in PCs BY <1>2 DEF ConfirmScan, PCs
  <2> QED BY <1>2, <2>1, FreeAt, FreeStep DEF ConfirmScan, locks
<1>3. ASSUME NEW b \in Bets, SettleSingle(t, b) PROVE LocksOK(t)'
  <2>1. pc[t] = "idle" /\ pc[t] \in PCs BY <1>3 DEF SettleSingle, PCs
  <2> QED BY <1>3, <2>1, FreeAt, FreeStep DEF SettleSingle, locks
<1>4. ASSUME NEW b \in Bets, ConfirmRow(t, b) PROVE LocksOK(t)'
  <2>1. /\ pc[t] = "confirm_rows" /\ pc[t] \in PCs /\ pc'[t] = pc[t] /\ b \in req[t].todo
        /\ betLock' = [betLock EXCEPT ![b] = t] /\ bet' = bet
        /\ walletLock' = walletLock /\ platformLock' = platformLock
    BY <1>4 DEF ConfirmRow, get_for_update, PCs, rows
  <2>2. req'[t].match = req[t].match /\ req'[t].todo = req[t].todo \ {b}
    BY <1>4 DEF ConfirmRow, Sound, Typed, Request
  <2>3. bet[b].status # "none" /\ bet[b].match_id = req[t].match
    BY <2>1 DEF Sound, RequestOK, ConfirmOK
  <2>4. \A c \in Bets : betLock'[c] = t => c = b \/ betLock[c] = t
    BY <2>1 DEF Sound, Typed
  <2> QED BY <2>1, <2>2, <2>3, <2>4 DEF LocksOK
<1>5. CASE SettleWallet(t)
  <2>1. pc[t] \in PCs /\ pc[t] # "settle_commit" BY <1>5 DEF SettleWallet, PCs, SettlePCs
  <2>2. platformLock # t BY <2>1 DEF LocksOK
  <2>3. UNCHANGED <<betLock, platformLock, bet, req>> BY <1>5 DEF SettleWallet, rows
  <2>4. CASE pc[t] = "settle_wallet1"
    <3>1. Goto(t, "settle_wallet2") /\ SettleUser(t) = LockOrder(req[t].bet)[1]
      BY <1>5, <2>4 DEF SettleWallet, SettleUser
    <3>2. \A v \in Users : walletLock[v] # t BY <2>1, <2>4 DEF LocksOK
    <3> QED BY <1>5, <2>1, <2>2, <2>3, <3>1, <3>2, WalletLockTaken DEF SettleWallet
  <2>5. CASE pc[t] = "settle_wallet2"
    <3>1. Goto(t, "settle_check") BY <1>5, <2>5 DEF SettleWallet
    <3> QED BY <1>5, <2>1, <2>2, <2>3, <3>1, WalletLockTaken DEF SettleWallet
  <2> QED BY <1>5, <2>4, <2>5 DEF SettleWallet
<1>6. CASE SettlePlatform(t)
  <2>1. pc[t] = "settle_check" /\ pc[t] \in PCs BY <1>6 DEF SettlePlatform, PCs, SettlePCs
  <2>2. pc'[t] = "settle_commit" BY <1>6 DEF SettlePlatform, Goto, Sound, Typed
  <2>3. walletLock' = walletLock /\ betLock' = betLock BY <1>6 DEF SettlePlatform
  <2> QED BY <2>1, <2>2, <2>3 DEF LocksOK
<1>7. ASSUME NEW b \in Bets, SettleLock(t, b) PROVE LocksOK(t)'
  BY <1>7, SettleLockLocks DEF SettleLock
<1>8. CASE \/ ConfirmCommit(t) \/ (\E b \in Bets : SettleRefused(t, b))
           \/ SettleWinner(t) \/ SettleNoWinner(t) \/ SettleFail(t)
  BY <1>8, CommitEnds, EndsFree
<1> QED BY <1>1, <1>2, <1>3, <1>4, <1>5, <1>6, <1>7, <1>8 DEF SettlementStep

(* Every step of the core leaves the locks of its request in order. *)
LEMMA StepLocks ==
  ASSUME Sound, LocksTaken, NEW t \in Workers, Guarantees(t),
         ServiceStep(t) \/ DeadlockAbort(t) \/ Crash(t)
  PROVE  LocksTaken'
<1>1. ASSUME NEW o \in Workers \ {t} PROVE LocksOK(o)' BY <1>1, LocksRely DEF LocksTaken
<1>2. LocksOK(t)'
  <2>1. LocksOK(t) BY DEF LocksTaken
  <2>2. CASE DeadlockAbort(t) \/ Crash(t) BY <2>2, AbortEnds, EndsFree
  <2> QED BY <2>1, <2>2, BetServiceLocks, AdminServiceLocks, SettlementLocks DEF ServiceStep
<1> QED BY <1>1, <1>2 DEF LocksTaken

-----------------------------------------------------------------------------
(* The betting core alone. *)

(* A step of the core is taken at one of its labels and goes to one. *)
LEMMA LabelStep ==
  ASSUME Sound, NEW t \in Workers, ServiceStep(t) \/ DeadlockAbort(t) \/ Crash(t)
  PROVE  \E label \in PCs : Goto(t, label)
<1> USE DEF PCs, SettlePCs
<1>2. CASE Finish(t) BY <1>2 DEF Finish, Goto
<1>3. CASE \E todo : NextBet(t, todo) BY <1>3 DEF NextBet, AfterBet
<1>4. CASE BetServiceStep(t)
  <2>1. LockStake(t) => Goto(t, "create_commit") \/ Goto(t, "accept_commit")
    BY DEF LockStake, AfterLockStake
  <2> QED BY <1>2, <1>4, <2>1 DEF BetServiceStep, CreateBegin, AcceptLock,
     LockStakeRefused, CreateCommit, AcceptCommit, CancelRead, UnlockStake,
     UnlockStakeRefused, CancelCommit
<1>5. CASE AdminServiceStep(t)
  BY <1>2, <1>5 DEF AdminServiceStep, VoidLock, VoidRefund, VoidRefundRefused, VoidCommit
<1>6. CASE SettlementStep(t)
  <2>1. ASSUME NEW b \in Bets, ConfirmRow(t, b) PROVE Goto(t, "confirm_rows")
    BY <2>1 DEF ConfirmRow, Goto, Sound, Typed
  <2>2. CASE SettleWinner(t) \/ SettleNoWinner(t)
    BY <2>2 DEF SettleWinner, SettleNoWinner, CompleteSettlement, AfterBet
  <2> QED BY <1>3, <1>6, <2>1, <2>2
    DEF SettlementStep, ConfirmLock, ConfirmScan, ConfirmCommit, AfterBet, SettleSingle,
        SettleLock, SettleLockOn, SettleRefused, SettleRefusedOn, SettleWallet,
        SettlePlatform, SettleFail
<1>7. CASE DeadlockAbort(t) \/ Crash(t) BY <1>2, <1>3, <1>7 DEF DeadlockAbort, Crash
<1> QED BY <1>4, <1>5, <1>6, <1>7 DEF ServiceStep

(* The requests it is taken by are those of the core. *)
LEMMA LabelBefore ==
  ASSUME NEW t \in Workers, ServiceStep(t)
  PROVE  pc[t] \in PCs
<1> USE DEF PCs, SettlePCs
<1>1. CASE BetServiceStep(t)
  BY <1>1 DEF BetServiceStep, CreateBegin, AcceptLock, LockStake, LockStakeRefused,
     AfterLockStake, CreateCommit, AcceptCommit, CancelRead, UnlockStake,
     UnlockStakeRefused, CancelCommit
<1>2. CASE AdminServiceStep(t)
  BY <1>2 DEF AdminServiceStep, VoidLock, VoidRefund, VoidRefundRefused, VoidCommit
<1>3. CASE SettlementStep(t)
  BY <1>3 DEF SettlementStep, ConfirmLock, ConfirmScan, ConfirmRow, ConfirmCommit,
     SettleSingle, SettleLock, SettleLockOn, SettleRefused, SettleRefusedOn, SettleWallet,
     SettlePlatform, SettleWinner, SettleNoWinner, SettleFail
<1> QED BY <1>1, <1>2, <1>3 DEF ServiceStep

(* A step writes a result only on the match it is confirming. *)
LEMMA MatchWrites ==
  ASSUME NEW t \in Workers, ServiceStep(t) \/ DeadlockAbort(t) \/ Crash(t)
  PROVE  match' = match \/ ConfirmCommit(t)
BY DEF ServiceStep, BetServiceStep, CreateBegin, AcceptLock, LockStake, LockStakeRefused,
       CreateCommit, AcceptCommit, CancelRead, UnlockStake, UnlockStakeRefused, CancelCommit,
       AdminServiceStep, VoidLock, VoidRefund, VoidRefundRefused, VoidCommit,
       SettlementStep, ConfirmLock, ConfirmScan, ConfirmRow, SettleSingle,
       SettleLock, SettleLockOn, SettleRefused, SettleRefusedOn, SettleWallet,
       SettlePlatform, SettleWinner, SettleNoWinner, CompleteSettlement, SettleFail,
       DeadlockAbort, Crash, rows

(* Where a settlement of t works after a step of t, it worked on the same  *)
(* bet and outcome before, or it has just read the outcome.                *)
LEMMA SettlesOn ==
  ASSUME Sound, NEW t \in Workers, ServiceStep(t) \/ DeadlockAbort(t) \/ Crash(t),
         pc'[t] \in SettlePCs \ {"settle_next"}
  PROVE  /\ match' = match /\ bet' = bet
         /\ \/ /\ pc[t] \in SettlePCs \ {"settle_next"}
               /\ req'[t].bet = req[t].bet /\ req'[t].outcome = req[t].outcome
            \/ req'[t].outcome = match[bet[req'[t].bet].match_id].outcome
<1>1. pc = [o \in Workers |-> pc[o]] /\ req \in [Workers -> Request] BY DEF Sound, Typed
<1>2. ~Finish(t)
  BY <1>1 DEF Finish, SettlePCs
<1>3. \A todo : ~NextBet(t, todo)
  BY <1>1 DEF NextBet, Goto, AfterBet, SettlePCs
<1>4. ~BetServiceStep(t)
  <2>1. LockStake(t) => Goto(t, "create_commit") \/ Goto(t, "accept_commit")
    BY DEF LockStake, AfterLockStake
  <2> QED BY <1>1, <1>2, <2>1 DEF BetServiceStep, CreateBegin, AcceptLock,
     LockStakeRefused, CreateCommit, AcceptCommit, CancelRead, UnlockStake,
     UnlockStakeRefused, CancelCommit, Goto, SettlePCs
<1>5. ~AdminServiceStep(t)
  BY <1>1, <1>2 DEF AdminServiceStep, VoidLock, VoidRefund, VoidRefundRefused, VoidCommit,
     Goto, SettlePCs
<1>6. ~DeadlockAbort(t) /\ ~Crash(t) BY <1>2, <1>3 DEF DeadlockAbort, Crash
<1>7. ASSUME NEW b \in Bets PROVE ~SettleRefused(t, b) /\ ~SettleSingle(t, b) /\ ~ConfirmRow(t, b)
  BY <1>1, <1>3 DEF SettleRefused, SettleRefusedOn, SettleSingle, ConfirmRow, Goto, SettlePCs
<1>8. /\ ~SettleFail(t) /\ ~SettleWinner(t) /\ ~SettleNoWinner(t) /\ ~ConfirmScan(t)
      /\ ~ConfirmCommit(t) /\ \A m \in Matches, o \in Outcomes : ~ConfirmLock(t, m, o)
  BY <1>1, <1>3 DEF SettleFail, SettleWinner, SettleNoWinner, CompleteSettlement, ConfirmScan,
     ConfirmCommit, ConfirmLock, AfterBet, Goto, SettlePCs
<1>9. CASE SettleWallet(t) \/ SettlePlatform(t)
  BY <1>9 DEF SettleWallet, SettlePlatform, rows, SettlePCs
<1>10. ASSUME NEW b \in Bets, SettleLock(t, b)
       PROVE  /\ match' = match /\ bet' = bet
              /\ req'[t].bet = b /\ req'[t].outcome = match[bet[b].match_id].outcome
  <2>1. req[t] \in Request BY <1>1
  <2> QED BY <1>1, <1>10, <2>1 DEF SettleLock, SettleLockOn, MatchOutcome, Request, rows
<1> QED BY <1>4, <1>5, <1>6, <1>7, <1>8, <1>9, <1>10 DEF ServiceStep, SettlementStep

(* A result never changes under a settlement: it is confirmed by then. *)
LEMMA ResultsStep ==
  ASSUME Sound, Results, NEW t \in Workers, Sound', Guarantees(t),
         ServiceStep(t) \/ DeadlockAbort(t) \/ Crash(t)
  PROVE  Results'
<1> USE ConstantsAssumption DEF ConstantsAssumption
<1> DEFINE m == req[t].match
<1>1. \/ match' = match
      \/ /\ m \in Matches /\ ~match[m].confirmed /\ req[t].outcome \in Outcomes
         /\ match'[m].outcome = req[t].outcome /\ match'[m].confirmed
         /\ \A x \in Matches \ {m} : match'[x] = match[x]
  <2>1. CASE ConfirmCommit(t)
    <3>1. ConfirmOK(t) BY <2>1 DEF ConfirmCommit, Sound, RequestOK
    <3>2. match \in [Matches -> Match] BY DEF Sound, Typed
    <3> QED BY <2>1, <3>1, <3>2 DEF ConfirmCommit, ConfirmOK, Match
  <2> QED BY <2>1, MatchWrites
<1>2. ASSUME NEW x \in Matches PROVE MatchOK(x)'
  BY <1>1 DEF Results, MatchOK
<1>3. \A x \in Matches : match[x].outcome \in Outcomes => match'[x] = match[x]
  BY <1>1 DEF Results, MatchOK
<1>4. ASSUME NEW o \in Workers, pc'[o] \in SettlePCs \ {"settle_next"}
      PROVE  match'[bet'[req'[o].bet].match_id].outcome = req'[o].outcome
  <2>1. CASE o = t
    <3>1. pc'[t] \in SettlePCs \ {"settle_next"} BY <1>4, <2>1
    <3> QED BY <2>1, <3>1, SettlesOn DEF Results, OutcomeKnown
  <2>2. CASE o # t
    <3>1. pc[o] \in SettlePCs \ {"settle_next"} /\ req'[o] = req[o]
      BY <1>4, <2>2 DEF Guarantees, SessionsKept
    <3>2. SettleOK(o) BY <3>1 DEF Sound, RequestOK
    <3>3. bet'[req[o].bet].match_id = bet[req[o].bet].match_id
      BY <3>2 DEF SettleOK, Guarantees, RowsKept
    <3>4. bet[req[o].bet].match_id \in Matches
      BY <3>2 DEF SettleOK, Sound, RowOK
    <3>5. match[bet[req[o].bet].match_id].outcome = req[o].outcome
      BY <3>1 DEF Results, OutcomeKnown
    <3> QED BY <1>3, <3>1, <3>2, <3>3, <3>4, <3>5 DEF SettleOK
  <2> QED BY <2>1, <2>2
<1> QED BY <1>2, <1>4 DEF Results, OutcomeKnown

(* The empty database with the fixtures known is consistent. *)
LEMMA InitConsistent == Init => Consistent
<1> USE ConstantsAssumption DEF ConstantsAssumption
<1> SUFFICES ASSUME Init PROVE Consistent OBVIOUS
<1>1. match \in [Matches -> Match] BY DEF Init, InitMatches, Fixture, Match, MatchStatus, Null
<1>2. Sound BY <1>1, InitSound DEF Init
<1>3. TypeOK
  <2>1. pc \in [Workers -> PCs] BY DEF Init, InitRest, PCs
  <2> QED BY <1>2, <2>1 DEF Sound, Typed, TypeOK
<1>4. Results
  BY DEF Init, InitMatches, InitRest, Fixture, Results, MatchOK, OutcomeKnown, SettlePCs
<1>5. LocksTaken BY DEF Init, InitRest, LocksTaken, LocksOK
<1> QED BY <1>2, <1>3, <1>4, <1>5 DEF Consistent

(* Every step of the betting core preserves the invariant. *)
LEMMA NextConsistent == Consistent /\ [Next]_vars => Consistent'
<1> SUFFICES ASSUME Consistent, [Next]_vars PROVE Consistent' OBVIOUS
<1>1. ASSUME NEW t \in Workers, ServiceStep(t) \/ DeadlockAbort(t) \/ Crash(t)
      PROVE  Consistent'
  <2>1. Sound' /\ Guarantees(t) BY <1>1, StepSound DEF Consistent
  <2>2. pc' \in [Workers -> PCs] BY <1>1, LabelStep DEF Consistent, TypeOK, Goto
  <2>3. TypeOK' BY <2>1, <2>2 DEF Sound, Typed, TypeOK
  <2>4. Results' BY <1>1, <2>1, ResultsStep DEF Consistent
  <2>5. LocksTaken' BY <1>1, <2>1, StepLocks DEF Consistent
  <2> QED BY <2>1, <2>3, <2>4, <2>5 DEF Consistent
<1>2. CASE Tick \/ UNCHANGED vars
  <2>1. now' \in Nat /\ UNCHANGED <<rows, locks, work, crashes>>
    BY <1>2 DEF Tick, vars, Consistent, TypeOK
  <2>2. Sound' BY <2>1, IdleStep DEF Consistent
  <2>3. TypeOK' BY <2>1, <2>2 DEF Sound, Typed, TypeOK, Consistent, work
  <2>4. Results' BY <2>1 DEF Consistent, Results, MatchOK, OutcomeKnown, rows, work
  <2>5. LocksTaken'
    BY <2>1 DEF Consistent, LocksTaken, LocksOK, LockOrder, rows, locks, work
  <2> QED BY <2>2, <2>3, <2>4, <2>5 DEF Consistent
<1> QED BY <1>1, <1>2 DEF Next

(* Whatever requests run at the same time, crash or are chosen as deadlock *)
(* victims: every request still finds the rows it locked or decided on as  *)
(* the rest of its transaction assumes them.                               *)
THEOREM ConsistentAlways == Spec => []Consistent
BY InitConsistent, NextConsistent, PTL DEF Spec

(* Rows, locks and sessions keep their types; in particular no balance of  *)
(* a wallet and no settled amount ever becomes negative.                   *)
THEOREM TypeCorrect == Spec => []TypeOK
<1>1. Consistent => TypeOK BY DEF Consistent
<1> QED BY <1>1, ConsistentAlways, PTL

-----------------------------------------------------------------------------
(* Which requests can deadlock.  A settlement waits for its second wallet  *)
(* holding the lower one, so the wallets along a chain of settlements that *)
(* wait for each other ascend, and as there are finitely many the chain    *)
(* ends.  The platform row comes last, and two confirmations never meet on *)
(* a bet, since each holds its own match.                                  *)

(* A finite set of user ids has a highest one. *)
LEMMA Highest ==
  ASSUME NEW S \in SUBSET Users, S # {}
  PROVE  \E x \in S : \A y \in S : ~(x < y)
<1>1. Users \subseteq Nat /\ IsFiniteSet(Users)
  BY ConstantsAssumption DEF ConstantsAssumption
<1> DEFINE Above(x) == {u \in Users : x < u}
           T == {Cardinality(Above(x)) : x \in S}
<1>2. ASSUME NEW x \in S PROVE IsFiniteSet(Above(x)) /\ Cardinality(Above(x)) \in Nat
  <2>1. Above(x) \in SUBSET Users OBVIOUS
  <2> HIDE DEF Above
  <2> QED BY <1>1, <2>1, FS_Subset, FS_CardinalityType
<1>3. T \subseteq Nat /\ T # {} BY <1>2
<1>4. PICK n \in T : \A k \in T : ~(<<k, n>> \in OpToRel(<, Nat))
  <2> HIDE DEF T
  <2> QED BY <1>3, WFMin, NatLessThanWellFounded
<1>5. PICK x \in S : n = Cardinality(Above(x)) BY <1>4
<1>6. ASSUME NEW y \in S, x < y PROVE FALSE
  <2>1. Above(y) \in SUBSET Above(x)
    <3>1. x \in Nat /\ y \in Nat BY <1>1, <1>6
    <3>2. \A u \in Users : y < u => x < u BY <1>1, <1>6, <3>1
    <3> QED BY <3>2
  <2>2. y \in Above(x) /\ y \notin Above(y) BY <1>1, <1>6
  <2>3. Cardinality(Above(y)) <= Cardinality(Above(x))
        /\ Cardinality(Above(y)) # Cardinality(Above(x))
    <3>1. IsFiniteSet(Above(x)) BY <1>2
    <3> HIDE DEF Above
    <3> QED BY <2>1, <2>2, <3>1, FS_Subset
  <2>4. Cardinality(Above(y)) \in T /\ Cardinality(Above(y)) < n
    <3>1. Cardinality(Above(y)) \in T BY <1>6
    <3>2. Cardinality(Above(x)) \in Nat /\ Cardinality(Above(y)) \in Nat BY <1>2, <1>6
    <3> HIDE DEF Above, T
    <3> QED BY <1>5, <2>3, <3>1, <3>2
  <2>5. <<Cardinality(Above(y)), n>> \in OpToRel(<, Nat)
    BY <1>3, <2>4 DEF OpToRel
  <2> QED BY <1>4, <2>4, <2>5
<1> QED BY <1>6

(* Worker t holds its lower wallet and waits for the higher one. *)
Climbs(t) == pc[t] = "settle_wallet2"
Lower(t)  == LockOrder(req[t].bet)[1]
Higher(t) == LockOrder(req[t].bet)[2]

(* The wallets of a settlement are two, in ascending order. *)
LEMMA Ascends ==
  ASSUME Sound, NEW t \in Workers, pc[t] \in SettlePCs \ {"settle_next"}
  PROVE  Lower(t) \in Users /\ Higher(t) \in Users /\ Lower(t) < Higher(t)
<1> DEFINE b == req[t].bet
<1>1. SettleOK(t) BY DEF Sound, RequestOK
<1>2. /\ b \in Bets /\ bet[b].creator_id \in Users /\ bet[b].opponent_id \in Users
      /\ bet[b].creator_id # bet[b].opponent_id
  <2>1. b \in Bets /\ bet[b].status # "none" /\ bet[b].opponent_id # NoOne
    BY <1>1 DEF SettleOK
  <2>2. bet[b] \in Bet /\ RowOK(b) BY <2>1 DEF Sound, Typed
  <2> QED BY <2>1, <2>2 DEF RowOK, Bet, Null
<1>3. Users \subseteq Nat BY ConstantsAssumption DEF ConstantsAssumption
<1>4. PICK c, d : c = bet[b].creator_id /\ d = bet[b].opponent_id OBVIOUS
<1>5. c \in Nat /\ d \in Nat /\ c # d BY <1>2, <1>3, <1>4
<1>6. CASE c < d
  <2>1. LockOrder(b) = <<c, d>> BY <1>4, <1>6 DEF LockOrder
  <2> QED BY <1>2, <1>4, <1>6, <2>1 DEF Lower, Higher
<1>7. CASE ~(c < d)
  <2>1. LockOrder(b) = <<d, c>> BY <1>4, <1>7 DEF LockOrder
  <2>2. d < c BY <1>5, <1>7
  <2> QED BY <1>2, <1>4, <2>1, <2>2 DEF Lower, Higher
<1> QED BY <1>6, <1>7

(* Settlements do not wait for each other in a circle. *)
LEMMA NoCircle ==
  ASSUME Sound, NEW W \in SUBSET Workers, W # {},
         \A t \in W : Climbs(t) /\ \E o \in W : Lower(o) = Higher(t)
  PROVE  FALSE
<1> DEFINE S == {Higher(t) : t \in W}
<1>1. \A t \in W : Higher(t) \in Users /\ Lower(t) < Higher(t)
  BY Ascends DEF Climbs, SettlePCs
<1>2. S \in SUBSET Users /\ S # {} BY <1>1
<1>3. PICK x \in S : \A y \in S : ~(x < y) BY <1>2, Highest
<1>4. PICK t \in W : x = Higher(t) OBVIOUS
<1>5. PICK o \in W : Lower(o) = Higher(t) OBVIOUS
<1>6. Higher(o) \in S /\ x < Higher(o) BY <1>1, <1>4, <1>5
<1> QED BY <1>3, <1>6

(* Confirmations do not wait for each other, nor for themselves. *)
LEMMA ConfirmersApart ==
  ASSUME Sound, LocksTaken, NEW t \in Workers, NEW o \in Workers,
         pc[t] = "confirm_rows", pc[o] = "confirm_rows", NEW b \in req[t].todo
  PROVE  betLock[b] # o
<1> SUFFICES ASSUME betLock[b] = o PROVE FALSE OBVIOUS
<1>1. ConfirmOK(t) /\ ConfirmOK(o) BY DEF Sound, RequestOK
<1>2. b \in Bets BY DEF Sound, Typed, Request
<1>3. bet[b].match_id = req[o].match /\ b \notin req[o].todo
  BY <1>2 DEF LocksTaken, LocksOK, PCs
<1>4. bet[b].match_id = req[t].match BY <1>1 DEF ConfirmOK
<1>5. matchLock[req[t].match] = t /\ matchLock[req[o].match] = o BY <1>1 DEF ConfirmOK
<1> QED BY <1>3, <1>4, <1>5

(* The requests that take two rows in an order of their own. *)
VoidOrCancel == {"void_creator", "void_opponent", "cancel_wallet", "cancel_bet"}

(* The wallet a betting request waits for is one of the wallets. *)
LEMMA WantedWallet ==
  ASSUME Sound, NEW t \in Workers
  PROVE  /\ pc[t] \in {"create_wallet", "accept_wallet"} => req[t].user \in Users
         /\ pc[t] \in {"settle_wallet1", "settle_wallet2"} => SettleUser(t) \in Users
<1>1. pc[t] \in {"create_wallet", "accept_wallet"} => req[t].user \in Users
  BY DEF Sound, RequestOK, CreateOK, AcceptOK
<1>2. ASSUME pc[t] \in {"settle_wallet1", "settle_wallet2"} PROVE SettleUser(t) \in Users
  BY <1>2, Ascends DEF SettlePCs, SettleUser, Lower, Higher
<1> QED BY <1>1, <1>2

(* A waits-for cycle of betting requests has a void or a cancellation. *)
LEMMA NoCycle ==
  ASSUME Sound, LocksTaken, pc \in [Workers -> PCs],
         NEW D \in SUBSET Workers, Deadlocked(D), \A t \in D : pc[t] \notin VoidOrCancel
  PROVE  FALSE
<1>1. \A t \in D : LocksOK(t) /\ pc[t] \in PCs BY DEF LocksTaken
<1>2. ASSUME NEW t \in D
      PROVE  pc[t] \in {"create_wallet", "accept_wallet", "confirm_rows",
                        "settle_wallet1", "settle_wallet2"}
  <2>1. PICK o \in D : WaitsFor(t, o) BY DEF Deadlocked
  <2>2. pc[t] # "settle_check"
    <3> SUFFICES ASSUME pc[t] = "settle_check" PROVE FALSE OBVIOUS
    <3>1. platformLock = o BY <2>1 DEF WaitsFor
    <3>2. pc[o] = "settle_commit" BY <1>1, <3>1 DEF LocksOK
    <3>3. PICK p \in D : WaitsFor(o, p) BY DEF Deadlocked
    <3> QED BY <3>2, <3>3 DEF WaitsFor
  <2> QED BY <2>1, <2>2 DEF WaitsFor, VoidOrCancel
<1>3. ASSUME NEW o \in D, NEW u \in Users, walletLock[u] = o
      PROVE  Climbs(o) /\ Lower(o) = u
  <2>1. pc[o] \in WalletHolders /\ (pc[o] = "settle_wallet2" => u = LockOrder(req[o].bet)[1])
    BY <1>1, <1>3 DEF LocksOK
  <2>2. pc[o] = "settle_wallet2" BY <1>2, <2>1 DEF WalletHolders
  <2> QED BY <2>1, <2>2 DEF Climbs, Lower
<1>4. ASSUME NEW t \in D, pc[t] # "confirm_rows" PROVE \E o \in D : Climbs(o)
  <2>1. PICK o \in D : WaitsFor(t, o) BY DEF Deadlocked
  <2>2. CASE pc[t] \in {"create_wallet", "accept_wallet"}
    <3>1. walletLock[req[t].user] = o BY <2>1, <2>2 DEF WaitsFor
    <3> QED BY <1>3, <2>2, <3>1, WantedWallet
  <2>3. CASE pc[t] \in {"settle_wallet1", "settle_wallet2"}
    <3>1. walletLock[SettleUser(t)] = o BY <2>1, <2>3 DEF WaitsFor
    <3> QED BY <1>3, <2>3, <3>1, WantedWallet
  <2> QED BY <1>2, <1>4, <2>2, <2>3
<1>5. ASSUME NEW t \in D, pc[t] = "confirm_rows"
      PROVE  \E o \in D : pc[o] # "confirm_rows"
  <2>1. PICK o \in D : WaitsFor(t, o) BY DEF Deadlocked
  <2>2. PICK b \in req[t].todo : betLock[b] = o BY <1>5, <2>1 DEF WaitsFor
  <2> QED BY <1>5, <2>2, ConfirmersApart
<1>6. \E o \in D : Climbs(o) BY <1>4, <1>5 DEF Deadlocked
<1> DEFINE W == {t \in D : Climbs(t)}
<1>7. ASSUME NEW t \in W PROVE \E o \in W : Lower(o) = Higher(t)
  <2>1. pc[t] = "settle_wallet2" /\ t \in D BY DEF Climbs
  <2>2. PICK o \in D : WaitsFor(t, o) BY DEF Deadlocked
  <2>3. SettleUser(t) = Higher(t) BY <2>1 DEF SettleUser, Higher
  <2>4. walletLock[Higher(t)] = o BY <2>1, <2>2, <2>3 DEF WaitsFor
  <2>5. Higher(t) \in Users BY <2>1, Ascends DEF SettlePCs
  <2> QED BY <1>3, <2>4, <2>5
<1> HIDE DEF W
<1>8. W \in SUBSET Workers /\ W # {} /\ \A t \in W : Climbs(t) BY <1>6 DEF W
<1> QED BY <1>7, <1>8, NoCircle

(* For any number of users, bets and requests in flight: settlements,      *)
(* confirmations, creations and acceptances never wait for each other in a *)
(* cycle; every deadlock needs a void_bet or a cancel_bet.                 *)
THEOREM DeadlocksNeedVoidOrCancel == Spec => []DeadlockNeedsVoidOrCancel
<1>1. Consistent => DeadlockNeedsVoidOrCancel
  BY NoCycle DEF Consistent, TypeOK, DeadlockNeedsVoidOrCancel, VoidOrCancel
<1> QED BY <1>1, ConsistentAlways, PTL
=============================================================================
