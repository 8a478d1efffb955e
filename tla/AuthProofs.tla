----------------------------- MODULE AuthProofs -----------------------------
(***************************************************************************)
(* The login throttle holds its bound for any number of requests, accounts *)
(* and addresses and any limit.  Recent(e) counts the failures inside the  *)
(* window and LetIn(e) the logins that may still add one: a login enters   *)
(* only below the limit, and a failure trades the one for the other.       *)
(***************************************************************************)
EXTENDS Auth, FiniteSetTheorems, TLAPS

(* An empty table, an empty tracker and idle requests are typed. *)
LEMMA InitAuthTypes == AuthInit => AuthTypeOK
<1> USE AuthAssumption DEF AuthAssumption
<1> SUFFICES ASSUME AuthInit PROVE AuthTypeOK OBVIOUS
<1>1. NoUser \in User /\ NoRequest \in Request BY DEF NoUser, User, NoRequest, Request, Null
<1>2. NoFailures \in [Slots -> 0..Window] BY DEF NoFailures
<1> QED BY <1>1, <1>2 DEF AuthInit, AuthTypeOK, AuthPCs

(* The sets that are counted are finite. *)
LEMMA SlotsFinite == Slots \subseteq Nat /\ IsFiniteSet(Slots) /\ IsFiniteSet(Workers)
                     /\ Cardinality(Workers) \in Nat
<1>1. IsFiniteSet(Workers) /\ Cardinality(Workers) \in Nat
  BY AuthAssumption, FS_CardinalityType DEF AuthAssumption
<1>2. MAX_ATTEMPTS + Cardinality(Workers) \in Int BY <1>1, AuthAssumption DEF AuthAssumption
<1> QED BY <1>1, <1>2, FS_Interval DEF Slots

(* The two counts of an address. *)
LEMMA Counts ==
  ASSUME NEW e
  PROVE  /\ IsFiniteSet(Recent(e)) /\ Cardinality(Recent(e)) \in Nat
         /\ IsFiniteSet(LetIn(e)) /\ Cardinality(LetIn(e)) \in Nat
         /\ Cardinality(LetIn(e)) <= Cardinality(Workers)
<1>1. Recent(e) \subseteq Slots /\ LetIn(e) \subseteq Workers BY DEF Recent, LetIn
<1> QED BY <1>1, SlotsFinite, FS_Subset, FS_CardinalityType

(* Every step keeps the types. *)
LEMMA TypesKept == AuthTypeOK /\ [AuthNext]_authVars => AuthTypeOK'
<1> USE AuthAssumption DEF AuthAssumption
<1> SUFFICES ASSUME AuthTypeOK, [AuthNext]_authVars PROVE AuthTypeOK' OBVIOUS
<1>1. NoRequest \in Request /\ "idle" \in AuthPCs BY DEF NoRequest, Request, Null, AuthPCs
<1>2. ASSUME NEW t \in Workers, Finish(t)
      PROVE  pc' \in [Workers -> AuthPCs] /\ req' \in [Workers -> Request]
  BY <1>1, <1>2 DEF AuthTypeOK, Finish, Goto
<1>3. ASSUME NEW t \in Workers, NEW s \in Spellings, NEW p \in Passwords,
             RegisterCheck(t, s, p) \/ LoginCheck(t, s, p)
      PROVE  AuthTypeOK'
  <2>1. [NoRequest EXCEPT !.email = normalised[s], !.password = p] \in Request
    BY DEF NoRequest, Request, Null, Addresses
  <2> QED BY <1>3, <2>1 DEF RegisterCheck, LoginCheck, AuthTypeOK, Goto, AuthPCs
<1>4. ASSUME NEW t \in Workers, NEW a \in Accounts, NEW p \in Passwords, ResetCheck(t, a, p)
      PROVE  AuthTypeOK'
  <2>1. [NoRequest EXCEPT !.account = a, !.password = p] \in Request
    BY DEF NoRequest, Request, Null
  <2> QED BY <1>4, <2>1 DEF ResetCheck, AuthTypeOK, Goto, AuthPCs
<1>5. ASSUME NEW t \in Workers, NEW a \in Accounts, RegisterInsert(t, a) PROVE AuthTypeOK'
  BY <1>5 DEF RegisterInsert, AuthTypeOK, Goto, AuthPCs, Request, Null
<1>6. ASSUME NEW t \in Workers, RegisterDuplicate(t) \/ Crash(t) PROVE AuthTypeOK'
  BY <1>2, <1>6 DEF RegisterDuplicate, Crash, AuthTypeOK
<1>7. ASSUME NEW t \in Workers, RegisterCommit(t) PROVE AuthTypeOK'
  <2>1. [email |-> req[t].email, password |-> req[t].password, wallet |-> TRUE] \in User
    BY DEF AuthTypeOK, Request, User
  <2> QED BY <1>2, <1>7, <2>1 DEF RegisterCommit, AuthTypeOK
<1>8. ASSUME NEW t \in Workers, LoginRead(t) PROVE AuthTypeOK'
  <2>1. ASSUME NEW a \in Accounts
        PROVE  [req[t] EXCEPT !.read = account[a].password] \in Request
    BY DEF AuthTypeOK, Request, User
  <2>2. req' \in [Workers -> Request] BY <1>8, <2>1 DEF LoginRead, AuthTypeOK
  <2> QED BY <1>8, <2>2 DEF LoginRead, AuthTypeOK, Goto, AuthPCs
<1>9. ASSUME NEW t \in Workers, LoginFail(t) PROVE AuthTypeOK'
  <2>1. failures' \in [Spellings -> [Slots -> 0..Window]]
    <3>1. PICK e, i : e = req[t].email /\ i = FreeSlot(req[t].email) OBVIOUS
    <3>2. failures' = [failures EXCEPT ![e][i] = 0]
      BY <1>9, <3>1 DEF LoginFail, record_failure
    <3>3. ASSUME e \in Spellings PROVE [failures[e] EXCEPT ![i] = 0] \in [Slots -> 0..Window]
      <4>1. failures[e] \in [Slots -> 0..Window] BY <3>3 DEF AuthTypeOK
      <4>2. 0 \in 0..Window OBVIOUS
      <4> QED BY <4>1, <4>2
    <3>4. failures' = [failures EXCEPT ![e] = [failures[e] EXCEPT ![i] = 0]] BY <3>2
    <3> QED BY <3>3, <3>4 DEF AuthTypeOK
  <2> QED BY <1>2, <1>9, <2>1 DEF LoginFail, AuthTypeOK
<1>10. ASSUME NEW t \in Workers, LoginSucceed(t) PROVE AuthTypeOK'
  <2>1. NoFailures \in [Slots -> 0..Window] BY DEF NoFailures
  <2>2. failures' \in [Spellings -> [Slots -> 0..Window]]
    BY <1>10, <2>1 DEF LoginSucceed, clear, AuthTypeOK
  <2> QED BY <1>2, <1>10, <2>2 DEF LoginSucceed, AuthTypeOK
<1>11. ASSUME NEW s \in Spellings, ForgotPassword(s) PROVE AuthTypeOK'
  BY <1>11 DEF ForgotPassword, AuthTypeOK
<1>12. ASSUME NEW t \in Workers, ResetCommit(t) PROVE AuthTypeOK'
  <2>1. account' \in [Accounts -> User]
    <3>1. PICK a : a = req[t].account OBVIOUS
    <3>2. a \in Accounts => [account[a] EXCEPT !.password = req[t].password] \in User
      BY DEF AuthTypeOK, Request, User
    <3>3. account' = [account EXCEPT ![a] = [account[a] EXCEPT !.password = req[t].password]]
      BY <1>12, <3>1 DEF ResetCommit
    <3> QED BY <3>2, <3>3 DEF AuthTypeOK
  <2> QED BY <1>2, <1>12, <2>1 DEF ResetCommit, AuthTypeOK
<1>13. CASE Tick BY <1>13 DEF Tick, Older, AuthTypeOK
<1>14. CASE Restart
  <2>1. NoFailures \in [Slots -> 0..Window] BY DEF NoFailures
  <2> QED BY <1>1, <1>14, <2>1 DEF Restart, AuthTypeOK
<1>15. CASE UNCHANGED authVars BY <1>15 DEF authVars, AuthTypeOK
<1> QED BY <1>3, <1>4, <1>5, <1>6, <1>7, <1>8, <1>9, <1>10, <1>11, <1>12, <1>13, <1>14, <1>15
        DEF AuthNext, Begin, Continue

-----------------------------------------------------------------------------
(* Fewer failures in the window and fewer logins let in add up to less. *)
LEMMA Shrinks ==
  ASSUME NEW e, NEW R, NEW I, R \subseteq Recent(e), I \subseteq LetIn(e)
  PROVE  /\ Cardinality(R) \in Nat /\ Cardinality(I) \in Nat
         /\ Cardinality(R) + Cardinality(I) <= Cardinality(Recent(e)) + Cardinality(LetIn(e))
<1>1. /\ IsFiniteSet(R) /\ Cardinality(R) <= Cardinality(Recent(e))
      /\ IsFiniteSet(I) /\ Cardinality(I) <= Cardinality(LetIn(e))
  BY Counts, FS_Subset
<1>2. Cardinality(R) \in Nat /\ Cardinality(I) \in Nat BY <1>1, FS_CardinalityType
<1> QED BY <1>1, <1>2, Counts

(* The bound itself, of one address. *)
Bounded(e) ==
  Cardinality(Recent(e)) + Cardinality(LetIn(e)) <= MAX_ATTEMPTS - 1 + Cardinality(Workers)

(* Hence such a step keeps it. *)
LEMMA ShrinkKeeps ==
  ASSUME NEW e, Bounded(e), Recent(e)' \subseteq Recent(e), LetIn(e)' \subseteq LetIn(e)
  PROVE  Bounded(e)'
<1>1. PICK R, I : R = Recent(e)' /\ I = LetIn(e)' OBVIOUS
<1>2. /\ Cardinality(R) \in Nat /\ Cardinality(I) \in Nat
      /\ Cardinality(R) + Cardinality(I) <= Cardinality(Recent(e)) + Cardinality(LetIn(e))
  BY <1>1, Shrinks
<1>3. Cardinality(R) + Cardinality(I) <= MAX_ATTEMPTS - 1 + Cardinality(Workers)
  BY <1>2, Counts, SlotsFinite, AuthAssumption DEF Bounded, AuthAssumption
<1> QED BY <1>1, <1>3 DEF Bounded

(* is_locked let the login in: the failures are below the limit, and there *)
(* are no more logins in flight than requests.                             *)
LEMMA CheckedLoginBounded ==
  ASSUME AuthTypeOK, NEW e \in Spellings, Bounded(e),
         NEW t \in Workers, NEW s \in Spellings, NEW p \in Passwords, LoginCheck(t, s, p)
  PROVE  Bounded(e)'
<1>1. failures' = failures BY DEF LoginCheck
<1>2. Recent(e)' = Recent(e) BY <1>1 DEF Recent
<1>3. CASE e = normalised[s]
  <2>1. ~(Cardinality(Recent(e)) >= MAX_ATTEMPTS) BY <1>3 DEF LoginCheck, is_locked
  <2>2. PICK I : I = LetIn(e)' OBVIOUS
  <2>3. Cardinality(I) \in Nat /\ Cardinality(I) <= Cardinality(Workers)
    <3>1. I \subseteq Workers BY <2>2 DEF LetIn
    <3> QED BY <3>1, SlotsFinite, FS_Subset, FS_CardinalityType
  <2>4. Cardinality(Recent(e)) + Cardinality(I) <= MAX_ATTEMPTS - 1 + Cardinality(Workers)
    BY <2>1, <2>3, Counts, SlotsFinite, AuthAssumption DEF AuthAssumption
  <2> QED BY <1>2, <2>2, <2>4 DEF Bounded
<1>4. CASE e # normalised[s]
  <2>1. /\ pc' = [pc EXCEPT ![t] = "login_read"] /\ pc[t] = "idle"
        /\ req' = [req EXCEPT ![t] = [NoRequest EXCEPT !.email = normalised[s], !.password = p]]
    BY DEF LoginCheck, Goto
  <2>2. [NoRequest EXCEPT !.email = normalised[s], !.password = p].email = normalised[s]
    BY DEF NoRequest
  <2>3. LetIn(e)' \subseteq LetIn(e) BY <1>4, <2>1, <2>2 DEF LetIn, AuthTypeOK
  <2> QED BY <1>2, <2>3, ShrinkKeeps
<1> QED BY <1>3, <1>4

(* A failure is recorded by a login that was let in and now is over. *)
LEMMA FailureBounded ==
  ASSUME AuthTypeOK, NEW e \in Spellings, Bounded(e), NEW t \in Workers, LoginFail(t)
  PROVE  Bounded(e)'
<1>1. /\ pc[t] = "login_verify"
      /\ failures' = [failures EXCEPT ![req[t].email][FreeSlot(req[t].email)] = 0]
      /\ pc' = [pc EXCEPT ![t] = "idle"] /\ req' = [req EXCEPT ![t] = NoRequest]
  BY DEF LoginFail, record_failure, Finish, Goto
<1>2. LetIn(e)' = LetIn(e) \ {t} BY <1>1 DEF LetIn, AuthTypeOK
<1>3. CASE e # req[t].email
  <2>1. failures'[e] = failures[e] BY <1>1, <1>3 DEF AuthTypeOK
  <2>2. Recent(e)' = Recent(e) BY <2>1 DEF Recent
  <2> QED BY <1>2, <2>2, ShrinkKeeps
<1>4. CASE e = req[t].email
  <2>1. PICK i : i = FreeSlot(e) OBVIOUS
  <2>2. failures' = [failures EXCEPT ![e][i] = 0] BY <1>1, <1>4, <2>1
  <2>3. PICK R, I : R = Recent(e)' /\ I = LetIn(e)' OBVIOUS
  <2>4. R \subseteq Recent(e) \cup {i} BY <2>2, <2>3 DEF Recent, AuthTypeOK
  <2>5. /\ IsFiniteSet(R) /\ Cardinality(R) \in Nat
        /\ Cardinality(R) <= Cardinality(Recent(e)) + 1
    <3>1. /\ IsFiniteSet(Recent(e) \cup {i})
          /\ Cardinality(Recent(e) \cup {i}) <= Cardinality(Recent(e)) + 1
      <4>1. IsFiniteSet(Recent(e)) /\ Cardinality(Recent(e)) \in Nat BY Counts
      <4>2. /\ IsFiniteSet(Recent(e) \cup {i})
            /\ \/ Cardinality(Recent(e) \cup {i}) = Cardinality(Recent(e))
               \/ Cardinality(Recent(e) \cup {i}) = Cardinality(Recent(e)) + 1
        BY <4>1, FS_AddElement
      <4> QED BY <4>1, <4>2
    <3>2. IsFiniteSet(R) /\ Cardinality(R) <= Cardinality(Recent(e) \cup {i})
      BY <2>4, <3>1, FS_Subset
    <3>3. Cardinality(R) \in Nat /\ Cardinality(Recent(e) \cup {i}) \in Nat
      BY <3>1, <3>2, FS_CardinalityType
    <3> QED BY <3>1, <3>2, <3>3, Counts
  <2>6. Cardinality(I) = Cardinality(LetIn(e)) - 1
    <3>1. t \in LetIn(e) BY <1>1, <1>4 DEF LetIn
    <3> QED BY <1>2, <2>3, <3>1, Counts, FS_RemoveElement
  <2>7. Cardinality(R) + Cardinality(I) <= MAX_ATTEMPTS - 1 + Cardinality(Workers)
    BY <2>5, <2>6, Counts, SlotsFinite, AuthAssumption DEF AuthAssumption, Bounded
  <2> QED BY <2>3, <2>7 DEF Bounded
<1> QED BY <1>3, <1>4

(* Every other step leaves the addresses' counts or lowers them. *)
LEMMA OthersShrink ==
  ASSUME AuthTypeOK, NEW e \in Spellings,
         [AuthNext]_authVars,
         \A t \in Workers, s \in Spellings, p \in Passwords : ~LoginCheck(t, s, p),
         \A t \in Workers : ~LoginFail(t)
  PROVE  Recent(e)' \subseteq Recent(e) /\ LetIn(e)' \subseteq LetIn(e)
<1> USE AuthAssumption DEF AuthAssumption
<1>1. ASSUME failures' = failures PROVE Recent(e)' \subseteq Recent(e) BY <1>1 DEF Recent
<1>2. ASSUME NEW t \in Workers, Finish(t) PROVE LetIn(e)' \subseteq LetIn(e)
  BY <1>2 DEF Finish, Goto, LetIn, AuthTypeOK
<1>3. ASSUME NEW t \in Workers, NEW l, l \notin {"login_read", "login_verify"}, Goto(t, l),
             \A o \in Workers \ {t} : req'[o] = req[o]
      PROVE  LetIn(e)' \subseteq LetIn(e)
  BY <1>3 DEF Goto, LetIn, AuthTypeOK
<1>4. ASSUME NEW t \in Workers, Begin(t)
      PROVE  Recent(e)' \subseteq Recent(e) /\ LetIn(e)' \subseteq LetIn(e)
  <2>1. \E p \in Passwords : \/ \E s \in Spellings : RegisterCheck(t, s, p)
                             \/ \E a \in Accounts : ResetCheck(t, a, p)
    BY <1>4 DEF Begin
  <2>2. failures' = failures /\ (Goto(t, "register_insert") \/ Goto(t, "reset_commit"))
        /\ \A o \in Workers \ {t} : req'[o] = req[o]
    BY <2>1 DEF RegisterCheck, ResetCheck, AuthTypeOK
  <2> QED BY <1>1, <1>3, <2>2
<1>5. ASSUME NEW t \in Workers, LoginRead(t)
      PROVE  Recent(e)' \subseteq Recent(e) /\ LetIn(e)' \subseteq LetIn(e)
  <2>1. /\ failures' = failures /\ pc[t] = "login_read"
        /\ \A o \in Workers \ {t} : req'[o] = req[o] /\ pc'[o] = pc[o]
    BY <1>5 DEF LoginRead, Goto, AuthTypeOK
  <2>2. req'[t].email = req[t].email BY <1>5 DEF LoginRead, AuthTypeOK, Request
  <2> QED BY <1>1, <2>1, <2>2 DEF LetIn
<1>6. ASSUME NEW t \in Workers, NEW a \in Accounts, RegisterInsert(t, a)
      PROVE  Recent(e)' \subseteq Recent(e) /\ LetIn(e)' \subseteq LetIn(e)
  <2>1. failures' = failures /\ Goto(t, "register_commit")
        /\ \A o \in Workers \ {t} : req'[o] = req[o]
    BY <1>6 DEF RegisterInsert, AuthTypeOK
  <2> QED BY <1>1, <1>3, <2>1
<1>7. ASSUME NEW t \in Workers,
             RegisterDuplicate(t) \/ RegisterCommit(t) \/ ResetCommit(t) \/ Crash(t)
      PROVE  Recent(e)' \subseteq Recent(e) /\ LetIn(e)' \subseteq LetIn(e)
  BY <1>1, <1>2, <1>7 DEF RegisterDuplicate, RegisterCommit, ResetCommit, Crash
<1>8. ASSUME NEW t \in Workers, LoginSucceed(t)
      PROVE  Recent(e)' \subseteq Recent(e) /\ LetIn(e)' \subseteq LetIn(e)
  <2>1. failures' = [failures EXCEPT ![req[t].email] = NoFailures] /\ Finish(t)
    BY <1>8 DEF LoginSucceed, clear
  <2>2. failures'[e] = failures[e] \/ failures'[e] = NoFailures BY <2>1 DEF AuthTypeOK
  <2>3. Recent(e)' \subseteq Recent(e) BY <2>2 DEF Recent, NoFailures
  <2> QED BY <1>2, <2>1, <2>3
<1>9. CASE Tick
  <2>1. /\ pc' = pc /\ req' = req
        /\ failures'[e] = [i \in Slots |-> Older(failures[e][i], Window)]
    BY <1>9 DEF Tick
  <2>2. \A i \in Slots : failures[e][i] \in 0..Window BY DEF AuthTypeOK
  <2>3. Recent(e)' \subseteq Recent(e) BY <2>1, <2>2 DEF Recent, Older
  <2> QED BY <2>1, <2>3 DEF LetIn
<1>10. CASE Restart
  <2>1. failures'[e] = NoFailures /\ \A t \in Workers : pc'[t] = "idle" BY <1>10 DEF Restart
  <2> QED BY <2>1 DEF Recent, LetIn, NoFailures
<1>11. ASSUME NEW s \in Spellings, ForgotPassword(s)
       PROVE  Recent(e)' \subseteq Recent(e) /\ LetIn(e)' \subseteq LetIn(e)
  BY <1>1, <1>11 DEF ForgotPassword, LetIn
<1>12. CASE UNCHANGED authVars BY <1>1, <1>12 DEF authVars, LetIn
<1> QED BY <1>4, <1>5, <1>6, <1>7, <1>8, <1>9, <1>10, <1>11, <1>12 DEF AuthNext, Continue

(* The rows, the tracker and the requests keep their types. *)
THEOREM AuthTypeCorrect == AuthSpec => []AuthTypeOK
BY InitAuthTypes, TypesKept, PTL DEF AuthSpec

(* However many logins race is_locked against record_failure, the failures *)
(* an address has in the window stay below the limit plus the number of    *)
(* requests that can be in flight.                                         *)
THEOREM ThrottleHolds == AuthSpec => []ThrottleBound
<1>1. AuthInit => ThrottleBound
  <2> SUFFICES ASSUME AuthInit, NEW e \in Spellings PROVE Bounded(e)
    BY DEF ThrottleBound, Bounded
  <2>1. Recent(e) = {} BY AuthAssumption DEF AuthInit, Recent, NoFailures, AuthAssumption
  <2>2. LetIn(e) = {} BY DEF AuthInit, LetIn
  <2> QED BY <2>1, <2>2, FS_EmptySet, SlotsFinite, AuthAssumption DEF Bounded, AuthAssumption
<1>2. AuthTypeOK /\ ThrottleBound /\ [AuthNext]_authVars => ThrottleBound'
  <2> SUFFICES ASSUME AuthTypeOK, ThrottleBound, [AuthNext]_authVars, NEW e \in Spellings
               PROVE  Bounded(e)'
    BY DEF ThrottleBound, Bounded
  <2>1. Bounded(e) BY DEF ThrottleBound, Bounded
  <2>2. CASE \E t \in Workers, s \in Spellings, p \in Passwords : LoginCheck(t, s, p)
    BY <2>1, <2>2, CheckedLoginBounded
  <2>3. CASE \E t \in Workers : LoginFail(t) BY <2>1, <2>3, FailureBounded
  <2>4. CASE /\ \A t \in Workers, s \in Spellings, p \in Passwords : ~LoginCheck(t, s, p)
             /\ \A t \in Workers : ~LoginFail(t)
    BY <2>1, <2>4, OthersShrink, ShrinkKeeps
  <2> QED BY <2>2, <2>3, <2>4
<1> QED BY <1>1, <1>2, AuthTypeCorrect, PTL DEF AuthSpec

-----------------------------------------------------------------------------
(* Why racing registrations cannot share an address: a request that has    *)
(* inserted one keeps every other out until it commits, and a reset only   *)
(* ever writes to an account that exists.                                  *)
Address(e) == e \in Spellings /\ normalised[e] = e

RequestSound(t) ==
  /\ pc[t] = "register_insert" => Address(req[t].email)
  /\ pc[t] = "register_commit" =>
       /\ Address(req[t].email) /\ ~Registered(req[t].email)
       /\ req[t].account \in Accounts /\ account[req[t].account] = NoUser
  /\ pc[t] = "reset_commit" =>
       req[t].account \in Accounts /\ account[req[t].account] # NoUser

RegistrationSound ==
  /\ OneAccountPerEmail
  /\ \A a \in Accounts : account[a] # NoUser => account[a].email # NoOne
  /\ \A a \in Accounts : resetAge[a] < ResetLifetime => account[a] # NoUser
  /\ \A t \in Workers : RequestSound(t)
  /\ \A t, o \in Workers :
       t # o /\ pc[t] = "register_commit" /\ pc[o] = "register_commit"
         => req[t].email # req[o].email /\ req[t].account # req[o].account

(* No account is written, and no request but t, which is sound, moves. *)
LEMMA RowsKeepSound ==
  ASSUME AuthTypeOK, RegistrationSound, account' = account,
         \A a \in Accounts : resetAge'[a] < ResetLifetime => account[a] # NoUser,
         NEW t, \A o \in Workers \ {t} : pc'[o] = pc[o] /\ req'[o] = req[o],
         t \in Workers => RequestSound(t)',
         pc'[t] # "register_commit"
  PROVE  RegistrationSound'
<1>1. OneAccountPerEmail' BY DEF RegistrationSound, OneAccountPerEmail
<1>2. ASSUME NEW o \in Workers PROVE RequestSound(o)'
  <2>1. CASE o = t BY <2>1
  <2>2. CASE o # t BY <2>2 DEF RegistrationSound, RequestSound, Registered
  <2> QED BY <2>1, <2>2
<1>3. ASSUME NEW o \in Workers, pc'[o] = "register_commit"
      PROVE  o # t /\ pc[o] = "register_commit" /\ req'[o] = req[o]
  BY <1>3
<1>4. \A o, q \in Workers :
        o # q /\ pc'[o] = "register_commit" /\ pc'[q] = "register_commit"
          => req'[o].email # req'[q].email /\ req'[o].account # req'[q].account
  BY <1>3 DEF RegistrationSound
<1>5. /\ \A a \in Accounts : account[a] # NoUser => account[a].email # NoOne
  BY DEF RegistrationSound
<1> QED BY <1>1, <1>2, <1>4, <1>5 DEF RegistrationSound

(* The address is free, and nobody else is inserting it. *)
LEMMA InsertKeepsSound ==
  ASSUME AuthTypeOK, RegistrationSound, NEW t \in Workers, NEW a \in Accounts,
         RegisterInsert(t, a)
  PROVE  RegistrationSound'
<1>1. /\ pc[t] = "register_insert" /\ account[a] = NoUser
      /\ pc' = [pc EXCEPT ![t] = "register_commit"] /\ req' = [req EXCEPT ![t].account = a]
      /\ account' = account /\ resetAge' = resetAge /\ ~Registered(req[t].email)
      /\ \A o \in Workers : pc[o] = "register_commit" =>
           req[o].account # a /\ req[o].email # req[t].email
  BY DEF RegisterInsert, FreshAccount, Inserting, Goto
<1>2. /\ pc'[t] = "register_commit" /\ req'[t].email = req[t].email /\ req'[t].account = a
      /\ \A o \in Workers \ {t} : pc'[o] = pc[o] /\ req'[o] = req[o]
  BY <1>1 DEF AuthTypeOK, Request
<1>3. OneAccountPerEmail' BY <1>1 DEF RegistrationSound, OneAccountPerEmail
<1>4. ASSUME NEW o \in Workers PROVE RequestSound(o)'
  <2>1. CASE o = t
    BY <1>1, <1>2, <2>1 DEF RegistrationSound, RequestSound, Registered
  <2>2. CASE o # t BY <1>1, <1>2, <2>2 DEF RegistrationSound, RequestSound, Registered
  <2> QED BY <2>1, <2>2
<1>5. \A o, q \in Workers :
        o # q /\ pc'[o] = "register_commit" /\ pc'[q] = "register_commit"
          => req'[o].email # req'[q].email /\ req'[o].account # req'[q].account
  BY <1>1, <1>2 DEF RegistrationSound
<1> QED BY <1>1, <1>3, <1>4, <1>5 DEF RegistrationSound

(* The new account has an address no other has or is about to have. *)
LEMMA RegisterKeepsSound ==
  ASSUME AuthTypeOK, RegistrationSound, NEW t \in Workers, RegisterCommit(t)
  PROVE  RegistrationSound'
<1>1. PICK a, e : a = req[t].account /\ e = req[t].email OBVIOUS
<1> DEFINE n == [email |-> e, password |-> req[t].password, wallet |-> TRUE]
<1>2. /\ pc[t] = "register_commit" /\ account' = [account EXCEPT ![a] = n]
      /\ pc' = [pc EXCEPT ![t] = "idle"] /\ req' = [req EXCEPT ![t] = NoRequest]
      /\ resetAge' = resetAge
  BY <1>1 DEF RegisterCommit, Finish, Goto
<1>3. Address(e) /\ ~Registered(e) /\ a \in Accounts /\ account[a] = NoUser
  BY <1>1, <1>2 DEF RegistrationSound, RequestSound
<1>4. n.email = e /\ n.wallet /\ n # NoUser /\ e # NoOne
  BY <1>3, AuthAssumption DEF NoUser, AuthAssumption, Address
<1> HIDE DEF n
<1>5. account'[a] = n /\ \A b \in Accounts \ {a} : account'[b] = account[b]
  BY <1>2, <1>3 DEF AuthTypeOK
<1>6. OneAccountPerEmail'
  <2>1. ASSUME NEW b \in Accounts, account'[b] # NoUser
        PROVE  /\ account'[b].wallet /\ account'[b].email = normalised[account'[b].email]
               /\ \A d \in Accounts \ {b} : account'[d].email # account'[b].email
    <3>1. CASE b = a
      BY <1>3, <1>4, <1>5, <3>1 DEF Registered, Address
    <3>2. CASE b # a
      BY <1>3, <1>4, <1>5, <2>1, <3>2 DEF Registered, RegistrationSound, OneAccountPerEmail
    <3> QED BY <3>1, <3>2
  <2> QED BY <2>1 DEF OneAccountPerEmail
<1>7. ASSUME NEW o \in Workers PROVE RequestSound(o)'
  <2>1. CASE o = t BY <1>2, <2>1 DEF RequestSound, AuthTypeOK
  <2>2. CASE o # t
    <3>1. pc'[o] = pc[o] /\ req'[o] = req[o] BY <1>2, <2>2
    <3>2. RequestSound(o) BY DEF RegistrationSound
    <3>3. pc[o] = "register_commit" => req[o].email # e /\ req[o].account # a
      BY <1>1, <1>2, <2>2 DEF RegistrationSound
    <3>4. pc[o] = "register_commit" => ~Registered(req[o].email)'
      BY <1>3, <1>4, <1>5, <3>1, <3>2, <3>3 DEF Registered, RequestSound
    <3> QED BY <1>3, <1>4, <1>5, <3>1, <3>2, <3>3, <3>4 DEF RequestSound
  <2> QED BY <2>1, <2>2
<1>8. \A o, q \in Workers :
        o # q /\ pc'[o] = "register_commit" /\ pc'[q] = "register_commit"
          => req'[o].email # req'[q].email /\ req'[o].account # req'[q].account
  <2>1. \A o \in Workers : pc'[o] = "register_commit" =>
          pc[o] = "register_commit" /\ req'[o] = req[o]
    BY <1>2 DEF AuthTypeOK
  <2> QED BY <2>1 DEF RegistrationSound
<1>9. /\ \A b \in Accounts : account'[b] # NoUser => account'[b].email # NoOne
      /\ \A b \in Accounts : resetAge'[b] < ResetLifetime => account'[b] # NoUser
  BY <1>2, <1>4, <1>5 DEF RegistrationSound
<1> QED BY <1>6, <1>7, <1>8, <1>9 DEF RegistrationSound

(* A new password leaves the address and the wallet of an account. *)
LEMMA ResetKeepsSound ==
  ASSUME AuthTypeOK, RegistrationSound, NEW t \in Workers, ResetCommit(t)
  PROVE  RegistrationSound'
<1>1. PICK a : a = req[t].account OBVIOUS
<1> DEFINE n == [account[a] EXCEPT !.password = req[t].password]
<1>2. /\ pc[t] = "reset_commit" /\ account' = [account EXCEPT ![a] = n]
      /\ pc' = [pc EXCEPT ![t] = "idle"] /\ req' = [req EXCEPT ![t] = NoRequest]
      /\ resetAge' = resetAge
  BY <1>1 DEF ResetCommit, Finish, Goto
<1>3. a \in Accounts /\ account[a] # NoUser
  BY <1>1, <1>2 DEF RegistrationSound, RequestSound
<1>4. n.email = account[a].email /\ n.wallet = account[a].wallet
  BY <1>3 DEF AuthTypeOK, User
<1>5. n # NoUser
  <2>1. account[a].email # NoOne BY <1>3 DEF RegistrationSound
  <2> QED BY <1>4, <2>1 DEF NoUser
<1> HIDE DEF n
<1>6. account'[a] = n /\ \A b \in Accounts \ {a} : account'[b] = account[b]
  BY <1>2, <1>3 DEF AuthTypeOK
<1>7. \A b \in Accounts : /\ account'[b].email = account[b].email
                          /\ account'[b].wallet = account[b].wallet
                          /\ (account'[b] = NoUser <=> account[b] = NoUser)
  BY <1>3, <1>4, <1>5, <1>6
<1>8. OneAccountPerEmail' BY <1>7 DEF RegistrationSound, OneAccountPerEmail
<1>9. ASSUME NEW o \in Workers PROVE RequestSound(o)'
  <2>1. CASE o = t BY <1>2, <2>1 DEF RequestSound, AuthTypeOK
  <2>2. CASE o # t
    <3>1. pc'[o] = pc[o] /\ req'[o] = req[o] BY <1>2, <2>2
    <3> QED BY <1>7, <3>1 DEF RegistrationSound, RequestSound, Registered
  <2> QED BY <2>1, <2>2
<1>10. \A o, q \in Workers :
        o # q /\ pc'[o] = "register_commit" /\ pc'[q] = "register_commit"
          => req'[o].email # req'[q].email /\ req'[o].account # req'[q].account
  <2>1. \A o \in Workers : pc'[o] = "register_commit" =>
          pc[o] = "register_commit" /\ req'[o] = req[o]
    BY <1>2 DEF AuthTypeOK
  <2> QED BY <2>1 DEF RegistrationSound
<1> QED BY <1>2, <1>7, <1>8, <1>9, <1>10 DEF RegistrationSound

(* Every step keeps registrations sound. *)
LEMMA SoundKept == AuthTypeOK /\ RegistrationSound /\ [AuthNext]_authVars => RegistrationSound'
<1> SUFFICES ASSUME AuthTypeOK, RegistrationSound, [AuthNext]_authVars
             PROVE  RegistrationSound'
  OBVIOUS
<1>1. \A a \in Accounts : resetAge[a] < ResetLifetime => account[a] # NoUser
  BY DEF RegistrationSound
<1>2. ASSUME NEW t \in Workers, Finish(t), account' = account, resetAge' = resetAge
      PROVE  RegistrationSound'
  <2>1. /\ pc'[t] = "idle" /\ \A o \in Workers \ {t} : pc'[o] = pc[o] /\ req'[o] = req[o]
    BY <1>2 DEF Finish, Goto, AuthTypeOK
  <2>2. RequestSound(t)' BY <2>1 DEF RequestSound
  <2> QED BY <1>1, <1>2, <2>1, <2>2, RowsKeepSound
<1>3. ASSUME NEW t \in Workers, NEW s \in Spellings, NEW p \in Passwords,
             RegisterCheck(t, s, p) \/ LoginCheck(t, s, p)
      PROVE  RegistrationSound'
  <2>1. /\ account' = account /\ resetAge' = resetAge
        /\ pc'[t] \in {"register_insert", "login_read"}
        /\ req'[t] = [NoRequest EXCEPT !.email = normalised[s], !.password = p]
        /\ \A o \in Workers \ {t} : pc'[o] = pc[o] /\ req'[o] = req[o]
    BY <1>3 DEF RegisterCheck, LoginCheck, Goto, AuthTypeOK
  <2>2. req'[t].email = normalised[s] BY <2>1 DEF NoRequest
  <2>3. RequestSound(t)'
    BY <2>1, <2>2, AuthAssumption DEF RequestSound, Address, AuthAssumption
  <2> QED BY <1>1, <2>1, <2>3, RowsKeepSound
<1>4. ASSUME NEW t \in Workers, NEW a \in Accounts, NEW p \in Passwords, ResetCheck(t, a, p)
      PROVE  RegistrationSound'
  <2>1. /\ account' = account /\ resetAge' = resetAge /\ pc'[t] = "reset_commit"
        /\ req'[t] = [NoRequest EXCEPT !.account = a, !.password = p]
        /\ \A o \in Workers \ {t} : pc'[o] = pc[o] /\ req'[o] = req[o]
        /\ account[a] # NoUser
    BY <1>1, <1>4 DEF ResetCheck, Goto, AuthTypeOK
  <2>2. req'[t].account = a BY <2>1 DEF NoRequest
  <2>3. RequestSound(t)' BY <2>1, <2>2 DEF RequestSound
  <2> QED BY <1>1, <2>1, <2>3, RowsKeepSound
<1>5. ASSUME NEW t \in Workers, LoginRead(t) PROVE RegistrationSound'
  <2>1. /\ account' = account /\ resetAge' = resetAge /\ pc'[t] = "login_verify"
        /\ \A o \in Workers \ {t} : pc'[o] = pc[o] /\ req'[o] = req[o]
    BY <1>5 DEF LoginRead, Goto, AuthTypeOK
  <2>2. RequestSound(t)' BY <2>1 DEF RequestSound
  <2> QED BY <1>1, <2>1, <2>2, RowsKeepSound
<1>6. ASSUME NEW t \in Workers,
             RegisterDuplicate(t) \/ LoginFail(t) \/ LoginSucceed(t) \/ Crash(t)
      PROVE  RegistrationSound'
  BY <1>2, <1>6 DEF RegisterDuplicate, LoginFail, LoginSucceed, Crash
<1>7. ASSUME account' = account, pc' = pc, req' = req,
             \A a \in Accounts : resetAge'[a] < ResetLifetime => account[a] # NoUser
      PROVE  RegistrationSound'
  BY <1>7 DEF RegistrationSound, OneAccountPerEmail, RequestSound, Registered
<1>8. ASSUME NEW s \in Spellings, ForgotPassword(s) PROVE RegistrationSound'
  <2>1. PICK a \in Accounts : /\ account[a].email = normalised[s]
                              /\ resetAge' = [resetAge EXCEPT ![a] = 0]
                              /\ account' = account /\ pc' = pc /\ req' = req
    BY <1>8 DEF ForgotPassword
  <2>2. account[a] # NoUser BY <2>1, AuthAssumption DEF NoUser, AuthAssumption
  <2>3. \A b \in Accounts : resetAge'[b] < ResetLifetime => account[b] # NoUser
    BY <1>1, <2>1, <2>2 DEF AuthTypeOK
  <2> QED BY <1>7, <2>1, <2>3
<1>9. CASE Tick
  <2>1. /\ account' = account /\ pc' = pc /\ req' = req
        /\ \A a \in Accounts : resetAge'[a] = Older(resetAge[a], ResetLifetime)
    BY <1>9 DEF Tick
  <2>2. \A a \in Accounts : resetAge[a] \in 0..ResetLifetime BY DEF AuthTypeOK
  <2>3. \A a \in Accounts : resetAge'[a] < ResetLifetime => resetAge[a] < ResetLifetime
    BY <2>1, <2>2, AuthAssumption DEF Older, AuthAssumption
  <2> QED BY <1>1, <1>7, <2>1, <2>3
<1>10. CASE Restart
  <2>1. /\ account' = account /\ resetAge' = resetAge /\ \A t \in Workers : pc'[t] = "idle"
    BY <1>10 DEF Restart
  <2>2. \A t \in Workers : RequestSound(t)' BY <2>1 DEF RequestSound
  <2>3. OneAccountPerEmail' BY <2>1 DEF RegistrationSound, OneAccountPerEmail
  <2> QED BY <2>1, <2>2, <2>3 DEF RegistrationSound
<1>11. CASE UNCHANGED authVars BY <1>1, <1>7, <1>11 DEF authVars
<1> QED BY <1>3, <1>4, <1>5, <1>6, <1>8, <1>9, <1>10, <1>11, InsertKeepsSound,
           RegisterKeepsSound, ResetKeepsSound
        DEF AuthNext, Begin, Continue

(* However registrations race, no two accounts have the same address, and  *)
(* no account is without its wallet.                                       *)
THEOREM AddressesUnique == AuthSpec => []OneAccountPerEmail
<1>1. AuthInit => RegistrationSound
  <2> SUFFICES ASSUME AuthInit PROVE RegistrationSound OBVIOUS
  <2>1. OneAccountPerEmail BY DEF AuthInit, OneAccountPerEmail
  <2>2. \A t \in Workers : RequestSound(t) BY DEF AuthInit, RequestSound
  <2>3. \A a \in Accounts : account[a] = NoUser /\ ~(resetAge[a] < ResetLifetime)
    BY AuthAssumption DEF AuthInit, AuthAssumption
  <2>4. \A t \in Workers : pc[t] = "idle" BY DEF AuthInit
  <2> QED BY <2>1, <2>2, <2>3, <2>4 DEF RegistrationSound
<1>2. RegistrationSound => OneAccountPerEmail BY DEF RegistrationSound
<1> QED BY <1>1, <1>2, SoundKept, AuthTypeCorrect, PTL DEF AuthSpec
=============================================================================
