-------------------------------- MODULE Auth --------------------------------
(***************************************************************************)
(* AuthService and LoginAttemptTracker (app/services/auth_service.py,      *)
(* app/core/security.py): registration, login with its lockout, and the    *)
(* password reset, as requests of one server process (Procfile: a single   *)
(* uvicorn).  A step ends where the code awaits the database; the          *)
(* tracker's asyncio lock is never held across an await, so each of its    *)
(* methods is atomic.  A hash is the password it was made from.  Times are *)
(* ages that stop growing at the limit they are compared with.             *)
(***************************************************************************)
EXTENDS Naturals, FiniteSets

CONSTANTS
  Workers,        \* requests that can be in flight at the same time
  Accounts,       \* user ids that may be handed out
  Spellings,      \* email addresses as clients spell them
  normalised,     \* email.lower().strip()
  Passwords,
  NoOne,          \* NULL
  MAX_ATTEMPTS,   \* LoginAttemptTracker.MAX_ATTEMPTS
  Window,         \* LoginAttemptTracker.WINDOW_SECONDS
  ResetLifetime   \* settings.password_reset_token_expire_minutes

ASSUME AuthAssumption ==
  /\ IsFiniteSet(Workers)
  /\ normalised \in [Spellings -> Spellings]
  /\ \A s \in Spellings : normalised[normalised[s]] = normalised[s]
  /\ NoOne \notin Accounts \cup Spellings \cup Passwords
  /\ MAX_ATTEMPTS \in Nat \ {0} /\ Window \in Nat \ {0} /\ ResetLifetime \in Nat \ {0}

VARIABLES
  account,    \* users rows, each with its wallets row
  failures,   \* LoginAttemptTracker._attempts: the age of every failure
  resetAge,   \* the age of the newest reset token of every account
  pc, req     \* the requests in flight

authVars == <<account, failures, resetAge, pc, req>>

Null(S) == S \cup {NoOne}

(* Addresses as they are stored and counted. *)
Addresses == {normalised[s] : s \in Spellings}

User == [email : Null(Addresses), password : Null(Passwords), wallet : BOOLEAN]

NoUser == [email |-> NoOne, password |-> NoOne, wallet |-> FALSE]

Request == [email : Null(Addresses), password : Null(Passwords),
            account : Null(Accounts), read : Null(Passwords)]

NoRequest == [email |-> NoOne, password |-> NoOne, account |-> NoOne, read |-> NoOne]

(* The list of an email address has room for every failure it can hold. *)
Slots == 1..(MAX_ATTEMPTS + Cardinality(Workers))

-----------------------------------------------------------------------------
(* LoginAttemptTracker. *)

(* The failures of email e inside the window. *)
Recent(e) == {i \in Slots : failures[e][i] < Window}

is_locked(e) == Cardinality(Recent(e)) >= MAX_ATTEMPTS

NoFailures == [i \in Slots |-> Window]

(* A free place of the list, the first one. *)
FreeSlot(e) ==
  CHOOSE i \in Slots \ Recent(e) : \A j \in Slots \ Recent(e) : i <= j

record_failure(e) == failures' = [failures EXCEPT ![e][FreeSlot(e)] = 0]

clear(e) == failures' = [failures EXCEPT ![e] = NoFailures]

-----------------------------------------------------------------------------
Goto(t, label) == pc' = [pc EXCEPT ![t] = label]

Finish(t) ==
  /\ Goto(t, "idle")
  /\ req' = [req EXCEPT ![t] = NoRequest]

Registered(e) == \E a \in Accounts : account[a].email = e

(* register: refuse an address that a plain read finds. *)
RegisterCheck(t, s, p) ==
  /\ pc[t] = "idle"
  /\ ~Registered(normalised[s])
  /\ Goto(t, "register_insert")
  /\ req' = [req EXCEPT ![t] = [NoRequest EXCEPT !.email = normalised[s], !.password = p]]
  /\ UNCHANGED <<account, failures, resetAge>>

(* A fresh UUID. *)
FreshAccount(a) ==
  account[a] = NoUser /\ \A o \in Workers : pc[o] = "register_commit" => req[o].account # a

(* Another request has inserted the address and not committed yet; the     *)
(* unique index makes an INSERT of the same address wait for it.           *)
Inserting(t) ==
  \E o \in Workers : pc[o] = "register_commit" /\ req[o].email = req[t].email

(* Fault: nothing but the earlier read keeps the address unique. *)
InsertUnchecked(t, a) ==
  /\ pc[t] = "register_insert"
  /\ FreshAccount(a)
  /\ Goto(t, "register_commit")
  /\ req' = [req EXCEPT ![t].account = a]
  /\ UNCHANGED <<account, failures, resetAge>>

(* INSERT of the user, then of the wallet, in one transaction. *)
RegisterInsert(t, a) ==
  /\ pc[t] = "register_insert"
  /\ FreshAccount(a)
  /\ ~Inserting(t)
  /\ ~Registered(req[t].email)
  /\ Goto(t, "register_commit")
  /\ req' = [req EXCEPT ![t].account = a]
  /\ UNCHANGED <<account, failures, resetAge>>

(* IntegrityError: the address was registered since it was looked up. *)
RegisterDuplicate(t) ==
  /\ pc[t] = "register_insert"
  /\ ~Inserting(t)
  /\ Registered(req[t].email)
  /\ Finish(t)
  /\ UNCHANGED <<account, failures, resetAge>>

RegisterCommit(t) ==
  /\ pc[t] = "register_commit"
  /\ account' = [account EXCEPT ![req[t].account] =
       [email |-> req[t].email, password |-> req[t].password, wallet |-> TRUE]]
  /\ Finish(t)
  /\ UNCHANGED <<failures, resetAge>>

-----------------------------------------------------------------------------
(* Fault: login does not ask is_locked. *)
LoginUnchecked(t, s, p) ==
  /\ pc[t] = "idle"
  /\ Recent(normalised[s]) # Slots
  /\ Goto(t, "login_read")
  /\ req' = [req EXCEPT ![t] = [NoRequest EXCEPT !.email = normalised[s], !.password = p]]
  /\ UNCHANGED <<account, failures, resetAge>>

(* Fault: login leaves the address as the client spells it, so every       *)
(* spelling has a list of attempts of its own.                             *)
LoginAsSpelled(t, s, p) ==
  /\ pc[t] = "idle"
  /\ ~is_locked(s)
  /\ Goto(t, "login_read")
  /\ req' = [req EXCEPT ![t] = [NoRequest EXCEPT !.email = s, !.password = p]]
  /\ UNCHANGED <<account, failures, resetAge>>

(* login: a locked address is refused at once, and nothing is recorded. *)
LoginCheck(t, s, p) ==
  /\ pc[t] = "idle"
  /\ ~is_locked(normalised[s])
  /\ Goto(t, "login_read")
  /\ req' = [req EXCEPT ![t] = [NoRequest EXCEPT !.email = normalised[s], !.password = p]]
  /\ UNCHANGED <<account, failures, resetAge>>

(* get_by_email; nobody may have the address. *)
LoginRead(t) ==
  /\ pc[t] = "login_read"
  /\ Goto(t, "login_verify")
  /\ \/ \E a \in Accounts :
          /\ account[a].email = req[t].email
          /\ req' = [req EXCEPT ![t].read = account[a].password]
     \/ ~Registered(req[t].email) /\ UNCHANGED req
  /\ UNCHANGED <<account, failures, resetAge>>

LoginFail(t) ==
  /\ pc[t] = "login_verify"
  /\ req[t].read # req[t].password
  /\ record_failure(req[t].email)
  /\ Finish(t)
  /\ UNCHANGED <<account, resetAge>>

LoginSucceed(t) ==
  /\ pc[t] = "login_verify"
  /\ req[t].read = req[t].password
  /\ clear(req[t].email)
  /\ Finish(t)
  /\ UNCHANGED <<account, resetAge>>

-----------------------------------------------------------------------------
(* forgot_password: a signed token; the database keeps nothing of it. *)
ForgotPassword(s) ==
  \E a \in Accounts :
    /\ account[a].email = normalised[s]
    /\ resetAge' = [resetAge EXCEPT ![a] = 0]
    /\ UNCHANGED <<account, failures, pc, req>>

(* reset_password: verify_password_reset_token, then load the user.  The   *)
(* token stays valid until it expires.                                     *)
ResetCheck(t, a, p) ==
  /\ pc[t] = "idle"
  /\ resetAge[a] < ResetLifetime
  /\ Goto(t, "reset_commit")
  /\ req' = [req EXCEPT ![t] = [NoRequest EXCEPT !.account = a, !.password = p]]
  /\ UNCHANGED <<account, failures, resetAge>>

(* UPDATE of the password and commit. *)
ResetCommit(t) ==
  /\ pc[t] = "reset_commit"
  /\ account' = [account EXCEPT ![req[t].account].password = req[t].password]
  /\ Finish(t)
  /\ UNCHANGED <<failures, resetAge>>

-----------------------------------------------------------------------------
(* Fault: a failure never gets as old as the window. *)
AlwaysRecent(n, limit) == IF n + 1 < limit THEN n + 1 ELSE n

(* What is as old as the limit has expired (_prune drops such a failure at *)
(* its next look, and nothing looks at it before).                         *)
Older(n, limit) == IF n < limit THEN n + 1 ELSE n

Tick ==
  /\ failures' = [e \in Spellings |-> [i \in Slots |-> Older(failures[e][i], Window)]]
  /\ resetAge' = [a \in Accounts |-> Older(resetAge[a], ResetLifetime)]
  /\ UNCHANGED <<account, pc, req>>

(* A request is lost: its transaction is rolled back. *)
Crash(t) ==
  /\ pc[t] # "idle"
  /\ Finish(t)
  /\ UNCHANGED <<account, failures, resetAge>>

(* The process restarts: the tracker lives in its memory. *)
Restart ==
  /\ failures' = [e \in Spellings |-> NoFailures]
  /\ pc' = [t \in Workers |-> "idle"]
  /\ req' = [t \in Workers |-> NoRequest]
  /\ UNCHANGED <<account, resetAge>>

AuthInit ==
  /\ account = [a \in Accounts |-> NoUser]
  /\ failures = [e \in Spellings |-> NoFailures]
  /\ resetAge = [a \in Accounts |-> ResetLifetime]
  /\ pc = [t \in Workers |-> "idle"]
  /\ req = [t \in Workers |-> NoRequest]

Begin(t) ==
  \E p \in Passwords :
    \/ \E s \in Spellings : RegisterCheck(t, s, p)
    \/ \E s \in Spellings : LoginCheck(t, s, p)
    \/ \E a \in Accounts : ResetCheck(t, a, p)

Continue(t) ==
  \/ \E a \in Accounts : RegisterInsert(t, a)
  \/ RegisterDuplicate(t)
  \/ RegisterCommit(t)
  \/ LoginRead(t)
  \/ LoginFail(t)
  \/ LoginSucceed(t)
  \/ ResetCommit(t)

AuthNext ==
  \/ \E t \in Workers : Begin(t) \/ Continue(t) \/ Crash(t)
  \/ \E s \in Spellings : ForgotPassword(s)
  \/ Tick
  \/ Restart

AuthSpec == AuthInit /\ [][AuthNext]_authVars

(* Time passes, and a request that has begun goes on. *)
AuthFairSpec == AuthSpec /\ WF_authVars(Tick) /\ \A t \in Workers : WF_authVars(Continue(t))

-----------------------------------------------------------------------------
AuthPCs == {"idle", "register_insert", "register_commit", "login_read", "login_verify",
            "reset_commit"}

(* Type invariant of the rows, the tracker and the requests: however       *)
(* clients spell an address, only its normalised form reaches a row, a     *)
(* request or the list of attempts.                                        *)
AuthTypeOK ==
  /\ account \in [Accounts -> User]
  /\ failures \in [Spellings -> [Slots -> 0..Window]]
  /\ resetAge \in [Accounts -> 0..ResetLifetime]
  /\ pc \in [Workers -> AuthPCs]
  /\ req \in [Workers -> Request]

(* Logins for e that were let in and have not been answered. *)
LetIn(e) ==
  {t \in Workers : pc[t] \in {"login_read", "login_verify"} /\ req[t].email = e}

(* is_locked and record_failure are separate steps, so logins in flight    *)
(* together can pass the limit: by one less than there can be requests in  *)
(* flight, and by no more, however clients spell the address.              *)
ThrottleBound ==
  \A e \in Spellings :
    Cardinality(Recent(e)) + Cardinality(LetIn(e))
      <= MAX_ATTEMPTS - 1 + Cardinality(Workers)

(* Whatever registrations race, an address has one account, however it is  *)
(* spelled, and every account has its wallet.                              *)
OneAccountPerEmail ==
  \A a \in Accounts : account[a] # NoUser =>
    /\ account[a].wallet
    /\ account[a].email = normalised[account[a].email]
    /\ \A b \in Accounts \ {a} : account[b].email # account[a].email

(* A lockout ends by itself: clients that go on trying do not prolong it.  *)
LockoutEnds == \A e \in Spellings : is_locked(e) ~> ~is_locked(e)
=============================================================================
