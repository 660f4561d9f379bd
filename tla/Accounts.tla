------------------------------ MODULE Accounts ------------------------------
(***************************************************************************)
(* Accounts, sessions and the installation: internal/users/store.go,       *)
(* internal/setup/service.go, the authentication of internal/http, against *)
(* PostgreSQL at READ COMMITTED.                                           *)
(*                                                                         *)
(* A call is one HTTP request.  Those that need a session were let in by   *)
(* the middleware (Arrive) and keep acting for that user whatever happens  *)
(* to the account afterwards.  A transaction is split where another one    *)
(* can commit between its statements; a statement that waits for a row or  *)
(* for an advisory lock is a disabled action.                              *)
(*                                                                         *)
(* An account is its e-mail address, which is unique; a password stands    *)
(* for its bcrypt hash.  There is one school.                              *)
(***************************************************************************)
EXTENDS Integers, FiniteSets

CONSTANTS
    Users,     \* addresses of accounts
    Callers,   \* requests that may overlap
    Tokens,    \* session tokens, never used twice
    Passwords,
    MaxSchools \* bound: no installation once there are so many schools

ASSUME AccountsAssumption ==
    /\ IsFiniteSet(Users)
    /\ MaxSchools \in Nat \ {0, 1}

VARIABLES
    schools, \* how many rows the table of schools has
    account, \* [Users -> NoAccount or its row]
    session, \* [Tokens -> NoSession or its row]
    call,    \* [Callers -> where the request is and what it has read]
    racing   \* history: sign-ins whose read is older than a revocation

tables == <<schools, account, session>>
vars == <<tables, call, racing>>

NoAccount == [state |-> "absent"]
NoSession == [state |-> "unused"]
Idle == [at |-> "idle"]

Account(admin, p) == [state |-> "active", admin |-> admin, password |-> p]

\* What a request holds between its steps.  A revocation is the transaction of
\* ChangePassword or Disable that revokes sessions: "password" is the new one,
\* or that of the account that is disabled.
Installing(at, u, p) == [at |-> at, user |-> u, password |-> p]
SigningIn(u, p) == [at |-> "signingIn", user |-> u, password |-> p]
Acting(u, admin, t) == [at |-> "acting", user |-> u, admin |-> admin, token |-> t]
Disabling(at, u) == [at |-> at, user |-> u]
Revoking(kind, at, u, p, swept) ==
    [at |-> at, kind |-> kind, user |-> u, password |-> p, swept |-> swept]

Init ==
    /\ schools = 0
    /\ account = [u \in Users |-> NoAccount]
    /\ session = [t \in Tokens |-> NoSession]
    /\ call = [c \in Callers |-> Idle]
    /\ racing = {}

-----------------------------------------------------------------------------
(* setup.Service.Complete *)

\* Mutant: the transaction takes no advisory lock.
SetupNeverLocked == FALSE

\* pg_advisory_xact_lock(61822026)
SetupLocked == \E c \in Callers : call[c].at \in {"setupLocked", "setupChecked"}

InstallLock(c, u, p) ==
    /\ call[c] = Idle
    /\ ~SetupLocked
    /\ schools < MaxSchools
    /\ call' = [call EXCEPT ![c] = Installing("setupLocked", u, p)]
    /\ UNCHANGED <<tables, racing>>

\* The check that there is no school yet.
InstallCheck(c) ==
    /\ call[c].at = "setupLocked"
    /\ schools = 0
    /\ call' = [call EXCEPT ![c].at = "setupChecked"]
    /\ UNCHANGED <<tables, racing>>

\* The school with its first administrator, the roles and the rest; COMMIT.
InstallCommit(c) ==
    /\ call[c].at = "setupChecked"
    /\ account[call[c].user] = NoAccount
    /\ schools' = schools + 1
    /\ account' = [account EXCEPT ![call[c].user] = Account(TRUE, call[c].password)]
    /\ call' = [call EXCEPT ![c] = Idle]
    /\ UNCHANGED <<session, racing>>

-----------------------------------------------------------------------------
(* Sessions *)

Holds(u, p) == account[u].state = "active" /\ account[u].password = p

\* A revocation of u's sessions that is past its UPDATE of the sessions.
Swept(u) == \E c \in Callers : call[c].at = "swept" /\ call[c].user = u

\* Authenticate: the row of the user, then the comparison with its hash.
SignInRead(c, u, p) ==
    /\ call[c] = Idle
    /\ Holds(u, p)
    /\ call' = [call EXCEPT ![c] = SigningIn(u, p)]
    /\ racing' = IF Swept(u) THEN racing \cup {c} ELSE racing
    /\ UNCHANGED tables

\* The session.  Its foreign key does not wait for an update of the user.
SignInInsert(c, t) ==
    /\ call[c].at = "signingIn"
    /\ session[t] = NoSession
    /\ session' = [session EXCEPT ![t] =
                     [state |-> "open", user |-> call[c].user,
                      password |-> call[c].password, raced |-> c \in racing]]
    /\ call' = [call EXCEPT ![c] = Idle]
    /\ racing' = racing \ {c}
    /\ UNCHANGED <<schools, account>>

\* ByToken: the session is neither revoked nor expired, its user is active.
Authentic(t) == session[t].state = "open" /\ account[session[t].user].state = "active"

\* The middleware Authenticate, with the permissions of the roles.
Arrive(c, t) ==
    /\ call[c] = Idle
    /\ Authentic(t)
    /\ LET u == session[t].user
       IN call' = [call EXCEPT ![c] = Acting(u, account[u].admin, t)]
    /\ UNCHANGED <<tables, racing>>

\* logout: Revoke, one statement.  It waits for a revocation that holds the row.
Logout(c) ==
    /\ call[c].at = "acting"
    /\ LET t == call[c].token
       IN /\ \A d \in Callers : call[d].at = "swept" => t \notin call[d].swept
          /\ session' = [session EXCEPT ![t].state = "revoked"]
    /\ call' = [call EXCEPT ![c] = Idle]
    /\ UNCHANGED <<schools, account, racing>>

\* expires_at: seven days after the sign-in.
Expire(t) ==
    /\ session[t].state = "open"
    /\ session' = [session EXCEPT ![t].state = "expired"]
    /\ UNCHANGED <<schools, account, call, racing>>

-----------------------------------------------------------------------------
(* Revocations: ChangePassword and Disable *)

\* An UPDATE of the row of the user holds it until the end of the transaction.
Held(u) == \E c \in Callers : call[c].at \in {"written", "swept"} /\ call[c].user = u

\* ChangePassword: the hash is read and compared before the transaction.
PasswordRead(c, p, next) ==
    /\ call[c].at = "acting"
    /\ Holds(call[c].user, p)
    /\ call' = [call EXCEPT ![c] =
                  Revoking("password", "compared", call[c].user, next, {})]
    /\ UNCHANGED <<tables, racing>>

\* UPDATE users ... WHERE id: neither the hash nor the status is looked at again.
PasswordWrite(c) ==
    /\ call[c].at = "compared"
    /\ ~Held(call[c].user)
    /\ call' = [call EXCEPT ![c].at = "written"]
    /\ UNCHANGED <<tables, racing>>

\* Mutant: the transaction takes no advisory lock.
AdministratorsNeverLocked == FALSE

\* pg_advisory_xact_lock of the administrators of the school.
AdministratorsLocked ==
    \E c \in Callers : \/ call[c].at \in {"disableLocked", "disableChecked"}
                       \/ call[c].at \in {"written", "swept"} /\ call[c].kind = "disable"

ActiveAdmins == {u \in Users : account[u].state = "active" /\ account[u].admin}

\* users.manage, and nobody disables the own account.
DisableLock(c, u) ==
    /\ call[c].at = "acting"
    /\ call[c].admin
    /\ u # call[c].user
    /\ ~AdministratorsLocked
    /\ call' = [call EXCEPT ![c] = Disabling("disableLocked", u)]
    /\ UNCHANGED <<tables, racing>>

\* Mutant: the final administrator passes the comparison.
DisableCheckZero(c) ==
    /\ call[c].at = "disableLocked"
    /\ LET u == call[c].user
       IN account[u].state # "absent" /\ account[u].admin => Cardinality(ActiveAdmins) > 0
    /\ call' = [call EXCEPT ![c].at = "disableChecked"]
    /\ UNCHANGED <<tables, racing>>

\* An administrator is disabled only when the count finds another active one.
DisableCheck(c) ==
    /\ call[c].at = "disableLocked"
    /\ LET u == call[c].user
       IN account[u].state # "absent" /\ account[u].admin => Cardinality(ActiveAdmins) > 1
    /\ call' = [call EXCEPT ![c].at = "disableChecked"]
    /\ UNCHANGED <<tables, racing>>

\* UPDATE users ... WHERE active=true.
DisableWrite(c) ==
    /\ call[c].at = "disableChecked"
    /\ LET u == call[c].user
       IN /\ ~Held(u)
          /\ account[u].state = "active"
          /\ call' = [call EXCEPT ![c] =
                        Revoking("disable", "written", u, account[u].password, {})]
    /\ UNCHANGED <<tables, racing>>

SessionsOf(u) == {t \in Tokens : session[t].state = "open" /\ session[t].user = u}

\* Mutant: the session the request came with is kept.
SweepOthers(c) ==
    /\ call[c].at = "written"
    /\ \E keep \in Tokens :
          call' = [call EXCEPT ![c].at = "swept",
                               ![c].swept = SessionsOf(call[c].user) \ {keep}]
    /\ racing' = racing \cup {d \in Callers : /\ call[d].at = "signingIn"
                                              /\ call[d].user = call[c].user}
    /\ UNCHANGED tables

\* UPDATE user_sessions ... WHERE revoked_at IS NULL: the sessions that are
\* committed by then.
Sweep(c) ==
    /\ call[c].at = "written"
    /\ call' = [call EXCEPT ![c].at = "swept", ![c].swept = SessionsOf(call[c].user)]
    /\ racing' = racing \cup {d \in Callers : /\ call[d].at = "signingIn"
                                              /\ call[d].user = call[c].user}
    /\ UNCHANGED tables

\* COMMIT of a revocation.
RevokeCommit(c) ==
    /\ call[c].at = "swept"
    /\ LET r == call[c]
       IN /\ account' = [account EXCEPT
                           ![r.user].password = r.password,
                           ![r.user].state = IF r.kind = "disable" THEN "disabled" ELSE @]
          /\ session' = [t \in Tokens |->
                           IF t \in r.swept THEN [session[t] EXCEPT !.state = "revoked"]
                           ELSE session[t]]
    /\ call' = [call EXCEPT ![c] = Idle]
    /\ UNCHANGED <<schools, racing>>

-----------------------------------------------------------------------------
(* Accounts *)

\* Create: the account with its role, and the audit row.
Create(c, u, admin, p) ==
    /\ call[c].at = "acting"
    /\ call[c].admin
    /\ account[u] = NoAccount
    /\ account' = [account EXCEPT ![u] = Account(admin, p)]
    /\ call' = [call EXCEPT ![c] = Idle]
    /\ UNCHANGED <<schools, session, racing>>

\* Reactivate: one statement, for an account that is disabled.
Reactivate(c, u) ==
    /\ call[c].at = "acting"
    /\ call[c].admin
    /\ account[u].state = "disabled"
    /\ ~Held(u)
    /\ account' = [account EXCEPT ![u].state = "active"]
    /\ call' = [call EXCEPT ![c] = Idle]
    /\ UNCHANGED <<schools, session, racing>>

\* Any refusal or error: the transaction rolls back.
Fail(c) ==
    /\ call[c] # Idle
    /\ call' = [call EXCEPT ![c] = Idle]
    /\ racing' = racing \ {c}
    /\ UNCHANGED tables

-----------------------------------------------------------------------------
Request(c) ==
    \/ \E u \in Users, p \in Passwords : InstallLock(c, u, p)
    \/ InstallCheck(c)
    \/ InstallCommit(c)
    \/ \E u \in Users, p \in Passwords : SignInRead(c, u, p)
    \/ \E t \in Tokens : SignInInsert(c, t)
    \/ \E t \in Tokens : Arrive(c, t)
    \/ Logout(c)
    \/ \E p, next \in Passwords : PasswordRead(c, p, next)
    \/ PasswordWrite(c)
    \/ \E u \in Users : DisableLock(c, u)
    \/ DisableCheck(c)
    \/ DisableWrite(c)
    \/ Sweep(c)
    \/ RevokeCommit(c)
    \/ \E u \in Users, admin \in BOOLEAN, p \in Passwords : Create(c, u, admin, p)
    \/ \E u \in Users : Reactivate(c, u)
    \/ Fail(c)

Next ==
    \/ \E c \in Callers : Request(c)
    \/ \E t \in Tokens : Expire(t)

Spec == Init /\ [][Next]_vars

-----------------------------------------------------------------------------
Accounts ==
    [state : {"active", "disabled"}, admin : BOOLEAN, password : Passwords]

Sessions ==
    [state : {"open", "revoked", "expired"}, user : Users, password : Passwords,
     raced : BOOLEAN]

Calls ==
    {Idle}
    \cup [at : {"setupLocked", "setupChecked", "signingIn"},
          user : Users, password : Passwords]
    \cup [at : {"acting"}, user : Users, admin : BOOLEAN, token : Tokens]
    \cup [at : {"disableLocked", "disableChecked"}, user : Users]
    \cup [at : {"compared", "written", "swept"}, kind : {"password", "disable"},
          user : Users, password : Passwords, swept : SUBSET Tokens]

TypeOK ==
    /\ schools \in 0..MaxSchools
    /\ account \in [Users -> {NoAccount} \cup Accounts]
    /\ session \in [Tokens -> {NoSession} \cup Sessions]
    /\ call \in [Callers -> Calls]
    /\ racing \subseteq Callers

\* The installation takes place once, however many installers meet.
OneSchool == schools <= 1

\* docs/security.md: "The final privileged administrator must be protected".
\* Once the school is installed somebody active can administer it, whoever
\* disables whom at the same time.
AdminRemains == schools > 0 => ActiveAdmins # {}

\* docs/security.md: "Password changes and user disablement revoke sessions."
\* A session that is still open although its user was disabled or has another
\* password was opened by a sign-in that read the user before that revocation
\* committed and stored the session after it had revoked the others.
SurvivorRaced ==
    \A t \in Tokens : session[t].state = "open" =>
        LET row == account[session[t].user]
        IN row.state = "disabled" \/ row.password # session[t].password
           => session[t].raced
=============================================================================
