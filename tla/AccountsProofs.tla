--------------------------- MODULE AccountsProofs ---------------------------
(***************************************************************************)
(* Proofs about accounts and sessions, for any number of users and of      *)
(* overlapping requests.                                                   *)
(***************************************************************************)
EXTENDS Accounts, FiniteSetTheorems, TLAPS

(* What a call names exists: the session it came with, the account it is     *)
(* about to change, the sessions it is about to revoke.                      *)
NamesExist ==
    \A c \in Callers :
        /\ call[c].at = "acting" => session[call[c].token] # NoSession
        /\ call[c].at \in {"compared", "written", "swept"} =>
              account[call[c].user] # NoAccount
        /\ call[c].at = "swept" => \A t \in call[c].swept : session[t] # NoSession

(* Who has seen that there is no school holds the lock, and is alone.        *)
SetupExcludes ==
    /\ \A c \in Callers : call[c].at = "setupChecked" => schools = 0
    /\ \A c, d \in Callers :
          /\ call[c].at \in {"setupLocked", "setupChecked"}
          /\ call[d].at \in {"setupLocked", "setupChecked"}
          => c = d

-----------------------------------------------------------------------------
(* What the two steps of a revocation do to its record and to the account.   *)
CallSwept(c) ==
    /\ call[c].at = "written"
    /\ call[c].kind \in {"password", "disable"}
    /\ call[c].user \in Users
    /\ call' = [call EXCEPT ![c] = call'[c]]
    /\ call'[c] \in Calls
    /\ call'[c].at = "swept"
    /\ call'[c].kind = call[c].kind
    /\ call'[c].user = call[c].user
    /\ call'[c].swept = SessionsOf(call[c].user)

LEMMA SweptCall ==
    ASSUME TypeOK, NEW c \in Callers, Sweep(c)
    PROVE  CallSwept(c)
<1>1. call[c] \in [at : {"compared", "written", "swept"}, kind : {"password", "disable"},
                   user : Users, password : Passwords, swept : SUBSET Tokens]
  BY DEF Sweep, TypeOK, Calls, Idle
<1>2. SessionsOf(call[c].user) \in SUBSET Tokens
  BY DEF SessionsOf
<1>3. /\ call' = [call EXCEPT ![c] = call'[c]]
      /\ call'[c] = [call[c] EXCEPT !.at = "swept", !.swept = SessionsOf(call[c].user)]
  BY DEF Sweep, TypeOK
<1>4. call'[c] \in Calls
  BY <1>1, <1>2, <1>3 DEF Calls
<1>5. /\ call[c].at = "written"
      /\ call[c].kind \in {"password", "disable"}
      /\ call[c].user \in Users
  BY <1>1 DEF Sweep
<1>6. /\ call'[c].at = "swept"
      /\ call'[c].kind = call[c].kind
      /\ call'[c].user = call[c].user
      /\ call'[c].swept = SessionsOf(call[c].user)
  BY <1>1, <1>3
<1> QED
  BY <1>3, <1>4, <1>5, <1>6 DEF CallSwept

(* Disabling turns the call into a revocation of the same user.              *)
LEMMA DisabledCall ==
  ASSUME TypeOK, NEW c \in Callers, DisableWrite(c)
  PROVE  /\ call[c].at = "disableChecked"
         /\ call' = [call EXCEPT ![c] = call'[c]]
         /\ call'[c].at = "written"
         /\ call'[c].user = call[c].user
         /\ UNCHANGED <<schools, account>>
<1> DEFINE entry == Revoking("disable", "written", call[c].user,
                             account[call[c].user].password, {})
<1>1. /\ call[c].at = "disableChecked"
      /\ call' = [call EXCEPT ![c] = entry]
      /\ UNCHANGED <<schools, account>>
  BY DEF DisableWrite, tables
<1>2. entry.at = "written" /\ entry.user = call[c].user
  BY DEF Revoking
<1>3. DOMAIN call = Callers
  BY DEF TypeOK
<1> HIDE DEF entry
<1>4. call'[c] = entry
  BY <1>1, <1>3
<1> QED
  BY <1>1, <1>2, <1>4

LEMMA RevokedAccount ==
    ASSUME TypeOK, NamesExist, NEW c \in Callers, RevokeCommit(c)
    PROVE  LET u == call[c].user
           IN /\ u \in Users
              /\ account[u] \in Accounts
              /\ account' = [account EXCEPT ![u] = account'[u]]
              /\ account'[u].admin = account[u].admin
              /\ account'[u].state = IF call[c].kind = "disable" THEN "disabled"
                                     ELSE account[u].state
<1> DEFINE u == call[c].user
<1>1. u \in Users /\ account[u] \in Accounts
  BY DEF RevokeCommit, TypeOK, NamesExist, Calls, Idle, Accounts, NoAccount
<1>2. account' = [account EXCEPT ![u] =
                    [account[u] EXCEPT !.password = call[c].password,
                                       !.state = IF call[c].kind = "disable" THEN "disabled"
                                                 ELSE account[u].state]]
  BY <1>1 DEF RevokeCommit, TypeOK, Accounts
<1> QED
  BY <1>1, <1>2 DEF Accounts, TypeOK

(* Rows are never deleted, so that what a call names goes on to exist.       *)
THEOREM WellFormed == Spec => [](TypeOK /\ NamesExist /\ SetupExcludes /\ OneSchool)
<1> DEFINE IInv == TypeOK /\ NamesExist /\ SetupExcludes /\ OneSchool
<1>1. Init => IInv
  BY AccountsAssumption DEF Init, TypeOK, NamesExist, SetupExcludes, OneSchool, Calls, Idle
<1>2. IInv /\ [Next]_vars => IInv'
  <2> SUFFICES ASSUME IInv, [Next]_vars PROVE IInv'
    OBVIOUS
  <2> USE AccountsAssumption
      DEF TypeOK, NamesExist, SetupExcludes, OneSchool, Calls, Idle, Accounts, Sessions,
          NoAccount, NoSession, tables
  <2>1. ASSUME NEW c \in Callers, NEW u \in Users, NEW p \in Passwords,
               InstallLock(c, u, p)
        PROVE IInv'
    BY <2>1 DEF InstallLock, Installing, SetupLocked
  <2>2. ASSUME NEW c \in Callers, InstallCheck(c) PROVE IInv'
    BY <2>2 DEF InstallCheck
  <2>3. ASSUME NEW c \in Callers, InstallCommit(c) PROVE IInv'
    BY <2>3 DEF InstallCommit, Account
  <2>4. ASSUME NEW c \in Callers, NEW u \in Users, NEW p \in Passwords,
               SignInRead(c, u, p)
        PROVE IInv'
    BY <2>4 DEF SignInRead, SigningIn
  <2>5. ASSUME NEW c \in Callers, NEW t \in Tokens, SignInInsert(c, t) PROVE IInv'
    BY <2>5 DEF SignInInsert
  <2>6. ASSUME NEW c \in Callers, NEW t \in Tokens, Arrive(c, t) PROVE IInv'
    BY <2>6 DEF Arrive, Acting, Authentic
  <2>7. ASSUME NEW c \in Callers, Logout(c) PROVE IInv'
    BY <2>7 DEF Logout
  <2>8. ASSUME NEW c \in Callers, NEW p \in Passwords, NEW next \in Passwords,
               PasswordRead(c, p, next)
        PROVE IInv'
    BY <2>8 DEF PasswordRead, Revoking, Holds
  <2>9. ASSUME NEW c \in Callers, PasswordWrite(c) PROVE IInv'
    <3>1. /\ call' = [call EXCEPT ![c].at = "written"]
          /\ UNCHANGED <<schools, account, session, racing>>
      BY <2>9 DEF PasswordWrite
    <3>2. call[c] \in [at : {"compared", "written", "swept"}, kind : {"password", "disable"},
                       user : Users, password : Passwords, swept : SUBSET Tokens]
      BY <2>9 DEF PasswordWrite
    <3>3. call'[c] \in [at : {"written"}, kind : {"password", "disable"},
                        user : Users, password : Passwords, swept : SUBSET Tokens]
      BY <3>1, <3>2
    <3>4. call'[c].user = call[c].user /\ call'[c].swept = call[c].swept
      BY <3>1, <3>2
    <3>5. \A d \in Callers : d # c => call'[d] = call[d]
      BY <3>1
    <3>6. TypeOK'
      BY <3>1, <3>3
    <3>7. NamesExist'
      BY <3>1, <3>2, <3>3, <3>4, <3>5
    <3>8. (SetupExcludes /\ OneSchool)'
      BY <3>1, <3>3, <3>5
    <3> QED
      BY <3>6, <3>7, <3>8
  <2>10. ASSUME NEW c \in Callers, NEW u \in Users, DisableLock(c, u) PROVE IInv'
    BY <2>10 DEF DisableLock, Disabling
  <2>11. ASSUME NEW c \in Callers, DisableCheck(c) PROVE IInv'
    BY <2>11 DEF DisableCheck
  <2>12. ASSUME NEW c \in Callers, DisableWrite(c) PROVE IInv'
    BY <2>12 DEF DisableWrite, Revoking
  <2>13. ASSUME NEW c \in Callers, Sweep(c) PROVE IInv'
    <3>1. CallSwept(c)
      BY <2>13, SweptCall
    <3>2. \A t \in SessionsOf(call[c].user) : t \in Tokens /\ session[t] # NoSession
      BY DEF SessionsOf
    <3>3. TypeOK'
      BY <2>13, <3>1 DEF Sweep, CallSwept
    <3>4. UNCHANGED <<schools, account, session>>
      BY <2>13 DEF Sweep
    <3>5. \A d \in Callers : d # c => call'[d] = call[d]
      BY <3>1 DEF CallSwept
    <3>6. /\ call[c].at = "written" /\ call'[c].at = "swept"
          /\ call'[c].user = call[c].user
          /\ call'[c].swept = SessionsOf(call[c].user)
      BY <3>1 DEF CallSwept
    <3>7. NamesExist'
      BY <3>2, <3>4, <3>5, <3>6
    <3>8. (SetupExcludes /\ OneSchool)'
      BY <3>4, <3>5, <3>6
    <3> QED
      BY <3>3, <3>7, <3>8
  <2>14. ASSUME NEW c \in Callers, RevokeCommit(c) PROVE IInv'
    <3> DEFINE u == call[c].user
    <3>1. /\ call' = [call EXCEPT ![c] = Idle]
          /\ UNCHANGED <<schools, racing>>
      BY <2>14 DEF RevokeCommit
    <3>2. account' \in [Users -> {NoAccount} \cup Accounts]
      BY <2>14 DEF RevokeCommit
    <3>3. \A v \in Users : account[v] # NoAccount => account'[v] # NoAccount
      BY <2>14 DEF RevokeCommit
    <3>4. session' \in [Tokens -> {NoSession} \cup Sessions]
      BY <2>14 DEF RevokeCommit
    <3>5. \A t \in Tokens : session[t] # NoSession => session'[t] # NoSession
      BY <2>14 DEF RevokeCommit
    <3>6. \A d \in Callers : call'[d] # Idle => call'[d] = call[d]
      BY <3>1
    <3>7. TypeOK'
      BY <3>1, <3>2, <3>4
    <3>8. NamesExist'
      BY <3>3, <3>5, <3>6
    <3>9. (SetupExcludes /\ OneSchool)'
      BY <3>1, <3>6
    <3> QED
      BY <3>7, <3>8, <3>9
  <2>15. ASSUME NEW c \in Callers, NEW u \in Users, NEW admin \in BOOLEAN,
                NEW p \in Passwords, Create(c, u, admin, p)
         PROVE IInv'
    BY <2>15 DEF Create, Account
  <2>16. ASSUME NEW c \in Callers, NEW u \in Users, Reactivate(c, u) PROVE IInv'
    BY <2>16 DEF Reactivate
  <2>17. ASSUME NEW c \in Callers, Fail(c) PROVE IInv'
    BY <2>17 DEF Fail
  <2>18. ASSUME NEW t \in Tokens, Expire(t) PROVE IInv'
    BY <2>18 DEF Expire
  <2>19. CASE UNCHANGED vars
    BY <2>19 DEF vars
  <2> HIDE DEF IInv
  <2> QED
    BY <2>1, <2>2, <2>3, <2>4, <2>5, <2>6, <2>7, <2>8, <2>9, <2>10, <2>11, <2>12,
       <2>13, <2>14, <2>15, <2>16, <2>17, <2>18, <2>19 DEF Next, Request
<1> QED
  BY <1>1, <1>2, PTL DEF Spec

(* The installation takes place once.                                        *)
THEOREM InstalledOnce == Spec => []OneSchool
<1> QED
  BY WellFormed, PTL

-----------------------------------------------------------------------------
(* Every step keeps the types and the names: what the other proofs start     *)
(* from.                                                                     *)
Sound == TypeOK /\ NamesExist

LEMMA SoundAlways == Spec => []Sound
  BY WellFormed, PTL DEF Sound

(* A call that holds the lock of the administrators.                         *)
DisablingCall(c) ==
    \/ call[c].at \in {"disableLocked", "disableChecked"}
    \/ call[c].at \in {"written", "swept"} /\ call[c].kind = "disable"

(* One call disables at a time.  Once it has counted, an administrator other *)
(* than its target stays active until it commits.  Nobody acts before the    *)
(* installation, and there is no account before it.                          *)
DisableInv ==
    /\ \A c, d \in Callers : DisablingCall(c) /\ DisablingCall(d) => c = d
    /\ \A c \in Callers : call[c].at = "compared" => call[c].kind = "password"
    /\ \A c \in Callers :
          DisablingCall(c) /\ call[c].at # "disableLocked" =>
             ActiveAdmins \ {call[c].user} # {}
    /\ \A c \in Callers :
          call[c].at \in {"acting", "disableLocked", "disableChecked", "compared",
                          "written", "swept"} => schools > 0
    /\ schools = 0 => \A u \in Users : account[u] = NoAccount
    /\ AdminRemains

(* A set with more than one element keeps one whoever leaves it.             *)
LEMMA AnotherRemains ==
    ASSUME NEW S, IsFiniteSet(S), NEW u, Cardinality(S) > 1
    PROVE  S \ {u} # {}
<1> SUFFICES ASSUME S \ {u} = {} PROVE FALSE
  OBVIOUS
<1>1. S \subseteq {u}
  OBVIOUS
<1>2. IsFiniteSet({u}) /\ Cardinality({u}) = 1
  BY FS_Singleton
<1>3. Cardinality(S) <= 1
  BY <1>1, <1>2, FS_Subset
<1>4. Cardinality(S) \in Nat
  BY FS_CardinalityType
<1> QED
  BY <1>3, <1>4

(* The count of DisableCheck under the lock: of the steps only RevokeCommit  *)
(* takes an administrator away, and only the call that holds the lock can    *)
(* take it.                                                                  *)
THEOREM AdministratorRemains == Spec => []AdminRemains
<1>1. Init => DisableInv
  BY AccountsAssumption
     DEF Init, DisableInv, DisablingCall, AdminRemains, Idle, NoAccount
<1>2. Sound /\ Sound' /\ DisableInv /\ [Next]_vars => DisableInv'
  <2> SUFFICES ASSUME Sound, Sound', DisableInv, [Next]_vars PROVE DisableInv'
    OBVIOUS
  <2> USE AccountsAssumption
      DEF Sound, TypeOK, NamesExist, DisableInv, DisablingCall, AdminRemains,
          ActiveAdmins, Calls, Idle, Accounts, Sessions, NoAccount, NoSession, tables
  <2>1. ASSUME NEW c \in Callers, NEW u \in Users, NEW p \in Passwords,
               InstallLock(c, u, p)
        PROVE DisableInv'
    BY <2>1 DEF InstallLock, Installing
  <2>2. ASSUME NEW c \in Callers, InstallCheck(c) PROVE DisableInv'
    BY <2>2 DEF InstallCheck
  <2>3. ASSUME NEW c \in Callers, InstallCommit(c) PROVE DisableInv'
    BY <2>3 DEF InstallCommit, Account
  <2>4. ASSUME NEW c \in Callers, NEW u \in Users, NEW p \in Passwords,
               SignInRead(c, u, p)
        PROVE DisableInv'
    BY <2>4 DEF SignInRead, SigningIn
  <2>5. ASSUME NEW c \in Callers, NEW t \in Tokens, SignInInsert(c, t)
        PROVE DisableInv'
    BY <2>5 DEF SignInInsert
  <2>6. ASSUME NEW c \in Callers, NEW t \in Tokens, Arrive(c, t) PROVE DisableInv'
    <3> HIDE DEF Calls, Accounts, DisableInv
    <3>1. /\ call' = [call EXCEPT ![c] = call'[c]]
          /\ call'[c].at = "acting"
          /\ UNCHANGED <<schools, account>>
      BY <2>6 DEF Arrive, Acting
    <3>2. session[t].user \in Users /\ account[session[t].user] # NoAccount
      <4>1. session[t].state = "open" /\ account[session[t].user].state = "active"
        BY <2>6 DEF Arrive, Authentic
      <4> QED
        BY <4>1
    <3>3. schools > 0
      BY <3>2 DEF DisableInv
    <3>4. \A d \in Callers : d # c => call'[d] = call[d]
      BY <3>1
    <3>5. ActiveAdmins' = ActiveAdmins
      BY <3>1
    <3> HIDE DEF ActiveAdmins, Sound, TypeOK, NamesExist, Sessions
    <3> USE DEF DisableInv
    <3> QED
      BY <3>1, <3>3, <3>4, <3>5
  <2>7. ASSUME NEW c \in Callers, Logout(c) PROVE DisableInv'
    BY <2>7 DEF Logout
  <2>8. ASSUME NEW c \in Callers, NEW p \in Passwords, NEW next \in Passwords,
               PasswordRead(c, p, next)
        PROVE DisableInv'
    BY <2>8 DEF PasswordRead, Revoking, Holds
  <2>9. ASSUME NEW c \in Callers, PasswordWrite(c) PROVE DisableInv'
    BY <2>9 DEF PasswordWrite
  <2>10. ASSUME NEW c \in Callers, NEW u \in Users, DisableLock(c, u)
         PROVE DisableInv'
    BY <2>10 DEF DisableLock, Disabling, AdministratorsLocked
  <2>11. ASSUME NEW c \in Callers, DisableCheck(c) PROVE DisableInv'
    <3>1. IsFiniteSet(ActiveAdmins)
      BY FS_Subset
    <3>2. ActiveAdmins \ {call[c].user} # {}
      <4>1. CASE account[call[c].user].state # "absent" /\ account[call[c].user].admin
        <5>1. Cardinality(ActiveAdmins) > 1
          BY <2>11, <4>1 DEF DisableCheck
        <5> HIDE DEF ActiveAdmins, Sound, DisableInv
        <5> QED
          BY <3>1, <5>1, AnotherRemains, Zenon
      <4>2. CASE ~(account[call[c].user].state # "absent"
                   /\ account[call[c].user].admin)
        BY <2>11, <4>2 DEF DisableCheck
      <4> QED
        BY <4>1, <4>2
    <3> QED
      BY <2>11, <3>2 DEF DisableCheck
  <2>12. ASSUME NEW c \in Callers, DisableWrite(c) PROVE DisableInv'
    <3>1. /\ call[c].at = "disableChecked"
          /\ call' = [call EXCEPT ![c] = call'[c]]
          /\ call'[c].at = "written"
          /\ call'[c].user = call[c].user
          /\ UNCHANGED <<schools, account>>
      BY <2>12, DisabledCall
    <3>2. \A d \in Callers : d # c => call'[d] = call[d]
      BY <3>1
    <3>3. \A d \in Callers : DisablingCall(d)' => DisablingCall(d)
      BY <3>1, <3>2
    <3>4. ActiveAdmins' = ActiveAdmins
      BY <3>1
    <3> HIDE DEF ActiveAdmins
    <3> QED
      BY <3>1, <3>2, <3>3, <3>4
  <2>13. ASSUME NEW c \in Callers, Sweep(c) PROVE DisableInv'
    <3>1. CallSwept(c)
      BY <2>13, SweptCall
    <3>2. UNCHANGED <<schools, account>>
      BY <2>13 DEF Sweep
    <3>3. \A d \in Callers : d # c => call'[d] = call[d]
      BY <3>1 DEF CallSwept
    <3>4. /\ call[c].at = "written"
          /\ call'[c].at = "swept"
          /\ call'[c].kind = call[c].kind
          /\ call'[c].user = call[c].user
      BY <3>1 DEF CallSwept
    <3>5. \A d \in Callers : DisablingCall(d)' => DisablingCall(d)
      BY <3>3, <3>4
    <3>6. ActiveAdmins' = ActiveAdmins
      BY <3>2
    <3> HIDE DEF ActiveAdmins, Sound, TypeOK, NamesExist, Sessions, Calls, Accounts
    <3> QED
      BY <3>2, <3>3, <3>4, <3>5, <3>6
  <2>14. ASSUME NEW c \in Callers, RevokeCommit(c) PROVE DisableInv'
    <3> DEFINE u == call[c].user
    <3>1. /\ call' = [call EXCEPT ![c] = Idle]
          /\ call[c].at = "swept"
          /\ schools' = schools
      BY <2>14 DEF RevokeCommit
    <3>2. /\ u \in Users
          /\ account[u] \in Accounts
          /\ account' = [account EXCEPT ![u] = account'[u]]
          /\ account'[u].admin = account[u].admin
          /\ account'[u].state = IF call[c].kind = "disable" THEN "disabled"
                                 ELSE account[u].state
      BY <2>14, RevokedAccount
    <3>3. ActiveAdmins \ {u} \subseteq ActiveAdmins'
      BY <3>2
    <3>4. call[c].kind # "disable" => ActiveAdmins \subseteq ActiveAdmins'
      BY <3>2
    <3>5. \A d \in Callers : call'[d] # Idle => d # c /\ call'[d] = call[d]
      BY <3>1
    <3>6. \A d \in Callers : DisablingCall(d)' => d # c /\ call'[d] = call[d] /\ DisablingCall(d)
      BY <3>1, <3>5
    <3>7. schools > 0
      BY <3>1
    <3>8. call[c].kind = "disable" => \A d \in Callers : ~DisablingCall(d)'
      BY <3>1, <3>6
    <3>9. ActiveAdmins' # {}
      BY <3>1, <3>3, <3>4, <3>7
    <3>10. \A d \in Callers : DisablingCall(d)' /\ call'[d].at # "disableLocked" =>
              ActiveAdmins' \ {call'[d].user} # {}
      BY <3>4, <3>6, <3>8
    <3> HIDE DEF ActiveAdmins
    <3> QED
      BY <3>1, <3>5, <3>6, <3>7, <3>9, <3>10
  <2>15. ASSUME NEW c \in Callers, NEW u \in Users, NEW admin \in BOOLEAN,
                NEW p \in Passwords, Create(c, u, admin, p)
         PROVE DisableInv'
    BY <2>15 DEF Create, Account
  <2>16. ASSUME NEW c \in Callers, NEW u \in Users, Reactivate(c, u)
         PROVE DisableInv'
    BY <2>16 DEF Reactivate
  <2>17. ASSUME NEW c \in Callers, Fail(c) PROVE DisableInv'
    BY <2>17 DEF Fail
  <2>18. ASSUME NEW t \in Tokens, Expire(t) PROVE DisableInv'
    BY <2>18 DEF Expire
  <2>19. CASE UNCHANGED vars
    BY <2>19 DEF vars
  <2> HIDE DEF Sound, DisableInv
  <2> QED
    BY <2>1, <2>2, <2>3, <2>4, <2>5, <2>6, <2>7, <2>8, <2>9, <2>10, <2>11, <2>12,
       <2>13, <2>14, <2>15, <2>16, <2>17, <2>18, <2>19 DEF Next, Request
<1>3. DisableInv => AdminRemains
  BY DEF DisableInv
<1> QED
  BY <1>1, <1>2, <1>3, SoundAlways, PTL DEF Spec

-----------------------------------------------------------------------------
(* A session that no revocation has met carries the password of its active   *)
(* user; so does a sign-in that no revocation has met.                       *)
SessionInv ==
    /\ \A d \in Callers, t \in Tokens :
          /\ call[d].at = "swept"
          /\ session[t].state = "open"
          /\ session[t].user = call[d].user
          => t \in call[d].swept \/ session[t].raced
    /\ \A d, c \in Callers :
          /\ call[d].at = "swept"
          /\ call[c].at = "signingIn"
          /\ call[c].user = call[d].user
          => c \in racing
    /\ \A c \in Callers : call[c].at = "signingIn" /\ c \notin racing =>
          Holds(call[c].user, call[c].password)
    /\ \A t \in Tokens : session[t].state = "open" /\ ~session[t].raced =>
          Holds(session[t].user, session[t].password)

(* Most steps open no session, start no sign-in, sweep nothing and take no   *)
(* password away.                                                            *)
LEMMA QuietStep ==
    ASSUME TypeOK, SessionInv,
           \A u \in Users, p \in Passwords : Holds(u, p) => Holds(u, p)',
           \A t \in Tokens : session'[t] = session[t] \/ session'[t].state # "open",
           \A d \in Callers : call'[d] = call[d] \/ call'[d].at \notin {"swept", "signingIn"},
           \A d \in Callers : call'[d].at = "signingIn" => (d \in racing' <=> d \in racing)
    PROVE  SessionInv'
<1>1. \A t \in Tokens : session'[t].state = "open" =>
         /\ session'[t] = session[t]
         /\ session[t].user \in Users
         /\ session[t].password \in Passwords
  BY DEF TypeOK, Sessions, NoSession
<1>2. \A d \in Callers : call'[d].at \in {"swept", "signingIn"} => call'[d] = call[d]
  OBVIOUS
<1>3. \A d \in Callers : call[d].at = "signingIn" =>
         call[d].user \in Users /\ call[d].password \in Passwords
  BY DEF TypeOK, Calls, Idle
<1> HIDE DEF Holds
<1> QED
  BY <1>1, <1>2, <1>3 DEF SessionInv

(* What survives a revocation of the sessions is a sign-in that raced it.    *)
THEOREM OnlyRacingSurvive == Spec => []SurvivorRaced
<1>1. Init => SessionInv
  BY DEF Init, SessionInv, Idle, NoSession
<1>2. Sound /\ Sound' /\ SessionInv /\ [Next]_vars => SessionInv'
  <2> SUFFICES ASSUME Sound, Sound', SessionInv, [Next]_vars PROVE SessionInv'
    OBVIOUS
  <2> USE DEF Sound, TypeOK, NamesExist, Calls, Idle, Accounts, Sessions, NoAccount,
              NoSession, tables
  <2> DEFINE Kept == \A u \in Users, p \in Passwords : Holds(u, p) => Holds(u, p)'
             Closing == \A t \in Tokens :
                           session'[t] = session[t] \/ session'[t].state # "open"
             Resting == \A d \in Callers :
                           call'[d] = call[d] \/ call'[d].at \notin {"swept", "signingIn"}
             Racing == \A d \in Callers :
                          call'[d].at = "signingIn" => (d \in racing' <=> d \in racing)
  <2>0. Kept /\ Closing /\ Resting /\ Racing => SessionInv'
    BY QuietStep
  <2>1. ASSUME NEW c \in Callers, NEW u \in Users, NEW p \in Passwords,
               InstallLock(c, u, p)
        PROVE SessionInv'
    <3>1. Kept /\ Closing
      BY <2>1 DEF InstallLock, Installing, Holds
    <3>2. Resting /\ Racing
      BY <2>1 DEF InstallLock, Installing
    <3> QED
      BY <2>0, <3>1, <3>2
  <2>2. ASSUME NEW c \in Callers, InstallCheck(c)
        PROVE SessionInv'
    <3>1. Kept /\ Closing
      BY <2>2 DEF InstallCheck, Holds
    <3>2. Resting /\ Racing
      BY <2>2 DEF InstallCheck
    <3> QED
      BY <2>0, <3>1, <3>2
  <2>3. ASSUME NEW c \in Callers, InstallCommit(c)
        PROVE SessionInv'
    <3>1. Kept /\ Closing
      BY <2>3 DEF InstallCommit, Account, Holds
    <3>2. Resting /\ Racing
      BY <2>3 DEF InstallCommit, Account
    <3> QED
      BY <2>0, <3>1, <3>2
  <2>4. ASSUME NEW c \in Callers, NEW u \in Users, NEW p \in Passwords,
               SignInRead(c, u, p)
        PROVE SessionInv'
    <3>1. /\ call' = [call EXCEPT ![c] = call'[c]]
          /\ call'[c].at = "signingIn"
          /\ call'[c].user = u
          /\ call'[c].password = p
          /\ UNCHANGED <<account, session>>
          /\ Holds(u, p)
      BY <2>4 DEF SignInRead, SigningIn
    <3>2. /\ racing \subseteq racing'
          /\ (\E d \in Callers : call[d].at = "swept" /\ call[d].user = u) => c \in racing'
      BY <2>4 DEF SignInRead, Swept
    <3>3. \A d \in Callers : d # c => call'[d] = call[d]
      BY <3>1
    <3>4. \A v \in Users, q \in Passwords : Holds(v, q)' = Holds(v, q)
      BY <3>1 DEF Holds
    <3>5. \A d \in Callers : call[d].at = "signingIn" =>
             call[d].user \in Users /\ call[d].password \in Passwords
      OBVIOUS
    <3>6. \A e \in Tokens : session[e].state = "open" =>
             session[e].user \in Users /\ session[e].password \in Passwords
      OBVIOUS
    <3> HIDE DEF Sound, TypeOK, NamesExist, Calls, Accounts, Sessions
    <3> QED
      BY <3>1, <3>2, <3>3, <3>4, <3>5, <3>6 DEF SessionInv
  <2>5. ASSUME NEW c \in Callers, NEW t \in Tokens, SignInInsert(c, t)
        PROVE SessionInv'
    <3> USE DEF SessionInv, Holds
    <3>1. /\ session' = [session EXCEPT ![t] = session'[t]]
          /\ session'[t].user = call[c].user
          /\ session'[t].password = call[c].password
          /\ call' = [call EXCEPT ![c] = Idle]
          /\ call[c].at = "signingIn"
          /\ racing' = racing \ {c}
          /\ UNCHANGED account
      BY <2>5 DEF SignInInsert
    <3>6. session'[t].raced = (c \in racing)
      BY <2>5 DEF SignInInsert
    <3>2. \A d \in Callers : call'[d].at = "swept" => d # c /\ call'[d] = call[d]
      BY <3>1
    <3>3. \A d \in Callers : call'[d].at = "signingIn" => d # c /\ call'[d] = call[d]
      BY <3>1
    <3>4. session'[t].raced \/ Holds(session'[t].user, session'[t].password)
      <4>1. CASE c \in racing
        BY <3>6, <4>1, Zenon
      <4>2. CASE c \notin racing
        BY <3>1, <4>2
      <4> QED
        BY <4>1, <4>2
    <3>5. \A d \in Callers : call'[d].at = "swept" /\ session'[t].user = call'[d].user
                             => session'[t].raced
      <4>1. \A d \in Callers : call'[d].at = "swept" /\ session'[t].user = call'[d].user
                               => c \in racing
        <5>1. \A d \in Callers : call[d].at = "swept" /\ call[c].user = call[d].user
                                 => c \in racing
          BY <3>1
        <5> QED
          BY <3>1, <3>2, <5>1
      <4> QED
        BY <3>6, <4>1, Zenon
    <3> QED
      BY <3>1, <3>2, <3>3, <3>4, <3>5
  <2>6. ASSUME NEW c \in Callers, NEW t \in Tokens, Arrive(c, t)
        PROVE SessionInv'
    <3>1. Kept /\ Closing
      BY <2>6 DEF Arrive, Acting, Holds
    <3>2. Resting /\ Racing
      BY <2>6 DEF Arrive, Acting
    <3> QED
      BY <2>0, <3>1, <3>2
  <2>7. ASSUME NEW c \in Callers, Logout(c)
        PROVE SessionInv'
    <3>1. Kept /\ Closing
      BY <2>7 DEF Logout, Holds
    <3>2. Resting /\ Racing
      BY <2>7 DEF Logout
    <3> QED
      BY <2>0, <3>1, <3>2
  <2>8. ASSUME NEW c \in Callers, NEW p \in Passwords, NEW next \in Passwords,
               PasswordRead(c, p, next)
        PROVE SessionInv'
    <3>1. Kept /\ Closing
      BY <2>8 DEF PasswordRead, Revoking, Holds
    <3>2. Resting /\ Racing
      BY <2>8 DEF PasswordRead, Revoking
    <3> QED
      BY <2>0, <3>1, <3>2
  <2>9. ASSUME NEW c \in Callers, PasswordWrite(c)
        PROVE SessionInv'
    <3>1. Kept /\ Closing
      BY <2>9 DEF PasswordWrite, Holds
    <3>2. Resting /\ Racing
      BY <2>9 DEF PasswordWrite
    <3> QED
      BY <2>0, <3>1, <3>2
  <2>10. ASSUME NEW c \in Callers, NEW u \in Users, DisableLock(c, u)
        PROVE SessionInv'
    <3>1. Kept /\ Closing
      BY <2>10 DEF DisableLock, Disabling, Holds
    <3>2. Resting /\ Racing
      BY <2>10 DEF DisableLock, Disabling
    <3> QED
      BY <2>0, <3>1, <3>2
  <2>11. ASSUME NEW c \in Callers, DisableCheck(c)
        PROVE SessionInv'
    <3>1. Kept /\ Closing
      BY <2>11 DEF DisableCheck, Holds
    <3>2. Resting /\ Racing
      BY <2>11 DEF DisableCheck
    <3> QED
      BY <2>0, <3>1, <3>2
  <2>12. ASSUME NEW c \in Callers, DisableWrite(c)
        PROVE SessionInv'
    <3>1. Kept /\ Closing
      BY <2>12 DEF DisableWrite, Revoking, Holds
    <3>2. Resting /\ Racing
      BY <2>12 DEF DisableWrite, Revoking
    <3> QED
      BY <2>0, <3>1, <3>2
  <2>13. ASSUME NEW c \in Callers, Sweep(c) PROVE SessionInv'
    <3>1. CallSwept(c)
      BY <2>13, SweptCall
    <3>2. /\ UNCHANGED tables
          /\ racing \subseteq racing'
          /\ \A d \in Callers : call[d].at = "signingIn" /\ call[d].user = call[c].user
                               => d \in racing'
      BY <2>13 DEF Sweep
    <3>3. \A d \in Callers : d # c => call'[d] = call[d]
      BY <3>1 DEF CallSwept
    <3>4. /\ call'[c].at = "swept"
          /\ call'[c].user = call[c].user
          /\ \A t \in Tokens : session[t].state = "open" /\ session[t].user = call[c].user
                              => t \in call'[c].swept
      BY <3>1 DEF SessionsOf, CallSwept
    <3>5. \A d \in Callers : call'[d].at = "signingIn" => d # c /\ call'[d] = call[d]
      BY <3>3, <3>4
    <3> QED
      BY <3>2, <3>3, <3>4, <3>5 DEF SessionInv, Holds
  <2>14. ASSUME NEW c \in Callers, RevokeCommit(c) PROVE SessionInv'
    <3> DEFINE u == call[c].user
    <3>1. /\ call' = [call EXCEPT ![c] = Idle]
          /\ call[c].at = "swept"
          /\ racing' = racing
      BY <2>14 DEF RevokeCommit
    <3>2. u \in Users /\ account' = [account EXCEPT ![u] = account'[u]]
      BY <2>14, RevokedAccount
    <3>3. \A t \in Tokens : /\ t \in call[c].swept => session'[t].state = "revoked"
                            /\ t \notin call[c].swept => session'[t] = session[t]
      <4>1. session' = [t \in Tokens |-> IF t \in call[c].swept
                                         THEN [session[t] EXCEPT !.state = "revoked"]
                                         ELSE session[t]]
        BY <2>14 DEF RevokeCommit
      <4>2. \A t \in call[c].swept : session[t] \in Sessions
        BY <3>1
      <4> HIDE DEF Calls, Accounts
      <4> QED
        BY <4>1, <4>2
    <3>4. \A d \in Callers : call'[d].at \in {"swept", "signingIn"} => d # c /\ call'[d] = call[d]
      BY <3>1
    <3>5. \A t \in Tokens : session'[t].state = "open" =>
             t \notin call[c].swept /\ session'[t] = session[t]
      BY <3>3
    \* Another user's password stays what it was.
    <3>6. \A v \in Users, p \in Passwords : v # u /\ Holds(v, p) => Holds(v, p)'
      BY <3>2 DEF Holds
    \* What is still open to this user, or about to be, has raced.
    <3>7. \A t \in Tokens : session'[t].state = "open" /\ session'[t].user = u
                             => session'[t].raced
      BY <3>1, <3>5 DEF SessionInv
    <3>8. \A d \in Callers : call'[d].at = "signingIn" /\ call'[d].user = u => d \in racing'
      BY <3>1, <3>4 DEF SessionInv
    <3>9. \A t \in Tokens : session'[t].state = "open" =>
             session'[t].user \in Users /\ session'[t].password \in Passwords
      OBVIOUS
    <3>10. \A d \in Callers : call'[d].at = "signingIn" =>
              call'[d].user \in Users /\ call'[d].password \in Passwords
      OBVIOUS
    <3> HIDE DEF Sound, TypeOK, NamesExist, Calls, Accounts, Sessions, u
    <3>11. \A t \in Tokens : session'[t].state = "open" /\ ~session'[t].raced =>
              Holds(session[t].user, session[t].password)' /\ session'[t] = session[t]
      BY <3>5, <3>6, <3>7, <3>9 DEF SessionInv
    <3>12. \A d \in Callers : call'[d].at = "signingIn" /\ d \notin racing' =>
              Holds(call[d].user, call[d].password)'
      BY <3>1, <3>4, <3>6, <3>8, <3>10 DEF SessionInv
    <3> QED
      BY <3>1, <3>4, <3>5, <3>11, <3>12 DEF SessionInv
  <2>15. ASSUME NEW c \in Callers, NEW u \in Users, NEW admin \in BOOLEAN,
                NEW p \in Passwords, Create(c, u, admin, p)
        PROVE SessionInv'
    <3>1. Kept /\ Closing
      BY <2>15 DEF Create, Account, Holds
    <3>2. Resting /\ Racing
      BY <2>15 DEF Create, Account
    <3> QED
      BY <2>0, <3>1, <3>2
  <2>16. ASSUME NEW c \in Callers, NEW u \in Users, Reactivate(c, u)
        PROVE SessionInv'
    <3>1. Kept /\ Closing
      BY <2>16 DEF Reactivate, Holds
    <3>2. Resting /\ Racing
      BY <2>16 DEF Reactivate
    <3> QED
      BY <2>0, <3>1, <3>2
  <2>17. ASSUME NEW c \in Callers, Fail(c)
        PROVE SessionInv'
    <3>1. Kept /\ Closing
      BY <2>17 DEF Fail, Holds
    <3>2. Resting /\ Racing
      BY <2>17 DEF Fail
    <3> QED
      BY <2>0, <3>1, <3>2
  <2>18. ASSUME NEW t \in Tokens, Expire(t)
        PROVE SessionInv'
    <3>1. Kept /\ Closing
      BY <2>18 DEF Expire, Holds
    <3>2. Resting /\ Racing
      BY <2>18 DEF Expire
    <3> QED
      BY <2>0, <3>1, <3>2
  <2>19. CASE UNCHANGED vars
    BY <2>19 DEF vars, SessionInv, Holds
  <2> HIDE DEF Sound
  <2> QED
    BY <2>1, <2>2, <2>3, <2>4, <2>5, <2>6, <2>7, <2>8, <2>9, <2>10, <2>11, <2>12,
       <2>13, <2>14, <2>15, <2>16, <2>17, <2>18, <2>19 DEF Next, Request
<1>3. Sound /\ SessionInv => SurvivorRaced
  BY DEF Sound, TypeOK, SessionInv, SurvivorRaced, Holds, Sessions, Accounts,
         NoAccount, NoSession
<1> QED
  BY <1>1, <1>2, <1>3, SoundAlways, PTL DEF Spec
=============================================================================
