----------------------------- MODULE SessionsProofs -----------------------------
(***************************************************************************)
(* Proofs about Sessions, for every set of handlers, sessions, resets and  *)
(* passwords: a login never has two live tokens, and a login that has lost *)
(* its token never gets one again (Sessions implements LoginLifecycle).    *)
(***************************************************************************)
EXTENDS Sessions, TLAPS

\* Before the account exists nothing hangs on it.
AbsentMeansFresh ==
    account = "absent" =>
        /\ issued = {}
        /\ \A r \in ResetIds : resets[r] = "free"
        /\ \A h \in Handlers : req[h] # Idle => req[h].op = "register" /\ req[h].pc = "createUser"

\* A token descends from a login, which was issued as its own first token.
LoginsRooted ==
    /\ sessions \subseteq issued
    /\ \A s \in issued : login[s] \in issued /\ login[login[s]] = login[s]
    /\ \A s \in SessionIds \ issued : login[s] = None

IInv == TypeOK /\ AbsentMeansFresh /\ LoginsRooted /\ OneTokenPerLogin

--------------------------------------------------------------------------------
(* Types *)

LEMMA IdleType == Idle \in Request
  BY DEF Request

\* A handler at work serves a well-formed request.
LEMMA BusyType ==
    ASSUME NEW r \in Request, r.pc # "idle"
    PROVE  r \in Busy /\ (HasSecret(r.op) => r.secret \in Passwords)
  BY DEF Request, Idle

LEMMA ServeType ==
    ASSUME TypeOK, NEW h \in Handlers, NEW STATE r, r \in Request, Serve(h, r)
    PROVE  req' \in [Handlers -> Request] /\ overlapped' \in SUBSET Handlers
  BY DEF TypeOK, Serve

LEMMA DoneType ==
    ASSUME TypeOK, NEW h \in Handlers, Done(h)
    PROVE  req' \in [Handlers -> Request] /\ overlapped' \in SUBSET Handlers
  BY IdleType, ServeType DEF Done

LEMMA AbortType ==
    ASSUME TypeOK, NEW h \in Handlers, Abort(h)
    PROVE  TypeOK'
  BY DoneType DEF TypeOK, Abort, tables

LEMMA GotoType ==
    ASSUME TypeOK, NEW h \in Handlers, req[h].pc # "idle", NEW pc \in Pcs \ {"idle"},
           Goto(h, pc)
    PROVE  req' \in [Handlers -> Request] /\ overlapped' \in SUBSET Handlers
  <1> DEFINE r == [req[h] EXCEPT !.pc = pc]
  <1>1. req[h] \in Busy /\ (HasSecret(req[h].op) => req[h].secret \in Passwords)
    BY BusyType DEF TypeOK
  <1>2. r \in Busy /\ r.op = req[h].op /\ r.secret = req[h].secret
    BY <1>1 DEF Busy
  <1>3. r \in Request
    BY <1>1, <1>2 DEF Request
  <1> QED
    BY <1>3, ServeType DEF Goto

\* Every step keeps the types; one step of the proof for each action.
LEMMA TypeStep == TypeOK /\ AbsentMeansFresh /\ [Next]_vars => TypeOK'
  <1> SUFFICES ASSUME TypeOK, AbsentMeansFresh, [Next]_vars PROVE TypeOK'
    OBVIOUS
  <1>1. ASSUME NEW h \in Handlers, NEW p \in Passwords, StartRegister(h, p)
        PROVE  TypeOK'
    <2> DEFINE r == [Idle EXCEPT !.op = "register", !.pc = "createUser", !.secret = p]
    <2>1. r \in Request
      BY <1>1 DEF Request, Busy, Idle, HasSecret, Ops, Pcs
    <2> QED
      BY <1>1, <2>1, ServeType DEF StartRegister, Begin, Choose, TypeOK, tables, history
  <1>2. ASSUME NEW h \in Handlers, StartLogin(h)
        PROVE  TypeOK'
    <2> DEFINE r == [Idle EXCEPT !.op = "login", !.pc = "issue", !.secret = password]
    <2>1. r \in Request
      BY <1>2 DEF Request, Busy, Idle, HasSecret, Ops, Pcs, StartLogin, TypeOK
    <2> QED
      BY <1>2, <2>1, ServeType DEF StartLogin, Begin, Choose, TypeOK, tables, history
  <1>3. ASSUME NEW h \in Handlers, NEW s \in SessionIds, StartRefresh(h, s)
        PROVE  TypeOK'
    <2> DEFINE r == [Idle EXCEPT !.op = "refresh", !.pc = "user", !.session = s]
    <2>1. r \in Request
      BY <1>3 DEF Request, Busy, Idle, HasSecret, Ops, Pcs
    <2> QED
      BY <1>3, <2>1, ServeType DEF StartRefresh, Begin, Choose, TypeOK, tables, history
  <1>4. ASSUME NEW h \in Handlers, NEW s \in SessionIds, StartLogout(h, s)
        PROVE  TypeOK'
    <2> DEFINE r == [Idle EXCEPT !.op = "logout", !.pc = "deleteSession", !.session = s]
    <2>1. r \in Request
      BY <1>4 DEF Request, Busy, Idle, HasSecret, Ops, Pcs
    <2> QED
      BY <1>4, <2>1, ServeType DEF StartLogout, Begin, Choose, TypeOK, tables, history
  <1>5. ASSUME NEW h \in Handlers, NEW p \in Passwords, StartChange(h, p)
        PROVE  TypeOK'
    <2> DEFINE r == [Idle EXCEPT !.op = "change", !.pc = "snapshot", !.secret = p]
    <2>1. r \in Request
      BY <1>5 DEF Request, Busy, Idle, HasSecret, Ops, Pcs
    <2> QED
      BY <1>5, <2>1, ServeType DEF StartChange, Begin, Choose, TypeOK, tables, history
  <1>6. ASSUME NEW h \in Handlers, StartRequestReset(h)
        PROVE  TypeOK'
    <2> DEFINE r == [Idle EXCEPT !.op = "requestReset", !.pc = "snapshot"]
    <2>1. r \in Request
      BY <1>6 DEF Request, Busy, Idle, HasSecret, Ops, Pcs
    <2> QED
      BY <1>6, <2>1, ServeType DEF StartRequestReset, Begin, Choose, TypeOK, tables, history
  <1>7. ASSUME NEW h \in Handlers, NEW x \in ResetIds, NEW p \in Passwords, StartReset(h, x, p)
        PROVE  TypeOK'
    <2> DEFINE r == [Idle EXCEPT !.op = "reset", !.pc = "snapshot", !.reset = x,
                                 !.secret = p]
    <2>1. r \in Request
      BY <1>7 DEF Request, Busy, Idle, HasSecret, Ops, Pcs
    <2> QED
      BY <1>7, <2>1, ServeType DEF StartReset, Begin, Choose, TypeOK, tables, history
  <1>8. ASSUME NEW h \in Handlers, StartDeleteAccount(h)
        PROVE  TypeOK'
    <2> DEFINE r == [Idle EXCEPT !.op = "deleteAccount", !.pc = "snapshot"]
    <2>1. r \in Request
      BY <1>8 DEF Request, Busy, Idle, HasSecret, Ops, Pcs
    <2> QED
      BY <1>8, <2>1, ServeType DEF StartDeleteAccount, Begin, Choose, TypeOK, tables, history
  <1>9. ASSUME NEW h \in Handlers, NEW s \in SessionIds, RevokeSession(h, s)
        PROVE  TypeOK'
    BY <1>9, IdleType, ServeType DEF RevokeSession, Begin, TypeOK, history
  <1>10. ASSUME NEW h \in Handlers, CreateUser(h)
        PROVE  TypeOK'
    <2>1. req[h] \in Busy /\ req[h].secret \in Passwords
      BY <1>10, BusyType DEF CreateUser, At, TypeOK, HasSecret
    <2>2. CASE Abort(h)
      BY <2>2, AbortType
    <2>3. CASE ~Abort(h)
      BY <1>10, <2>1, <2>3, GotoType DEF CreateUser, At, TypeOK, history, Pcs
    <2> QED
      BY <2>2, <2>3
  <1>11. ASSUME NEW h \in Handlers, IssueTokens(h)
        PROVE  TypeOK'
    <2>1. req[h] \in Busy
      BY <1>11, BusyType DEF IssueTokens, TypeOK
    <2> QED
      BY <1>11, <2>1, DoneType DEF IssueTokens, TypeOK, Busy
  <1>12. ASSUME NEW h \in Handlers, CheckRefreshUser(h)
        PROVE  TypeOK'
    BY <1>12, GotoType, AbortType DEF CheckRefreshUser, At, TypeOK, tables, Pcs
  <1>13. ASSUME NEW h \in Handlers, Rotate(h)
        PROVE  TypeOK'
    <2>1. CASE Abort(h)
      BY <2>1, AbortType
    <2>2. CASE ~Abort(h)
      BY <1>13, <2>2, DoneType DEF Rotate, CanRotate, TypeOK
    <2> QED
      BY <2>1, <2>2
  <1>14. ASSUME NEW h \in Handlers, Logout(h)
        PROVE  TypeOK'
    BY <1>14, DoneType DEF Logout, TypeOK, history
  <1>15. ASSUME NEW h \in Handlers, Snapshot(h)
        PROVE  TypeOK'
    <2> DEFINE r == [req[h] EXCEPT
                       !.pc = "commit",
                       !.seenSessions = SeenSessions(req[h].op),
                       !.seenResets = IF req[h].op \in {"requestReset", "deleteAccount"}
                                      THEN ResetRows ELSE {}]
    <2>1. /\ req[h] \in Busy
          /\ HasSecret(req[h].op) => req[h].secret \in Passwords
      BY <1>15, BusyType DEF Snapshot, TypeOK
    <2>2. SeenSessions(req[h].op) \in SUBSET SessionIds /\ ResetRows \in SUBSET ResetIds
      BY DEF SeenSessions, ResetRows, TypeOK
    <2>3. r \in Busy /\ r.op = req[h].op /\ r.secret = req[h].secret
      BY <2>1, <2>2 DEF Busy, Pcs
    <2>4. r \in Request
      BY <2>1, <2>3 DEF Request
    <2> QED
      BY <1>15, <2>4, ServeType DEF Snapshot, TypeOK, tables
  <1>16. ASSUME NEW h \in Handlers, CommitChange(h)
        PROVE  TypeOK'
    <2>1. req[h] \in Busy /\ req[h].secret \in Passwords /\ req[h] # Idle
      BY <1>16, BusyType DEF CommitChange, At, TypeOK, HasSecret, Idle
    <2>2. account # "absent"
      BY <1>16, <2>1 DEF CommitChange, At, AbsentMeansFresh
    <2> QED
      BY <1>16, <2>1, <2>2, DoneType DEF CommitChange, TypeOK, history
  <1>17. ASSUME NEW h \in Handlers, CommitReset(h)
        PROVE  TypeOK'
    <2>1. req[h] \in Busy /\ req[h].secret \in Passwords /\ req[h] # Idle
      BY <1>17, BusyType DEF CommitReset, At, TypeOK, HasSecret, Idle
    <2>2. account # "absent"
      BY <1>17, <2>1 DEF CommitReset, At, AbsentMeansFresh
    <2> QED
      BY <1>17, <2>1, <2>2, DoneType DEF CommitReset, TypeOK, history
  <1>18. ASSUME NEW h \in Handlers, CommitRequestReset(h)
        PROVE  TypeOK'
    BY <1>18, DoneType DEF CommitRequestReset, TypeOK, history
  <1>19. ASSUME NEW h \in Handlers, CommitDeleteAccount(h)
        PROVE  TypeOK'
    <2>1. req[h] # Idle
      BY <1>19 DEF CommitDeleteAccount, At, Idle
    <2>2. account # "absent"
      BY <1>19, <2>1 DEF CommitDeleteAccount, At, AbsentMeansFresh
    <2> QED
      BY <1>19, <2>2, DoneType DEF CommitDeleteAccount, TypeOK, history
  <1>20. ASSUME NEW h \in Handlers, QueryFails(h)
        PROVE  TypeOK'
    BY <1>20, AbortType DEF QueryFails
  <1>21. ASSUME NEW x \in ResetIds, ExpireReset(x) PROVE TypeOK'
    BY <1>21 DEF ExpireReset, TypeOK, history
  <1>22. CASE UNCHANGED vars
    BY <1>22 DEF TypeOK, vars
  <1> QED
    BY <1>1, <1>2, <1>3, <1>4, <1>5, <1>6, <1>7, <1>8, <1>9, <1>10, <1>11, <1>12,
        <1>13, <1>14, <1>15, <1>16, <1>17, <1>18, <1>19, <1>20, <1>21, <1>22
       DEF Next, Arrive, Proceed

\* An account that exists stays in the table.
LEMMA AccountStays ==
    ASSUME account # "absent", [Next]_vars
    PROVE  account' # "absent"
  <1>1. CASE \E h \in Handlers : Arrive(h)
    BY <1>1
       DEF Arrive, StartRegister, StartLogin, StartRefresh, StartLogout, RevokeSession,
           StartChange, StartRequestReset, StartReset, StartDeleteAccount, Choose, tables
  <1>2. CASE \E h \in Handlers : Proceed(h)
    BY <1>2
       DEF Proceed, CreateUser, IssueTokens, CheckRefreshUser, Rotate, Logout, Snapshot,
           CommitChange, CommitReset, CommitRequestReset, CommitDeleteAccount,
           QueryFails, Abort, tables
  <1>3. CASE UNCHANGED vars \/ \E r \in ResetIds : ExpireReset(r)
    BY <1>3 DEF vars, ExpireReset
  <1> QED
    BY <1>1, <1>2, <1>3 DEF Next

\* Until the account exists only registrations run.
LEMMA FreshStep == TypeOK /\ AbsentMeansFresh /\ [Next]_vars => AbsentMeansFresh'
  <1> SUFFICES ASSUME TypeOK, AbsentMeansFresh, [Next]_vars, account' = "absent"
               PROVE  AbsentMeansFresh'
    BY DEF AbsentMeansFresh
  <1>1. /\ account = "absent" /\ issued = {}
        /\ \A r \in ResetIds : resets[r] = "free"
        /\ \A h \in Handlers :
             req[h] # Idle => req[h].op = "register" /\ req[h].pc = "createUser"
    BY AccountStays DEF AbsentMeansFresh
  <1>2. ASSUME NEW h \in Handlers, Arrive(h)
        PROVE  AbsentMeansFresh'
    <2>1. PICK p \in Passwords : StartRegister(h, p)
      BY <1>1, <1>2
         DEF Arrive, StartLogin, StartRefresh, StartLogout, RevokeSession, StartChange,
             StartRequestReset, StartReset, ResetUsable, StartDeleteAccount,
             RefreshGuard, HasAccessToken
    <2> DEFINE r == [Idle EXCEPT !.op = "register", !.pc = "createUser", !.secret = p]
    <2>2. r.op = "register" /\ r.pc = "createUser"
      BY DEF Idle
    <2>3. req'[h] = r /\ \A g \in Handlers \ {h} : req'[g] = req[g]
      BY <2>1 DEF StartRegister, Begin, Serve, TypeOK
    <2>4. issued' = issued /\ resets' = resets
      BY <2>1 DEF StartRegister, Choose
    <2> HIDE DEF r
    <2>5. ASSUME account' = "absent", NEW g \in Handlers, req'[g] # Idle
          PROVE  req'[g].op = "register" /\ req'[g].pc = "createUser"
      BY <1>1, <2>2, <2>3, <2>5 DEF AbsentMeansFresh
    <2>6. issued = {} /\ \A i \in ResetIds : resets[i] = "free"
      BY <1>1 DEF AbsentMeansFresh
    <2> QED
      BY <2>4, <2>5, <2>6 DEF AbsentMeansFresh
  <1>3. ASSUME NEW h \in Handlers, Proceed(h)
        PROVE  FALSE
    <2>1. req[h] # Idle
      BY <1>3
         DEF Proceed, CreateUser, IssueTokens, CheckRefreshUser, Rotate, Logout, Snapshot,
             CommitChange, CommitReset, CommitRequestReset, CommitDeleteAccount,
             QueryFails, At, Idle
    <2>2. req[h].op = "register" /\ req[h].pc = "createUser"
      BY <1>1, <2>1
    <2>3. CreateUser(h)
      BY <1>3, <2>2
         DEF Proceed, IssueTokens, CheckRefreshUser, Rotate, Logout, Snapshot,
             CommitChange, CommitReset, CommitRequestReset, CommitDeleteAccount,
             QueryFails, At
    <2> QED
      BY <1>1, <2>3 DEF CreateUser
  <1>4. CASE UNCHANGED vars
    BY <1>4 DEF vars, AbsentMeansFresh
  <1> QED
    BY <1>1, <1>2, <1>3, <1>4 DEF Next, ExpireReset

--------------------------------------------------------------------------------
(* Logins *)

\* What a step can do to the session table: delete rows, create the first row of
\* a new login, or replace one row by its successor.
Deletes == sessions' \subseteq sessions /\ UNCHANGED <<issued, login>>

Creates(s) ==
    /\ s \in SessionIds \ issued
    /\ sessions' = sessions \cup {s}
    /\ issued' = issued \cup {s}
    /\ login' = [login EXCEPT ![s] = s]

Replaces(old, s) ==
    /\ old \in sessions /\ s \in SessionIds \ issued
    /\ sessions' = (sessions \ {old}) \cup {s}
    /\ issued' = issued \cup {s}
    /\ login' = [login EXCEPT ![s] = login[old]]

LEMMA SessionSteps ==
    ASSUME TypeOK, [Next]_vars
    PROVE  \/ Deletes
           \/ \E s \in SessionIds : Creates(s)
           \/ \E old, s \in SessionIds : Replaces(old, s)
  <1>1. CASE \E h \in Handlers : Arrive(h)
    BY <1>1
       DEF Arrive, StartRegister, StartLogin, StartRefresh, StartLogout, RevokeSession,
           StartChange, StartRequestReset, StartReset, StartDeleteAccount, Choose, tables,
           history, Deletes
  <1>2. ASSUME NEW h \in Handlers, IssueTokens(h)
        PROVE  \E s \in SessionIds : Creates(s)
    BY <1>2 DEF IssueTokens, Creates
  <1>3. ASSUME NEW h \in Handlers, Rotate(h)
        PROVE  Deletes \/ \E old, s \in SessionIds : Replaces(old, s)
    <2>1. CASE CanRotate(req[h].session) /\ ~Abort(h)
      <3>1. PICK s \in SessionIds \ issued :
              /\ sessions' = (sessions \ {req[h].session}) \cup {s}
              /\ issued' = issued \cup {s}
              /\ login' = [login EXCEPT ![s] = login[req[h].session]]
        BY <1>3, <2>1 DEF Rotate
      <3>2. req[h].session \in SessionIds /\ Replaces(req[h].session, s)
        BY <2>1, <3>1 DEF CanRotate, Replaces, TypeOK
      <3> QED
        BY <3>2
    <2>2. CASE Abort(h)
      BY <2>2 DEF Abort, tables, Deletes
    <2> QED
      BY <1>3, <2>1, <2>2 DEF Rotate
  <1>4. ASSUME NEW h \in Handlers, Proceed(h), ~IssueTokens(h), ~Rotate(h)
        PROVE  Deletes
    BY <1>4
       DEF Proceed, CreateUser, CheckRefreshUser, Logout, Snapshot, CommitChange,
           CommitReset, CommitRequestReset, CommitDeleteAccount, QueryFails, Abort, tables,
           history, Deletes
  <1>5. CASE UNCHANGED vars \/ \E r \in ResetIds : ExpireReset(r)
    BY <1>5 DEF vars, ExpireReset, history, Deletes
  <1> QED
    BY <1>1, <1>2, <1>3, <1>4, <1>5 DEF Next

\* The new row of a rotation takes the place of the old one in its login.
LEMMA LoginsStep ==
    ASSUME IInv, [Next]_vars
    PROVE  LoginsRooted' /\ OneTokenPerLogin'
  <1> USE DEF IInv, TypeOK, LoginsRooted, OneTokenPerLogin
  <1>1. CASE Deletes
    BY <1>1 DEF Deletes
  <1>2. ASSUME NEW s \in SessionIds, Creates(s)
        PROVE  LoginsRooted' /\ OneTokenPerLogin'
    BY <1>2, NoneAssumption DEF Creates
  <1>3. ASSUME NEW old \in SessionIds, NEW s \in SessionIds, Replaces(old, s)
        PROVE  LoginsRooted' /\ OneTokenPerLogin'
    BY <1>3, NoneAssumption DEF Replaces
  <1> QED
    BY <1>1, <1>2, <1>3, SessionSteps

LEMMA InvInit == Init => IInv
  BY IdleType DEF Init, IInv, TypeOK, AbsentMeansFresh, LoginsRooted, OneTokenPerLogin

LEMMA InvStep == IInv /\ [Next]_vars => IInv'
  BY TypeStep, FreshStep, LoginsStep DEF IInv

LEMMA Invariance == Spec => []IInv
  BY InvInit, InvStep, PTL DEF Spec

--------------------------------------------------------------------------------
(* The refinement *)

Open(l) == \E s \in sessions : login[s] = l

LEMMA LifecycleInit == Init => Lifecycle!Init
  BY NoneAssumption DEF Init, Lifecycle!Init, loginStatus

\* Losing rows closes the logins left without one.
LEMMA DeletesCloses ==
    ASSUME IInv, Deletes
    PROVE  \E closing \in SUBSET SessionIds : Lifecycle!Close(closing)
  <1> DEFINE closing == {l \in SessionIds : login[l] = l /\ Open(l) /\ ~Open(l)'}
  <1>1. \A l \in closing : loginStatus[l] = "open"
    BY DEF loginStatus, Open
  <1>2. \A l \in SessionIds : Open(l)' => Open(l)
    BY DEF Deletes, Open
  <1>3. loginStatus' = [l \in SessionIds |-> IF l \in closing THEN "closed"
                                                            ELSE loginStatus[l]]
    BY <1>2 DEF loginStatus, Open, Deletes
  <1> QED
    BY <1>1, <1>3 DEF Lifecycle!Close

\* Extensionality, for one changed point of a function.
LEMMA OnePointChanged ==
    ASSUME NEW S, NEW f, NEW g, NEW x \in S, NEW v,
           f = [y \in S |-> f[y]], g = [y \in S |-> g[y]],
           \A y \in S : g[y] = IF y = x THEN v ELSE f[y]
    PROVE  g = [f EXCEPT ![x] = v]
  <1> DEFINE e == [f EXCEPT ![x] = v]
  <1>1. e = [y \in S |-> IF y = x THEN v ELSE f[y]]
    OBVIOUS
  <1> QED
    BY <1>1

\* The first row of a login opens it and touches no other.
LEMMA CreatesOpens ==
    ASSUME IInv, NEW s \in SessionIds, Creates(s)
    PROVE  Lifecycle!Open(s)
  <1> USE DEF IInv, TypeOK, LoginsRooted
  <1>1. login[s] # s /\ s \notin sessions /\ login'[s] = s /\ s \in sessions'
    BY NoneAssumption DEF Creates
  <1>2. \A l \in SessionIds \ {s} : login'[l] = login[l] /\ (Open(l)' <=> Open(l))
    BY <1>1 DEF Creates, Open
  <1>3. \A l \in SessionIds :
          loginStatus'[l] = IF l = s THEN "open" ELSE loginStatus[l]
    <2>1. loginStatus'[s] = "open"
      BY <1>1 DEF loginStatus
    <2>2. \A l \in SessionIds \ {s} : loginStatus'[l] = loginStatus[l]
      BY <1>2 DEF loginStatus, Open
    <2> QED
      BY <2>1, <2>2
  <1>4. loginStatus' = [loginStatus EXCEPT ![s] = "open"]
    <2>1. /\ loginStatus = [l \in SessionIds |-> loginStatus[l]]
          /\ loginStatus' = [l \in SessionIds |-> loginStatus'[l]]
      BY DEF loginStatus
    <2> QED
      BY <1>3, <2>1, OnePointChanged
  <1>5. loginStatus[s] = "unborn"
    BY <1>1 DEF loginStatus
  <1> QED
    BY <1>4, <1>5 DEF Lifecycle!Open

\* The successor of a row keeps its login open, and is no login itself.
LEMMA ReplacesStutters ==
    ASSUME IInv, NEW old \in SessionIds, NEW s \in SessionIds, Replaces(old, s)
    PROVE  loginStatus' = loginStatus
  <1> USE DEF IInv, TypeOK, LoginsRooted
  <1>1. /\ old # s /\ s \notin sessions /\ s \in sessions'
        /\ login[s] # s /\ login'[s] = login[old] /\ login'[s] # s
    BY NoneAssumption DEF Replaces
  <1>2. \A l \in SessionIds \ {s} : login'[l] = login[l]
    BY DEF Replaces
  <1>3. \A l \in SessionIds : Open(l)' <=> Open(l)
    BY <1>1, <1>2 DEF Replaces, Open
  <1> QED
    BY <1>1, <1>2, <1>3 DEF loginStatus, Open

LEMMA LifecycleStep == IInv /\ [Next]_vars => [Lifecycle!Next]_loginStatus
  <1> SUFFICES ASSUME IInv, [Next]_vars PROVE [Lifecycle!Next]_loginStatus
    OBVIOUS
  <1>1. CASE Deletes
    BY <1>1, DeletesCloses DEF Lifecycle!Next
  <1>2. ASSUME NEW s \in SessionIds, Creates(s) PROVE Lifecycle!Next
    BY <1>2, CreatesOpens DEF Lifecycle!Next
  <1>3. ASSUME NEW old \in SessionIds, NEW s \in SessionIds, Replaces(old, s)
        PROVE  loginStatus' = loginStatus
    BY <1>3, ReplacesStutters
  <1> QED
    BY <1>1, <1>2, <1>3, SessionSteps DEF IInv

--------------------------------------------------------------------------------
(* The theorems *)

\* Type correctness: an account that exists has a password, and every row and
\* request keeps the shape the code gives it.
THEOREM TypeCorrect == Spec => []TypeOK
  BY Invariance, PTL DEF IInv

\* Requests that present the same refresh token at once never multiply a login.
THEOREM OneTokenPerLoginAlways == Spec => []OneTokenPerLogin
  BY Invariance, PTL DEF IInv

\* Sessions implements LoginLifecycle: a login that was logged out, revoked or
\* swept away never has a live token again, whatever refreshes were on their way.
THEOREM LoginsStayClosedAlways == Spec => LoginsStayClosed
  BY Invariance, LifecycleInit, LifecycleStep, PTL
     DEF Spec, LoginsStayClosed, Lifecycle!Spec

--------------------------------------------------------------------------------
(* Requests that are alone *)

\* What the checks of request r have found holds of the account ac, its password
\* pw, the sessions ss and the resets rs.
StillTrue(r, ac, pw, ss, rs) ==
    /\ r.pc = "issue" => ac = "active" /\ r.secret = pw
    /\ r.pc = "commit" /\ r.op # "requestReset" => ss \subseteq r.seenSessions
    /\ r.op = "reset" => rs[r.reset] # "used"

\* A request that has been alone so far is alone, and may rely on its checks:
\* any other that takes a step meanwhile marks it as overlapped.
AloneOK ==
    \A h \in Handlers \ overlapped :
        req[h] # Idle =>
            /\ \A g \in Handlers \ {h} : req[g] = Idle
            /\ StillTrue(req[h], account, password, sessions, resets)

\* If a handler is busy and unmarked after a step, the step was its own, the
\* handler was unmarked before it and all others rest.
LEMMA ServeAlone ==
    ASSUME TypeOK, NEW h \in Handlers, NEW STATE r, Serve(h, r),
           NEW k \in Handlers, req'[k] # Idle, k \notin overlapped'
    PROVE  /\ k = h /\ req'[h] = r /\ h \notin overlapped
           /\ \A g \in Handlers \ {h} : req'[g] = Idle
  <1> DEFINE others == {g \in Handlers \ {h} : req[g] # Idle}
             shared == IF others = {} THEN overlapped ELSE overlapped \cup others \cup {h}
  <1>1. /\ overlapped' = IF r = Idle THEN shared \ {h} ELSE shared
        /\ req' = [req EXCEPT ![h] = r]
    BY DEF Serve
  <1>2. req'[h] = r /\ \A g \in Handlers \ {h} : req'[g] = req[g]
    BY <1>1 DEF TypeOK
  <1>3. k = h
    <2> SUFFICES ASSUME k # h PROVE FALSE
      OBVIOUS
    <2>1. k \in others
      BY <1>2
    <2>2. k \in shared
      BY <2>1
    <2> QED
      BY <1>1, <2>2
  <1>4. r # Idle /\ h \notin shared
    BY <1>1, <1>2, <1>3
  <1>5. others = {} /\ h \notin overlapped
    BY <1>4
  <1> QED
    BY <1>2, <1>3, <1>5

\* A step of h keeps AloneOK if what h relies on afterwards holds, given that h
\* relied on its checks before.
LEMMA AloneStep ==
    ASSUME TypeOK, AloneOK, NEW h \in Handlers, NEW STATE r, Serve(h, r),
           \/ r = Idle
           \/ h \in overlapped
           \/ StillTrue(r, account', password', sessions', resets')
    PROVE  AloneOK'
  <1> SUFFICES ASSUME NEW k \in Handlers, k \notin overlapped', req'[k] # Idle
               PROVE  /\ \A g \in Handlers \ {k} : req'[g] = Idle
                      /\ StillTrue(req'[k], account', password', sessions', resets')
    BY DEF AloneOK
  <1>1. /\ k = h /\ req'[h] = r /\ h \notin overlapped
        /\ \A g \in Handlers \ {h} : req'[g] = Idle
    BY ServeAlone
  <1> QED
    BY <1>1

LEMMA AloneDone ==
    ASSUME TypeOK, AloneOK, NEW h \in Handlers, Done(h)
    PROVE  AloneOK'
  BY AloneStep DEF Done

\* What an unmarked busy handler has checked is still so.
LEMMA ChecksHold ==
    ASSUME AloneOK, NEW h \in Handlers, h \notin overlapped, req[h].pc # "idle"
    PROVE  StillTrue(req[h], account, password, sessions, resets)
  BY DEF AloneOK, Idle

LEMMA AloneArrive ==
    ASSUME TypeOK, AloneOK, NEW h \in Handlers, Arrive(h)
    PROVE  AloneOK'
  <1>1. ASSUME NEW p \in Passwords, StartRegister(h, p)
        PROVE  AloneOK'
    <2> DEFINE r == [Idle EXCEPT !.op = "register", !.pc = "createUser", !.secret = p]
    <2>1. StillTrue(r, account', password', sessions', resets')
      BY DEF StillTrue, Idle
    <2> QED
      BY <1>1, <2>1, AloneStep DEF StartRegister, Begin
  <1>2. CASE StartLogin(h)
    <2> DEFINE r == [Idle EXCEPT !.op = "login", !.pc = "issue", !.secret = password]
    <2>1. StillTrue(r, account', password', sessions', resets')
      BY <1>2 DEF StillTrue, Idle, StartLogin, tables
    <2> QED
      BY <1>2, <2>1, AloneStep DEF StartLogin, Begin
  <1>3. ASSUME NEW s \in SessionIds, StartRefresh(h, s)
        PROVE  AloneOK'
    <2> DEFINE r == [Idle EXCEPT !.op = "refresh", !.pc = "user", !.session = s]
    <2>1. StillTrue(r, account', password', sessions', resets')
      BY DEF StillTrue, Idle
    <2> QED
      BY <1>3, <2>1, AloneStep DEF StartRefresh, Begin
  <1>4. ASSUME NEW s \in SessionIds, StartLogout(h, s)
        PROVE  AloneOK'
    <2> DEFINE r == [Idle EXCEPT !.op = "logout", !.pc = "deleteSession", !.session = s]
    <2>1. StillTrue(r, account', password', sessions', resets')
      BY DEF StillTrue, Idle
    <2> QED
      BY <1>4, <2>1, AloneStep DEF StartLogout, Begin
  <1>5. ASSUME NEW p \in Passwords, StartChange(h, p)
        PROVE  AloneOK'
    <2> DEFINE r == [Idle EXCEPT !.op = "change", !.pc = "snapshot", !.secret = p]
    <2>1. StillTrue(r, account', password', sessions', resets')
      BY DEF StillTrue, Idle
    <2> QED
      BY <1>5, <2>1, AloneStep DEF StartChange, Begin
  <1>6. CASE StartRequestReset(h)
    <2> DEFINE r == [Idle EXCEPT !.op = "requestReset", !.pc = "snapshot"]
    <2>1. StillTrue(r, account', password', sessions', resets')
      BY DEF StillTrue, Idle
    <2> QED
      BY <1>6, <2>1, AloneStep DEF StartRequestReset, Begin
  <1>7. ASSUME NEW x \in ResetIds, NEW p \in Passwords, StartReset(h, x, p)
        PROVE  AloneOK'
    <2> DEFINE r == [Idle EXCEPT !.op = "reset", !.pc = "snapshot", !.reset = x,
                                 !.secret = p]
    <2>1. StillTrue(r, account', password', sessions', resets')
      BY <1>7 DEF StillTrue, Idle, StartReset, ResetUsable, Choose
    <2> QED
      BY <1>7, <2>1, AloneStep DEF StartReset, Begin
  <1>8. CASE StartDeleteAccount(h)
    <2> DEFINE r == [Idle EXCEPT !.op = "deleteAccount", !.pc = "snapshot"]
    <2>1. StillTrue(r, account', password', sessions', resets')
      BY DEF StillTrue, Idle
    <2> QED
      BY <1>8, <2>1, AloneStep DEF StartDeleteAccount, Begin
  <1>9. ASSUME NEW s \in SessionIds, RevokeSession(h, s)
        PROVE  AloneOK'
    BY <1>9, AloneStep DEF RevokeSession, Begin
  <1> QED
    BY <1>1, <1>2, <1>3, <1>4, <1>5, <1>6, <1>7, <1>8, <1>9 DEF Arrive

LEMMA AloneProceed ==
    ASSUME TypeOK, AloneOK, NEW h \in Handlers, Proceed(h)
    PROVE  AloneOK'
  <1>1. CASE Done(h)
    BY <1>1, AloneDone
  <1>2. CASE CreateUser(h) /\ ~Done(h)
    <2> DEFINE r == [req[h] EXCEPT !.pc = "issue"]
    <2>1. req[h] \in Busy /\ req[h].op = "register"
      BY <1>2, BusyType DEF CreateUser, At, TypeOK
    <2>2. Serve(h, r) /\ account' = "active" /\ password' = req[h].secret
      BY <1>2 DEF CreateUser, Goto, Abort
    <2>3. StillTrue(r, account', password', sessions', resets')
      BY <2>1, <2>2 DEF StillTrue, Busy
    <2> QED
      BY <2>2, <2>3, AloneStep
  <1>3. CASE CheckRefreshUser(h) /\ ~Done(h)
    <2> DEFINE r == [req[h] EXCEPT !.pc = "rotate"]
    <2>1. req[h] \in Busy /\ req[h].op = "refresh"
      BY <1>3, BusyType DEF CheckRefreshUser, At, TypeOK
    <2>2. Serve(h, r)
      BY <1>3 DEF CheckRefreshUser, Goto, Abort
    <2>3. StillTrue(r, account', password', sessions', resets')
      BY <2>1 DEF StillTrue, Busy
    <2> QED
      BY <2>2, <2>3, AloneStep
  <1>4. CASE Snapshot(h)
    <2> DEFINE q == req[h]
               r == [q EXCEPT
                       !.pc = "commit",
                       !.seenSessions = SeenSessions(q.op),
                       !.seenResets = IF q.op \in {"requestReset", "deleteAccount"}
                                      THEN ResetRows ELSE {}]
    <2>1. q \in Busy
      BY <1>4, BusyType DEF Snapshot, TypeOK
    <2>2. Serve(h, r) /\ UNCHANGED <<sessions, resets>>
      BY <1>4 DEF Snapshot, tables
    <2>3. /\ r.pc = "commit" /\ r.op = q.op /\ r.reset = q.reset
          /\ r.seenSessions = SeenSessions(q.op)
      BY <2>1 DEF Busy
    <2>4. h \notin overlapped /\ q.op = "reset" => resets[q.reset] # "used"
      BY <1>4, ChecksHold DEF Snapshot, StillTrue
    <2>5. h \notin overlapped => StillTrue(r, account', password', sessions', resets')
      BY <2>2, <2>3, <2>4 DEF StillTrue, SeenSessions
    <2> QED
      BY <2>2, <2>5, AloneStep
  <1> QED
    BY <1>1, <1>2, <1>3, <1>4
       DEF Proceed, IssueTokens, CreateUser, CheckRefreshUser, Rotate, Logout, CommitChange,
           CommitReset, CommitRequestReset, CommitDeleteAccount, QueryFails, Abort

\* A reset that expires was not used, and no request minds.
LEMMA AloneExpire ==
    ASSUME TypeOK, AloneOK, NEW x \in ResetIds, ExpireReset(x)
    PROVE  AloneOK'
  <1>1. \A r : StillTrue(r, account, password, sessions, resets)
                 => StillTrue(r, account', password', sessions', resets')
    BY DEF ExpireReset, StillTrue, TypeOK
  <1> QED
    BY <1>1 DEF AloneOK, ExpireReset

LEMMA AloneInvariance == Spec => []AloneOK
  <1>1. Init => AloneOK
    BY DEF Init, AloneOK
  <1>2. IInv /\ AloneOK /\ [Next]_vars => AloneOK'
    <2>1. AloneOK /\ UNCHANGED vars => AloneOK'
      BY DEF AloneOK, vars
    <2> QED
      BY <2>1, AloneArrive, AloneProceed, AloneExpire DEF Next, IInv
  <1> QED
    BY <1>1, <1>2, Invariance, PTL DEF Spec

--------------------------------------------------------------------------------
(* Only races *)

\* The steps that create sessions or change the password or the account; any
\* other deletes sessions at most.
LEMMA OtherSteps ==
    ASSUME [Next]_vars,
           \A h \in Handlers : ~CreateUser(h) /\ ~IssueTokens(h) /\ ~Rotate(h)
                /\ ~CommitChange(h) /\ ~CommitReset(h) /\ ~CommitDeleteAccount(h)
    PROVE  sessions' \subseteq sessions /\ UNCHANGED <<account, password, proof>>
  <1>1. CASE \E h \in Handlers : Arrive(h)
    BY <1>1
       DEF Arrive, StartRegister, StartLogin, StartRefresh, StartLogout, RevokeSession,
           StartChange, StartRequestReset, StartReset, StartDeleteAccount, Choose, tables,
           history
  <1>2. CASE \E h \in Handlers : Proceed(h)
    BY <1>2
       DEF Proceed, CheckRefreshUser, Logout, Snapshot, CommitRequestReset, QueryFails,
           Abort, tables, history
  <1>3. CASE UNCHANGED vars \/ \E r \in ResetIds : ExpireReset(r)
    BY <1>3 DEF vars, ExpireReset, history
  <1> QED
    BY <1>1, <1>2, <1>3 DEF Next

\* A transaction that commits alone deletes every session.
LEMMA CommitClears ==
    ASSUME AloneOK, Alone, NEW h \in Handlers,
           CommitChange(h) \/ CommitReset(h) \/ CommitDeleteAccount(h)
    PROVE  sessions' = {}
  <1>1. req[h].pc = "commit" /\ req[h].op # "requestReset" /\ h \notin overlapped
    BY DEF CommitChange, CommitReset, CommitDeleteAccount, At, Alone
  <1>2. sessions \subseteq req[h].seenSessions
    BY <1>1, ChecksHold DEF StillTrue
  <1> QED
    BY <1>2 DEF CommitChange, CommitReset, CommitDeleteAccount

\* The tokens of a login or registration that is alone are for an active account
\* and the password in force.
LEMMA IssueFresh ==
    ASSUME AloneOK, Alone, NEW h \in Handlers, IssueTokens(h)
    PROVE  account = "active" /\ req[h].secret = password
  BY ChecksHold DEF Alone, IssueTokens, StillTrue

\* A password change or reset served alone leaves no session of an old password,
\* and nothing served alone brings one back.
THEOREM OnlyRacesKeepOldSessionsAlways == Spec => OnlyRacesKeepOldSessions
  <1> DEFINE A == Alone /\ SessionsKnowPassword => SessionsKnowPassword'
  <1>1. IInv /\ AloneOK /\ [Next]_vars => [A]_vars
    <2> SUFFICES ASSUME IInv, AloneOK, [Next]_vars, Alone, SessionsKnowPassword
                 PROVE  SessionsKnowPassword'
      OBVIOUS
    <2>1. ASSUME NEW h \in Handlers,
                 CommitChange(h) \/ CommitReset(h) \/ CommitDeleteAccount(h)
          PROVE  SessionsKnowPassword'
      BY <2>1, CommitClears DEF SessionsKnowPassword
    <2>2. ASSUME NEW h \in Handlers, CreateUser(h)
          PROVE  SessionsKnowPassword'
      <3>1. CASE Abort(h)
        BY <3>1 DEF Abort, tables, SessionsKnowPassword
      <3>2. CASE account = "absent"
        <4>1. sessions = {}
          BY <3>2 DEF IInv, AbsentMeansFresh, LoginsRooted
        <4> QED
          BY <2>2, <4>1 DEF CreateUser, Abort, tables, SessionsKnowPassword
      <3> QED
        BY <2>2, <3>1, <3>2 DEF CreateUser
    <2>3. ASSUME NEW h \in Handlers, IssueTokens(h)
          PROVE  SessionsKnowPassword'
      BY <2>3, IssueFresh DEF IssueTokens, SessionsKnowPassword, IInv, TypeOK
    <2>4. ASSUME NEW h \in Handlers, Rotate(h)
          PROVE  SessionsKnowPassword'
      <3>1. CASE Abort(h)
        BY <3>1 DEF Abort, tables, SessionsKnowPassword
      <3>2. CASE ~Abort(h)
        BY <2>4, <3>2 DEF Rotate, CanRotate, SessionsKnowPassword, IInv, TypeOK
      <3> QED
        BY <3>1, <3>2
    <2>5. CASE sessions' \subseteq sessions /\ UNCHANGED <<account, password, proof>>
      BY <2>5 DEF SessionsKnowPassword
    <2> QED
      BY <2>1, <2>2, <2>3, <2>4, <2>5, OtherSteps
  <1> QED
    BY <1>1, Invariance, AloneInvariance, PTL DEF Spec, OnlyRacesKeepOldSessions

\* An account deleted by a request served alone has no session, and nothing
\* served alone gives it one.
THEOREM OnlyRacesKeepDeletedSessionsAlways == Spec => OnlyRacesKeepDeletedSessions
  <1> DEFINE A == Alone /\ DeletedHasNoSession => DeletedHasNoSession'
  <1>1. IInv /\ AloneOK /\ [Next]_vars => [A]_vars
    <2> SUFFICES ASSUME IInv, AloneOK, [Next]_vars, Alone, DeletedHasNoSession
                 PROVE  DeletedHasNoSession'
      OBVIOUS
    <2>1. ASSUME NEW h \in Handlers,
                 CommitChange(h) \/ CommitReset(h) \/ CommitDeleteAccount(h)
          PROVE  DeletedHasNoSession'
      BY <2>1, CommitClears DEF DeletedHasNoSession
    <2>2. ASSUME NEW h \in Handlers, CreateUser(h)
          PROVE  DeletedHasNoSession'
      BY <2>2 DEF CreateUser, Abort, tables, DeletedHasNoSession
    <2>3. ASSUME NEW h \in Handlers, IssueTokens(h)
          PROVE  DeletedHasNoSession'
      BY <2>3, IssueFresh DEF IssueTokens, DeletedHasNoSession
    <2>4. ASSUME NEW h \in Handlers, Rotate(h)
          PROVE  DeletedHasNoSession'
      BY <2>4 DEF Rotate, CanRotate, Abort, tables, DeletedHasNoSession
    <2>5. CASE sessions' \subseteq sessions /\ UNCHANGED <<account, password, proof>>
      BY <2>5 DEF DeletedHasNoSession
    <2> QED
      BY <2>1, <2>2, <2>3, <2>4, <2>5, OtherSteps
  <1> QED
    BY <1>1, Invariance, AloneInvariance, PTL DEF Spec, OnlyRacesKeepDeletedSessions

\* A reset served alone spends a token that nobody has used.
THEOREM ResetSingleUseAlways == Spec => ResetSingleUse
  <1> DEFINE A == \A h \in Handlers \ overlapped :
                    /\ At(h, "reset", "commit") /\ req'[h] = Idle
                    /\ password' # password
                    => resets[req[h].reset] # "used"
  <1>1. AloneOK => A
    BY ChecksHold DEF At, StillTrue
  <1> QED
    BY <1>1, AloneInvariance, PTL DEF ResetSingleUse

================================================================================
