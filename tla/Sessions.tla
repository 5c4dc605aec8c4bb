-------------------------------- MODULE Sessions --------------------------------
(***************************************************************************)
(* Sessions, refresh-token rotation, password changes and resets of one    *)
(* account: AuthService (auth/auth.service.ts) behind the refresh guard    *)
(* (auth/guards/jwt-refresh.guard.ts) and the local login strategy.        *)
(*                                                                         *)
(* Requests for one account touch only that account's rows, so one account *)
(* is enough.  A session row and the refresh token it stores (hashed) are  *)
(* created and deleted together: one id stands for both.                   *)
(*                                                                         *)
(* Each awaited query is a step of the handler.  A deleteMany inside a     *)
(* transaction takes two: PostgreSQL fixes the rows the statement sees     *)
(* when it starts (READ COMMITTED) and may wait for a row another          *)
(* transaction is deleting; a row inserted meanwhile is not deleted.       *)
(***************************************************************************)
EXTENDS Naturals

CONSTANTS
    Handlers,       \* requests in flight at the same time
    SessionIds,     \* bound: session rows the run may create
    ResetIds,       \* bound: password-reset rows the run may create
    Passwords,      \* bound: secrets the owner may choose, each used once
    None            \* no session, reset or password

ASSUME NoneAssumption == None \notin SessionIds \cup ResetIds \cup Passwords

VARIABLES
    account,    \* User row: absent, active, or deleted (deletedAt set)
    password,   \* the secret passwordHash verifies
    chosen,     \* secrets chosen so far
    sessions,   \* Session rows present
    issued,     \* session ids ever created
    resets,     \* PasswordReset row: free (never created), live, expired, used, gone
    login,      \* history: session -> first session of the login it descends from
    proof,      \* history: session -> the password that login presented
    req,        \* the request each handler is serving
    overlapped  \* history: handlers whose request was not alone all its life

history == <<login, proof>>
tables == <<account, password, chosen, sessions, issued, resets, login, proof>>
vars == <<account, password, chosen, sessions, issued, resets, login, proof,
          req, overlapped>>

--------------------------------------------------------------------------------

Ops == {"idle", "register", "login", "refresh", "logout", "change",
        "requestReset", "reset", "deleteAccount"}

Pcs == {"idle", "createUser", "issue", "user", "rotate", "deleteSession",
        "snapshot", "commit"}

Idle == [op |-> "idle", pc |-> "idle", session |-> None, secret |-> None,
         reset |-> None, seenSessions |-> {}, seenResets |-> {}]

Busy == [op : Ops \ {"idle"}, pc : Pcs \ {"idle"},
         session : SessionIds \cup {None},   \* presented refresh token
         secret : Passwords \cup {None},     \* verified, or new, password
         reset : ResetIds \cup {None},       \* presented reset token
         seenSessions : SUBSET SessionIds,   \* rows the deleteMany sees
         seenResets : SUBSET ResetIds]

HasSecret(op) == op \in {"register", "login", "change", "reset"}

Request == {Idle} \cup {r \in Busy : HasSecret(r.op) => r.secret \in Passwords}

TypeOK ==
    /\ account \in {"absent", "active", "deleted"}
    /\ password \in IF account = "absent" THEN {None} ELSE Passwords
    /\ chosen \in SUBSET Passwords
    /\ sessions \in SUBSET SessionIds
    /\ issued \in SUBSET SessionIds
    /\ resets \in [ResetIds -> {"free", "live", "expired", "used", "gone"}]
    /\ login \in [SessionIds -> SessionIds \cup {None}]
    /\ proof \in [SessionIds -> Passwords \cup {None}]
    /\ req \in [Handlers -> Request]
    /\ overlapped \in SUBSET Handlers

Init ==
    /\ account = "absent"
    /\ password = None
    /\ chosen = {}
    /\ sessions = {}
    /\ issued = {}
    /\ resets = [r \in ResetIds |-> "free"]
    /\ login = [s \in SessionIds |-> None]
    /\ proof = [s \in SessionIds |-> None]
    /\ req = [h \in Handlers |-> Idle]
    /\ overlapped = {}

\* Handler h goes on with request r; r = Idle frees it.
Serve(h, r) ==
    LET others == {g \in Handlers \ {h} : req[g] # Idle}
        shared == IF others = {} THEN overlapped ELSE overlapped \cup others \cup {h}
    IN /\ req' = [req EXCEPT ![h] = r]
       /\ overlapped' = IF r = Idle THEN shared \ {h} ELSE shared

At(h, op, pc) == req[h].op = op /\ req[h].pc = pc
Begin(h, r) == req[h] = Idle /\ Serve(h, r)
Goto(h, pc) == Serve(h, [req[h] EXCEPT !.pc = pc])
Done(h) == Serve(h, Idle)
Abort(h) == Done(h) /\ UNCHANGED tables

\* The client of a request picks a password nobody has picked before.
Choose(p) ==
    /\ p \notin chosen
    /\ chosen' = chosen \cup {p}
    /\ UNCHANGED <<account, password, sessions, issued, resets, history>>

\* Rows present in PasswordReset.
ResetRows == {r \in ResetIds : resets[r] \in {"live", "expired", "used"}}

\* JwtAuthGuard lets in a holder of an access token: tokens have been issued,
\* and one stays valid for a while after its session, or the account, is gone.
HasAccessToken == issued # {}

--------------------------------------------------------------------------------
(* register, login: issueTokens creates the session in a query of its own *)

\* Mutant: the user is created without the password's hash.
StartRegister_NoHash(h, p) ==
    /\ account = "absent"
    /\ Begin(h, [Idle EXCEPT !.op = "register", !.pc = "createUser"])
    /\ Choose(p)

StartRegister(h, p) ==
    /\ account = "absent"
    /\ Begin(h, [Idle EXCEPT !.op = "register", !.pc = "createUser", !.secret = p])
    /\ Choose(p)

\* The unique e-mail decides between two registrations (P2002).
CreateUser(h) ==
    /\ At(h, "register", "createUser")
    /\ \/ /\ account = "absent"
          /\ account' = "active"
          /\ password' = req[h].secret
          /\ Goto(h, "issue")
          /\ UNCHANGED <<chosen, sessions, issued, resets, history>>
       \/ account # "absent" /\ Abort(h)

\* validateUser: reads the row, refuses a deleted account, verifies the hash.
StartLogin(h) ==
    /\ account = "active"
    /\ Begin(h, [Idle EXCEPT !.op = "login", !.pc = "issue", !.secret = password])
    /\ UNCHANGED tables

IssueTokens(h) ==
    /\ req[h].pc = "issue"
    /\ \E s \in SessionIds \ issued :
         /\ sessions' = sessions \cup {s}
         /\ issued' = issued \cup {s}
         /\ login' = [login EXCEPT ![s] = s]
         /\ proof' = [proof EXCEPT ![s] = req[h].secret]
    /\ Done(h)
    /\ UNCHANGED <<account, password, chosen, resets>>

--------------------------------------------------------------------------------
(* refresh, logout, revokeSession *)

\* JwtRefreshGuard: the presented token has a row and its user is not deleted.
RefreshGuard(s) == s \in sessions /\ account = "active"

StartRefresh(h, s) ==
    /\ RefreshGuard(s)
    /\ Begin(h, [Idle EXCEPT !.op = "refresh", !.pc = "user", !.session = s])
    /\ UNCHANGED tables

CheckRefreshUser(h) ==
    /\ At(h, "refresh", "user")
    /\ \/ account = "active" /\ Goto(h, "rotate") /\ UNCHANGED tables
       \/ account # "active" /\ Abort(h)

\* Mutant: a missing row is ignored (deleteMany instead of delete).
CanRotate_Anyway(old) == TRUE

\* One transaction: delete the old row, which must exist (P2025), insert the new.
CanRotate(old) == old \in sessions

\* Mutant: the old row is not deleted.
Rotate_KeepsOld(h) ==
    /\ At(h, "refresh", "rotate")
    /\ \E s \in SessionIds \ issued :
         /\ sessions' = sessions \cup {s}
         /\ issued' = issued \cup {s}
         /\ login' = [login EXCEPT ![s] = login[req[h].session]]
         /\ proof' = [proof EXCEPT ![s] = proof[req[h].session]]
    /\ Done(h)
    /\ UNCHANGED <<account, password, chosen, resets>>

Rotate(h) ==
    LET old == req[h].session IN
    /\ At(h, "refresh", "rotate")
    /\ \/ /\ CanRotate(old)
          /\ \E s \in SessionIds \ issued :
               /\ sessions' = (sessions \ {old}) \cup {s}
               /\ issued' = issued \cup {s}
               /\ login' = [login EXCEPT ![s] = login[old]]
               /\ proof' = [proof EXCEPT ![s] = proof[old]]
          /\ Done(h)
          /\ UNCHANGED <<account, password, chosen, resets>>
       \/ ~CanRotate(old) /\ Abort(h)

StartLogout(h, s) ==
    /\ RefreshGuard(s)
    /\ Begin(h, [Idle EXCEPT !.op = "logout", !.pc = "deleteSession", !.session = s])
    /\ UNCHANGED tables

Logout(h) ==
    /\ At(h, "logout", "deleteSession")
    /\ sessions' = sessions \ {req[h].session}
    /\ Done(h)
    /\ UNCHANGED <<account, password, chosen, issued, resets, history>>

\* One deleteMany by id and user, for a holder of an access token.
RevokeSession(h, s) ==
    /\ HasAccessToken
    /\ s \in sessions
    /\ sessions' = sessions \ {s}
    /\ Begin(h, Idle)
    /\ UNCHANGED <<account, password, chosen, issued, resets, history>>

--------------------------------------------------------------------------------
(* changePassword, requestPasswordReset, resetPassword, deleteAccount *)

\* Verifies the current password, then hashes the new one.
StartChange(h, p) ==
    /\ HasAccessToken
    /\ account = "active"
    /\ Begin(h, [Idle EXCEPT !.op = "change", !.pc = "snapshot", !.secret = p])
    /\ Choose(p)

StartRequestReset(h) ==
    /\ account = "active"
    /\ Begin(h, [Idle EXCEPT !.op = "requestReset", !.pc = "snapshot"])
    /\ UNCHANGED tables

\* Mutant: usedAt is not looked at.
ResetUsable_Again(r) == resets[r] \in {"live", "used"}

\* Reads the reset row: it must be there, unused and not expired.
ResetUsable(r) == resets[r] = "live"

StartReset(h, r, p) ==
    /\ ResetUsable(r)
    /\ Begin(h, [Idle EXCEPT !.op = "reset", !.pc = "snapshot", !.reset = r,
                             !.secret = p])
    /\ Choose(p)

StartDeleteAccount(h) ==
    /\ HasAccessToken
    /\ Begin(h, [Idle EXCEPT !.op = "deleteAccount", !.pc = "snapshot"])
    /\ UNCHANGED tables

\* change and reset update the User row first and hold its lock to the end.
UserRowFree(h) ==
    req[h].op \in {"change", "reset"} =>
        \A g \in Handlers \ {h} :
            ~(req[g].op \in {"change", "reset"} /\ req[g].pc = "commit")

\* Mutant: a password change revokes nothing.
SeenSessions_KeepOnChange(op) ==
    IF op \in {"requestReset", "change"} THEN {} ELSE sessions

\* Mutant: an account deletion revokes nothing.
SeenSessions_KeepOnDelete(op) ==
    IF op \in {"requestReset", "deleteAccount"} THEN {} ELSE sessions

SeenSessions(op) == IF op = "requestReset" THEN {} ELSE sessions

\* The transaction's deleteMany statements fix the rows they will delete.
Snapshot(h) ==
    /\ req[h].pc = "snapshot"
    /\ UserRowFree(h)
    /\ Serve(h, [req[h] EXCEPT
                   !.pc = "commit",
                   !.seenSessions = SeenSessions(req[h].op),
                   !.seenResets = IF req[h].op \in {"requestReset", "deleteAccount"}
                                  THEN ResetRows ELSE {}])
    /\ UNCHANGED tables

CommitChange(h) ==
    /\ At(h, "change", "commit")
    /\ password' = req[h].secret
    /\ sessions' = sessions \ req[h].seenSessions
    /\ Done(h)
    /\ UNCHANGED <<account, chosen, issued, resets, history>>

\* The mail that follows is I/O only.
CommitRequestReset(h) ==
    /\ At(h, "requestReset", "commit")
    /\ \E new \in ResetIds :
         /\ resets[new] = "free"
         /\ resets' = [r \in ResetIds |->
                         IF r = new THEN "live"
                         ELSE IF r \in req[h].seenResets THEN "gone"
                         ELSE resets[r]]
    /\ Done(h)
    /\ UNCHANGED <<account, password, chosen, sessions, issued, history>>

\* Updates the reset row by id: it must exist, whether used meanwhile or not.
CommitReset(h) ==
    /\ At(h, "reset", "commit")
    /\ req[h].reset \in ResetRows
    /\ password' = req[h].secret
    /\ resets' = [resets EXCEPT ![req[h].reset] = "used"]
    /\ sessions' = sessions \ req[h].seenSessions
    /\ Done(h)
    /\ UNCHANGED <<account, chosen, issued, history>>

CommitDeleteAccount(h) ==
    /\ At(h, "deleteAccount", "commit")
    /\ account' = "deleted"
    /\ sessions' = sessions \ req[h].seenSessions
    /\ resets' = [r \in ResetIds |->
                    IF r \in req[h].seenResets THEN "gone" ELSE resets[r]]
    /\ Done(h)
    /\ UNCHANGED <<password, chosen, issued, history>>

\* A missing row (P2025), a deadlock or a lost connection: the statement or the
\* whole transaction is undone, the queries before it are not.
QueryFails(h) == req[h].pc \in {"issue", "rotate", "commit"} /\ Abort(h)

\* expiresAt passes.
ExpireReset(r) ==
    /\ resets[r] = "live"
    /\ resets' = [resets EXCEPT ![r] = "expired"]
    /\ UNCHANGED <<account, password, chosen, sessions, issued, history, req,
                   overlapped>>

--------------------------------------------------------------------------------

Arrive(h) ==
    \/ StartLogin(h)
    \/ StartRequestReset(h)
    \/ StartDeleteAccount(h)
    \/ \E p \in Passwords : StartRegister(h, p) \/ StartChange(h, p)
    \/ \E r \in ResetIds, p \in Passwords : StartReset(h, r, p)
    \/ \E s \in SessionIds : StartRefresh(h, s) \/ StartLogout(h, s) \/ RevokeSession(h, s)

Proceed(h) ==
    \/ CreateUser(h)
    \/ IssueTokens(h)
    \/ CheckRefreshUser(h)
    \/ Rotate(h)
    \/ Logout(h)
    \/ Snapshot(h)
    \/ CommitChange(h)
    \/ CommitRequestReset(h)
    \/ CommitReset(h)
    \/ CommitDeleteAccount(h)
    \/ QueryFails(h)

Next ==
    \/ \E h \in Handlers : Arrive(h) \/ Proceed(h)
    \/ \E r \in ResetIds : ExpireReset(r)

Spec == Init /\ [][Next]_vars

--------------------------------------------------------------------------------
(* Safety *)

\* Rotation never multiplies sessions: however many requests present the same
\* refresh token at once, a login has at most one live token at any time.
OneTokenPerLogin ==
    \A s, t \in sessions : login[s] = login[t] => s = t

\* "Set new password; mark usedAt. Revoke all sessions.": every session row
\* descends from a login that presented the password in force now.
SessionsKnowPassword == \A s \in sessions : proof[s] = password

\* "Soft-delete account; revoke all sessions": none is left behind.
DeletedHasNoSession == account = "deleted" => sessions = {}

Alone == overlapped \cup overlapped' = {}

\* Only a race leaves a session of an old password behind: while one request at a
\* time is served, a password change or reset revokes every session, and no login
\* or refresh brings one with the old password back.
OnlyRacesKeepOldSessions ==
    [][Alone /\ SessionsKnowPassword => SessionsKnowPassword']_vars

\* The same of deleteAccount: only a race leaves it a session.
OnlyRacesKeepDeletedSessions ==
    [][Alone /\ DeletedHasNoSession => DeletedHasNoSession']_vars

\* "PasswordReset tokens are single-use": no reset spends a used one.
ResetsSpendOnce ==
    [][\A h \in Handlers :
         At(h, "reset", "commit") /\ req'[h] = Idle /\ password' # password
         => resets[req[h].reset] # "used"]_vars

\* Only a race spends a token twice: a reset that had the service to itself never
\* spends one that has been used already.
ResetSingleUse ==
    [][\A h \in Handlers \ overlapped :
         /\ At(h, "reset", "commit") /\ req'[h] = Idle
         /\ password' # password
         => resets[req[h].reset] # "used"]_vars

(* Refinement *)

\* A login is open while some token of its chain of rotations is live.
loginStatus ==
    [l \in SessionIds |->
        IF login[l] # l THEN "unborn"
        ELSE IF \E s \in sessions : login[s] = l THEN "open"
        ELSE "closed"]

Lifecycle == INSTANCE LoginLifecycle WITH Logins <- SessionIds, status <- loginStatus

\* No refresh in flight brings back a login that was revoked meanwhile.
LoginsStayClosed == Lifecycle!Spec
================================================================================
