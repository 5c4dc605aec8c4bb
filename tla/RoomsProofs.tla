------------------------------ MODULE RoomsProofs ------------------------------
(***************************************************************************)
(* Proofs about Rooms, and then about RoomChannels on top of it, for every *)
(* set of users, handlers, ban ids and connections.                        *)
(*                                                                         *)
(* The owner's safety is not inductive by itself: a kick decides on roles  *)
(* that it has read one after the other, and deletes later.  What makes it *)
(* safe is that OWNER is given only when the room is created, so that a    *)
(* request that has seen its target without OWNER never meets it with      *)
(* OWNER (RequestOK), and that nothing is in flight before the creation.   *)
(***************************************************************************)
EXTENDS RoomChannels, TLAPS

\* What request r relies on while it waits, when the room is rm and the roles
\* are rl.
RequestOK(r, rm, rl) ==
    /\ rm.status = "absent" => r = Idle
    /\ r.pc \in {"remove", "banTx"} => rl[r.target] # "OWNER"
    /\ r.pc = "reads" /\ r.targetRole \notin {"unread", "OWNER"}
         => rl[r.target] # "OWNER"
    /\ r.pc \in {"target", "setRole"} =>
         r.actor = rm.ownerId
    /\ r.pc = "deleteRoom" => r.actor = rm.ownerId

RequestsOK == \A h \in Handlers : RequestOK(req[h], room, role)

IInv == TypeOK /\ NoRowsWithoutRoom /\ OwnerIsCreator /\ RequestsOK

\* What every step but CreateRoom and DeleteRoom's own writes leaves in place.
OwnerStable ==
    /\ room.status # "absent" /\ room'.status # "absent"
    /\ room'.ownerId = room.ownerId
    /\ \A u \in Users : role'[u] = "OWNER" => role[u] = "OWNER"

--------------------------------------------------------------------------------
(* Types *)

LEMMA IdleType == Idle \in Request
  BY DEF Request

\* A waiting handler serves a request of two users, with an argument that fits.
LEMMA BusyType ==
    ASSUME NEW r \in Request, r.pc # "idle"
    PROVE  r \in Busy /\ r.arg \in ArgsAt(r.pc)
  BY DEF Request, Idle

\* Where any argument fits, a request is well formed if its fields are.
LEMMA FreeArgument ==
    ASSUME NEW r \in Busy, r.pc \notin {"update", "target", "setRole"}
    PROVE  r \in Request
  BY DEF Request, Busy, ArgsAt

\* Going on with a well-formed request keeps the handlers well formed.
LEMMA ServeType ==
    ASSUME TypeOK, NEW h \in Handlers, NEW STATE r, r \in Request, Serve(h, r)
    PROVE  req' \in [Handlers -> Request] /\ overlapped' \in SUBSET Handlers
  BY DEF TypeOK, Serve

LEMMA AbortType ==
    ASSUME TypeOK, NEW h \in Handlers, Abort(h)
    PROVE  TypeOK'
  BY IdleType, ServeType DEF TypeOK, Abort, tables

LEMMA BeginType ==
    ASSUME TypeOK, NEW h \in Handlers, NEW a \in Users, NEW t \in Users,
           NEW op \in Ops \ {"idle"}, NEW pc \in Pcs \ {"idle"},
           NEW arg \in ArgsAt(pc), Begin(h, op, a, t, arg, pc)
    PROVE  req' \in [Handlers -> Request] /\ overlapped' \in SUBSET Handlers
  <1> DEFINE r == [Idle EXCEPT !.op = op, !.actor = a, !.target = t, !.arg = arg, !.pc = pc]
  <1>1. r \in Busy /\ r.arg \in ArgsAt(r.pc)
    BY DEF Busy, Idle, ArgsAt
  <1>2. r \in Request
    BY <1>1 DEF Request
  <1> QED
    BY <1>2, ServeType DEF Begin

LEMMA GotoType ==
    ASSUME TypeOK, NEW h \in Handlers, req[h].pc # "idle",
           NEW STATE pc, pc \in Pcs \ {"idle", "update", "target", "setRole"}, Goto(h, pc)
    PROVE  req' \in [Handlers -> Request] /\ overlapped' \in SUBSET Handlers
  <1> DEFINE r == [req[h] EXCEPT !.pc = pc]
  <1>1. req[h] \in Busy
    BY BusyType DEF TypeOK
  <1>2. r \in Busy /\ r.pc = pc
    BY <1>1 DEF Busy
  <1>3. r \in Request
    BY <1>2, FreeArgument
  <1> QED
    BY <1>3, ServeType DEF Goto

LEMMA FinishType ==
    ASSUME TypeOK, NEW h \in Handlers, req[h].pc # "idle", Finish(h)
    PROVE  req' \in [Handlers -> Request] /\ overlapped' \in SUBSET Handlers
  <1> DEFINE r == [Idle EXCEPT !.op = req[h].op, !.actor = req[h].actor,
                               !.target = req[h].target, !.pc = "done"]
  <1>1. req[h] \in Busy
    BY BusyType DEF TypeOK
  <1>2. r \in Busy /\ r.pc = "done"
    BY <1>1 DEF Busy, Idle, Pcs
  <1>3. r \in Request
    BY <1>2, FreeArgument
  <1> QED
    BY <1>3, ServeType DEF Finish

LEMMA TypeInit == Init => TypeOK
  BY IdleType DEF Init, TypeOK, RoomRow, RoleOrNone, Roles

\* Every step keeps the types; one step of the proof for each action.
LEMMA TypeStep == TypeOK /\ [Next]_vars => TypeOK'
  <1> SUFFICES ASSUME TypeOK, [Next]_vars PROVE TypeOK'
    OBVIOUS
  <1>1. ASSUME NEW h \in Handlers, NEW a \in Users, NEW v \in {"public", "private"},
               CreateRoom(h, a, v)
        PROVE  TypeOK'
    BY <1>1, BeginType DEF CreateRoom, TypeOK, Ops, Pcs, ArgsAt, RoomRow, RoleOrNone, Roles
  <1>2. ASSUME NEW h \in Handlers, NEW a \in Users, NEW v \in {"public", "private"},
               StartUpdate(h, a, v)
        PROVE  TypeOK'
    BY <1>2, BeginType DEF StartUpdate, TypeOK, Ops, Pcs, ArgsAt, tables
  <1>3. ASSUME NEW h \in Handlers, NEW a \in Users, StartDelete(h, a)
        PROVE  TypeOK'
    BY <1>3, BeginType DEF StartDelete, TypeOK, Ops, Pcs, ArgsAt, tables
  <1>4. ASSUME NEW h \in Handlers, NEW a \in Users, StartJoin(h, a)
        PROVE  TypeOK'
    BY <1>4, BeginType DEF StartJoin, TypeOK, Ops, Pcs, ArgsAt, tables
  <1>5. ASSUME NEW h \in Handlers, NEW a \in Users, StartLeave(h, a)
        PROVE  TypeOK'
    BY <1>5, BeginType DEF StartLeave, TypeOK, Ops, Pcs, ArgsAt, tables
  <1>6. ASSUME NEW h \in Handlers, NEW a \in Users, NEW t \in Users,
               StartInvite(h, a, t)
        PROVE  TypeOK'
    BY <1>6, BeginType DEF StartInvite, TypeOK, Ops, Pcs, ArgsAt, tables
  <1>7. ASSUME NEW h \in Handlers, NEW a \in Users, NEW t \in Users,
               NEW op \in {"kick", "ban"}, StartHierarchy(h, op, a, t)
        PROVE  TypeOK'
    <2>1. PICK first \in BOOLEAN :
            Serve(h, [Idle EXCEPT !.op = op, !.actor = a, !.target = t, !.pc = "reads",
                        !.actorRole = IF first THEN role[a] ELSE "unread",
                        !.targetRole = IF first THEN "unread" ELSE role[t]])
      BY <1>7 DEF StartHierarchy
    <2> DEFINE r == [Idle EXCEPT !.op = op, !.actor = a, !.target = t, !.pc = "reads",
                       !.actorRole = IF first THEN role[a] ELSE "unread",
                       !.targetRole = IF first THEN "unread" ELSE role[t]]
    <2>2. role[a] \in RoleOrNone /\ role[t] \in RoleOrNone
      BY DEF TypeOK
    <2>3. r \in Busy /\ r.pc = "reads"
      BY <2>2 DEF Busy, Idle, Ops, Pcs
    <2>4. r \in Request
      BY <2>3, FreeArgument
    <2> QED
      BY <1>7, <2>1, <2>4, ServeType DEF StartHierarchy, TypeOK, tables
  <1>8. ASSUME NEW h \in Handlers, NEW a \in Users, NEW t \in Users,
               StartUnban(h, a, t)
        PROVE  TypeOK'
    BY <1>8, BeginType DEF StartUnban, TypeOK, Ops, Pcs, ArgsAt, tables
  <1>9. ASSUME NEW h \in Handlers, NEW a \in Users, NEW t \in Users,
               NEW newRole \in {"ADMIN", "MEMBER"}, StartSetRole(h, a, t, newRole)
        PROVE  TypeOK'
    BY <1>9, BeginType DEF StartSetRole, TypeOK, Ops, Pcs, ArgsAt, tables
  <1>10. ASSUME NEW h \in Handlers, CheckNotBanned(h)
        PROVE  TypeOK'
    BY <1>10, GotoType, AbortType DEF CheckNotBanned, At, TypeOK, Pcs, tables
  <1>11. ASSUME NEW h \in Handlers, CheckNotMember(h)
        PROVE  TypeOK'
    BY <1>11, GotoType, AbortType DEF CheckNotMember, At, TypeOK, Pcs, tables
  <1>12. ASSUME NEW h \in Handlers, InsertMembership(h)
        PROVE  TypeOK'
    BY <1>12, FinishType, AbortType DEF InsertMembership, At, TypeOK, RoleOrNone, Roles
  <1>13. ASSUME NEW h \in Handlers, FinishReads(h)
        PROVE  TypeOK'
    <2> DEFINE pc == IF req[h].op = "kick" THEN "remove" ELSE "banTx"
               r == [req[h] EXCEPT !.pc = pc, !.actorRole = "unread",
                                   !.targetRole = "unread"]
    <2>1. req[h] \in Busy
      BY <1>13, BusyType DEF FinishReads, At, TypeOK
    <2>2. r \in Busy /\ r.pc \in {"remove", "banTx"}
      BY <2>1 DEF Busy, Pcs
    <2>3. r \in Request
      BY <2>2, FreeArgument
    <2> QED
      BY <1>13, <2>3, ServeType, AbortType DEF FinishReads, TypeOK, tables
  <1>14. ASSUME NEW h \in Handlers, RemoveMembership(h)
        PROVE  TypeOK'
    BY <1>14, FinishType, AbortType DEF RemoveMembership, At, TypeOK, RoleOrNone
  <1>15. ASSUME NEW h \in Handlers, BanTransaction(h)
        PROVE  TypeOK'
    BY <1>15, FinishType, AbortType DEF BanTransaction, At, TypeOK, RoleOrNone, FreeBanIds
  <1>16. ASSUME NEW h \in Handlers, FindBan(h)
        PROVE  TypeOK'
    <2>1. req[h] \in Busy
      BY <1>16, BusyType DEF FindBan, At, TypeOK
    <2>2. ASSUME NEW b \in bans[req[h].target]
          PROVE  [req[h] EXCEPT !.banRow = b, !.pc = "lift"] \in Request
      <3> DEFINE r == [req[h] EXCEPT !.banRow = b, !.pc = "lift"]
      <3>1. b \in BanIds
        BY <2>1 DEF TypeOK, Busy
      <3>2. r \in Busy /\ r.pc = "lift"
        BY <2>1, <3>1 DEF Busy, Pcs
      <3> QED
        BY <3>2, FreeArgument
    <2> QED
      BY <1>16, <2>2, ServeType, AbortType DEF FindBan, TypeOK, tables
  <1>17. ASSUME NEW h \in Handlers, LiftBan(h)
        PROVE  TypeOK'
    <2>1. req[h] \in Busy
      BY <1>17, BusyType DEF LiftBan, At, TypeOK
    <2>2. req[h].target \in Users
      BY <2>1 DEF Busy
    <2> QED
      BY <1>17, <2>2, FinishType, AbortType DEF LiftBan, At, TypeOK
  <1>18. ASSUME NEW h \in Handlers, ReadSetRoleTarget(h)
        PROVE  TypeOK'
    <2> DEFINE r == [req[h] EXCEPT !.pc = "setRole"]
    <2>1. CASE Abort(h)
      BY <2>1, AbortType
    <2>2. CASE Goto(h, "setRole") /\ UNCHANGED tables
      <3>1. req[h] \in Busy /\ req[h].arg \in {"ADMIN", "MEMBER"}
        BY <1>18, BusyType DEF ReadSetRoleTarget, At, TypeOK, ArgsAt
      <3>2. r \in Busy /\ r.arg \in ArgsAt(r.pc)
        BY <3>1 DEF Busy, Pcs, ArgsAt
      <3>3. r \in Request
        BY <3>2 DEF Request
      <3> QED
        BY <2>2, <3>3, ServeType DEF Goto, TypeOK, tables
    <2> QED
      BY <1>18, <2>1, <2>2 DEF ReadSetRoleTarget
  <1>19. ASSUME NEW h \in Handlers, WriteRole(h)
        PROVE  TypeOK'
    <2>1. CASE Abort(h)
      BY <2>1, AbortType
    <2>2. CASE ~Abort(h)
      <3>1. req[h].arg \in {"ADMIN", "MEMBER"}
        BY <1>19, BusyType DEF WriteRole, At, TypeOK, ArgsAt
      <3> QED
        BY <1>19, <2>2, <3>1, FinishType DEF WriteRole, At, TypeOK, RoleOrNone, Roles
    <2> QED
      BY <2>1, <2>2
  <1>20. ASSUME NEW h \in Handlers, UpdateRoom(h)
        PROVE  TypeOK'
    <2>1. CASE Abort(h)
      BY <2>1, AbortType
    <2>2. CASE ~Abort(h)
      <3>1. req[h].arg \in {"public", "private"}
        BY <1>20, BusyType DEF UpdateRoom, At, TypeOK, ArgsAt
      <3>2. room' \in RoomRow
        BY <1>20, <2>2, <3>1 DEF UpdateRoom, TypeOK, RoomRow
      <3> QED
        BY <1>20, <2>2, <3>2, FinishType DEF UpdateRoom, At, TypeOK
    <2> QED
      BY <2>1, <2>2
  <1>21. ASSUME NEW h \in Handlers, DeleteRoom(h)
        PROVE  TypeOK'
    BY <1>21, FinishType, AbortType DEF DeleteRoom, At, TypeOK, RoomRow, RoleOrNone
  <1>22. ASSUME NEW h \in Handlers, Reply(h)
        PROVE  TypeOK'
    BY <1>22, AbortType DEF Reply
  <1>23. CASE UNCHANGED vars
    BY <1>23 DEF TypeOK, vars
  <1> QED
    BY <1>1, <1>2, <1>3, <1>4, <1>5, <1>6, <1>7, <1>8, <1>9, <1>10, <1>11,
       <1>12, <1>13, <1>14, <1>15, <1>16, <1>17, <1>18, <1>19, <1>20, <1>21, <1>22, <1>23
       DEF Next, Arrive, Proceed, StartKick, StartBan

\* Type correctness: every row and request keeps the shape the code gives it.
THEOREM TypeCorrect == Spec => []TypeOK
  BY TypeInit, TypeStep, PTL DEF Spec

--------------------------------------------------------------------------------
(* The owner *)

\* The only request a step changes is its handler's.
LEMMA ServeOne ==
    ASSUME TypeOK, NEW h \in Handlers, NEW STATE r, Serve(h, r)
    PROVE  req'[h] = r /\ \A g \in Handlers \ {h} : req'[g] = req[g]
  BY DEF TypeOK, Serve

\* Every action serves one handler.
LEMMA ServeOthers ==
    ASSUME TypeOK, NEW h \in Handlers, Arrive(h) \/ Proceed(h) \/ Reply(h)
    PROVE  \A g \in Handlers \ {h} : req'[g] = req[g]
  <1>1. \A r : Serve(h, r) => \A g \in Handlers \ {h} : req'[g] = req[g]
    BY DEF TypeOK, Serve
  <1>2. CASE Arrive(h)
    BY <1>1, <1>2
       DEF Arrive, Begin, Goto, Abort, Finish, CreateRoom, StartUpdate,
           StartDelete, StartJoin, StartLeave, StartInvite, StartKick, StartBan,
           StartHierarchy, StartUnban, StartSetRole
  <1>3. CASE Proceed(h)
    BY <1>1, <1>3
       DEF Proceed, Goto, Abort, Finish, CheckNotBanned, CheckNotMember,
           InsertMembership, FinishReads, RemoveMembership, BanTransaction, FindBan,
           LiftBan, ReadSetRoleTarget, WriteRole, UpdateRoom, DeleteRoom
  <1>4. CASE Reply(h)
    BY <1>1, <1>4 DEF Reply, Abort
  <1> QED BY <1>2, <1>3, <1>4

\* OWNER is never given in an existing room, so what the requests in flight rely
\* on stays true; a step has to establish it for its own request alone.
LEMMA Undisturbed ==
    ASSUME IInv, OwnerStable, NEW h \in Handlers,
           \A g \in Handlers \ {h} : req'[g] = req[g],
           RequestOK(req'[h], room', role')
    PROVE  RequestsOK'
  <1> SUFFICES ASSUME NEW g \in Handlers
               PROVE  RequestOK(req'[g], room', role')
    BY DEF RequestsOK
  <1>1. CASE g = h
    BY <1>1
  <1>2. CASE g # h
    <2>1. req'[g] = req[g] /\ RequestOK(req[g], room, role)
      BY <1>2 DEF IInv, RequestsOK
    <2>2. CASE req[g] = Idle
      BY <2>1, <2>2 DEF RequestOK, Idle
    <2>3. CASE req[g] # Idle
      <3>1. req[g].target \in Users
        BY <2>3 DEF IInv, TypeOK, Request, Busy
      <3> QED
        BY <2>1, <2>3, <3>1 DEF RequestOK, OwnerStable
    <2> QED
      BY <2>2, <2>3
  <1> QED
    BY <1>1, <1>2

\* A freed handler and one that has committed rely on nothing.
LEMMA RestOK ==
    ASSUME NEW rm, NEW rl
    PROVE  /\ RequestOK(Idle, rm, rl)
           /\ \A r \in Busy : r.pc = "done" /\ rm.status # "absent" => RequestOK(r, rm, rl)
  BY DEF RequestOK, Idle, Busy

\* ROLE_RANK compared: nobody reaches or outranks an owner but an owner, or nobody.
LEMMA Ranks ==
    ASSUME NEW r \in RoleOrNone, NEW s \in RoleOrNone
    PROVE  /\ AtLeast(r, "OWNER") => r = "OWNER"
           /\ AtLeast(r, "ADMIN") => r # "NONE"
           /\ Outranks(r, s) => s # "OWNER" /\ s # "NONE"
  BY DEF RoleOrNone, Roles, AtLeast, Outranks, ROLE_RANK

\* Whoever has a membership is in an existing room.
LEMMA MemberMeansPresent ==
    ASSUME IInv, NEW u \in Users, role[u] # "NONE"
    PROVE  room.status = "present"
  BY DEF IInv, NoRowsWithoutRoom, IsMember

\* A handler at work is in a room that has been created.
LEMMA BusyMeansCreated ==
    ASSUME IInv, NEW h \in Handlers, req[h].pc # "idle"
    PROVE  /\ room.status # "absent"
           /\ req[h] \in Busy
           /\ RequestOK(req[h], room, role)
  BY BusyType DEF IInv, TypeOK, RequestsOK, RequestOK, Idle

\* A step that leaves the tables alone leaves the owner alone.
LEMMA TablesStable ==
    ASSUME IInv, room.status # "absent", UNCHANGED tables
    PROVE  OwnerStable
  BY DEF OwnerStable, tables

LEMMA AbortOK ==
    ASSUME IInv, room.status # "absent", NEW h \in Handlers, Abort(h)
    PROVE  OwnerStable /\ RequestOK(req'[h], room', role')
  BY TablesStable, ServeOne, RestOK DEF Abort, IInv

LEMMA BeginOK ==
    ASSUME IInv, room.status # "absent", NEW h \in Handlers, NEW a \in Users,
           NEW t \in Users, NEW op, NEW STATE arg, NEW pc,
           Begin(h, op, a, t, arg, pc), UNCHANGED tables,
           pc \notin {"reads", "banTx"},
           pc = "remove" => role[t] # "OWNER",
           pc \in {"target", "setRole", "deleteRoom"} => a = room.ownerId
    PROVE  OwnerStable /\ RequestOK(req'[h], room', role')
  <1> DEFINE r == [Idle EXCEPT !.op = op, !.actor = a, !.target = t, !.arg = arg, !.pc = pc]
  <1>1. r.pc = pc /\ r.target = t /\ r.actor = a
    BY DEF Idle
  <1>2. req'[h] = r
    BY ServeOne DEF Begin, IInv
  <1> QED
    BY <1>1, <1>2, TablesStable DEF RequestOK, tables

LEMMA GotoOK ==
    ASSUME IInv, NEW h \in Handlers, req[h].pc # "idle",
           NEW STATE pc, pc \in {"ban", "member", "insert"}, Goto(h, pc), UNCHANGED tables
    PROVE  OwnerStable /\ RequestOK(req'[h], room', role')
  <1>1. req'[h].pc = pc
    BY BusyMeansCreated, ServeOne DEF Goto, IInv, Busy
  <1> QED
    BY <1>1, BusyMeansCreated, TablesStable DEF RequestOK, tables

LEMMA FinishOK ==
    ASSUME IInv, NEW h \in Handlers, Finish(h), room'.status # "absent"
    PROVE  RequestOK(req'[h], room', role')
  <1> DEFINE r == [Idle EXCEPT !.op = req[h].op, !.actor = req[h].actor,
                               !.target = req[h].target, !.pc = "done"]
  <1>1. r.pc = "done"
    BY DEF Idle
  <1>2. req'[h] = r
    BY ServeOne DEF Finish, IInv
  <1> QED
    BY <1>1, <1>2 DEF RequestOK

\* Every action but CreateRoom, one step of the proof for each.
LEMMA OtherStep ==
    ASSUME IInv, NEW h \in Handlers, Arrive(h) \/ Proceed(h) \/ Reply(h),
           ~ \E a \in Users, v \in {"public", "private"} : CreateRoom(h, a, v)
    PROVE  OwnerStable /\ RequestOK(req'[h], room', role')
  <1>1. ASSUME NEW a \in Users, NEW v \in {"public", "private"},
               StartUpdate(h, a, v)
        PROVE  OwnerStable /\ RequestOK(req'[h], room', role')
    <2>1. role[a] = "OWNER"
      BY <1>1, Ranks DEF StartUpdate, IInv, TypeOK
    <2> QED
      BY <1>1, <2>1, MemberMeansPresent, BeginOK DEF StartUpdate
  <1>2. ASSUME NEW a \in Users, StartDelete(h, a)
        PROVE  OwnerStable /\ RequestOK(req'[h], room', role')
    <2>1. role[a] = "OWNER" /\ a = room.ownerId
      BY <1>2, Ranks DEF StartDelete, IInv, TypeOK, OwnerIsCreator
    <2> QED
      BY <1>2, <2>1, MemberMeansPresent, BeginOK DEF StartDelete
  <1>3. ASSUME NEW a \in Users, StartJoin(h, a)
        PROVE  OwnerStable /\ RequestOK(req'[h], room', role')
    BY <1>3, BeginOK DEF StartJoin
  <1>4. ASSUME NEW a \in Users, StartLeave(h, a)
        PROVE  OwnerStable /\ RequestOK(req'[h], room', role')
    BY <1>4, MemberMeansPresent, BeginOK DEF StartLeave, IsMember
  <1>5. ASSUME NEW a \in Users, NEW t \in Users,
               StartInvite(h, a, t)
        PROVE  OwnerStable /\ RequestOK(req'[h], room', role')
    <2>1. role[a] # "NONE"
      BY <1>5, Ranks DEF StartInvite, IInv, TypeOK
    <2> QED
      BY <1>5, <2>1, MemberMeansPresent, BeginOK DEF StartInvite
  <1>6. ASSUME NEW a \in Users, NEW t \in Users,
               NEW op \in {"kick", "ban"}, StartHierarchy(h, op, a, t)
        PROVE  OwnerStable /\ RequestOK(req'[h], room', role')
    <2>1. PICK first \in BOOLEAN :
            Serve(h, [Idle EXCEPT !.op = op, !.actor = a, !.target = t, !.pc = "reads",
                        !.actorRole = IF first THEN role[a] ELSE "unread",
                        !.targetRole = IF first THEN "unread" ELSE role[t]])
      BY <1>6 DEF StartHierarchy
    <2> DEFINE r == [Idle EXCEPT !.op = op, !.actor = a, !.target = t, !.pc = "reads",
                       !.actorRole = IF first THEN role[a] ELSE "unread",
                       !.targetRole = IF first THEN "unread" ELSE role[t]]
    <2>2. r.pc = "reads" /\ r.target = t /\ r.targetRole \in {"unread", role[t]}
      BY DEF Idle
    <2>3. req'[h] = r
      BY <2>1, ServeOne DEF IInv
    <2>4. /\ req'[h].pc = "reads"
          /\ req'[h].target = t
          /\ req'[h].targetRole \in {"unread", role[t]}
      BY <2>2, <2>3
    <2>5. role' = role /\ room' = room /\ room.status # "absent"
      BY <1>6 DEF StartHierarchy, tables
    <2> QED
      BY <1>6, <2>4, <2>5, TablesStable DEF StartHierarchy, RequestOK
  <1>7. ASSUME NEW a \in Users, NEW t \in Users,
               StartUnban(h, a, t)
        PROVE  OwnerStable /\ RequestOK(req'[h], room', role')
    <2>1. role[a] # "NONE"
      BY <1>7, Ranks DEF StartUnban, IInv, TypeOK
    <2> QED
      BY <1>7, <2>1, MemberMeansPresent, BeginOK DEF StartUnban
  <1>8. ASSUME NEW a \in Users, NEW t \in Users,
               NEW newRole \in {"ADMIN", "MEMBER"}, StartSetRole(h, a, t, newRole)
        PROVE  OwnerStable /\ RequestOK(req'[h], room', role')
    <2>1. a = room.ownerId /\ role[a] # "NONE"
      BY <1>8 DEF StartSetRole, MaySetRole, IInv, OwnerIsCreator
    <2> QED
      BY <1>8, <2>1, MemberMeansPresent, BeginOK DEF StartSetRole
  <1>9. ASSUME CheckNotBanned(h)
        PROVE  OwnerStable /\ RequestOK(req'[h], room', role')
    BY <1>9, BusyMeansCreated, AbortOK, GotoOK DEF CheckNotBanned, At
  <1>10. ASSUME CheckNotMember(h)
        PROVE  OwnerStable /\ RequestOK(req'[h], room', role')
    BY <1>10, BusyMeansCreated, AbortOK, GotoOK DEF CheckNotMember, At
  <1>11. ASSUME InsertMembership(h)
        PROVE  OwnerStable /\ RequestOK(req'[h], room', role')
    <2>1. CASE Abort(h)
      BY <1>11, <2>1, BusyMeansCreated, AbortOK DEF InsertMembership, At
    <2>2. CASE ~Abort(h)
      <3>1. OwnerStable
        BY <1>11, <2>2 DEF InsertMembership, CanInsert, OwnerStable, IInv, TypeOK
      <3> QED
        BY <1>11, <2>2, <3>1, FinishOK DEF InsertMembership, At, OwnerStable
    <2> QED
      BY <2>1, <2>2
  <1>12. ASSUME FinishReads(h)
        PROVE  OwnerStable /\ RequestOK(req'[h], room', role')
    <2> DEFINE r == req[h]
               actorRole == IF r.actorRole = "unread" THEN role[r.actor] ELSE r.actorRole
               targetRole == IF r.targetRole = "unread" THEN role[r.target] ELSE r.targetRole
               next == [r EXCEPT !.pc = IF r.op = "kick" THEN "remove" ELSE "banTx",
                                 !.actorRole = "unread", !.targetRole = "unread"]
    <2>1. CASE Abort(h)
      BY <1>12, <2>1, BusyMeansCreated, AbortOK DEF FinishReads, At
    <2>2. CASE ~Abort(h)
      <3>1. /\ r.pc = "reads" /\ Serve(h, next) /\ UNCHANGED tables
            /\ KickAllowed(actorRole, targetRole) \/ BanAllowed(actorRole, targetRole)
        BY <1>12, <2>2 DEF FinishReads, At
      <3>2. r \in Busy /\ RequestOK(r, room, role) /\ room.status # "absent"
        BY <3>1, BusyMeansCreated
      <3>3. actorRole \in RoleOrNone /\ targetRole \in RoleOrNone
        BY <3>2 DEF Busy, IInv, TypeOK
      <3>4. targetRole # "OWNER"
        BY <3>1, <3>3, Ranks DEF KickAllowed, BanAllowed
      <3>5. role[r.target] # "OWNER"
        BY <3>1, <3>2, <3>4 DEF RequestOK
      <3>6. /\ next.pc \in {"remove", "banTx"} /\ next.target = r.target
            /\ req'[h] = next /\ role' = role /\ room' = room
        BY <3>1, <3>2, ServeOne DEF Busy, IInv, tables
      <3>7. RequestOK(next, room, role)
        BY <3>2, <3>5, <3>6 DEF RequestOK
      <3> QED
        BY <3>1, <3>2, <3>6, <3>7, TablesStable
    <2> QED
      BY <2>1, <2>2
  <1>13. ASSUME RemoveMembership(h)
        PROVE  OwnerStable /\ RequestOK(req'[h], room', role')
    <2>1. room.status # "absent"
      BY <1>13, BusyMeansCreated DEF RemoveMembership, At
    <2>2. CASE Abort(h)
      BY <2>1, <2>2, AbortOK
    <2>3. CASE ~Abort(h)
      <3>1. OwnerStable
        BY <1>13, <2>1, <2>3 DEF RemoveMembership, OwnerStable, IInv, TypeOK
      <3> QED
        BY <1>13, <2>3, <3>1, FinishOK DEF RemoveMembership, At, OwnerStable
    <2> QED
      BY <2>2, <2>3
  <1>14. ASSUME BanTransaction(h)
        PROVE  OwnerStable /\ RequestOK(req'[h], room', role')
    <2>1. room.status # "absent"
      BY <1>14, BusyMeansCreated DEF BanTransaction, At
    <2>2. CASE Abort(h)
      BY <2>1, <2>2, AbortOK
    <2>3. CASE ~Abort(h)
      <3>1. OwnerStable
        BY <1>14, <2>1, <2>3 DEF BanTransaction, OwnerStable, IInv, TypeOK
      <3> QED
        BY <1>14, <2>3, <3>1, FinishOK DEF BanTransaction, At, OwnerStable
    <2> QED
      BY <2>2, <2>3
  <1>15. ASSUME FindBan(h)
        PROVE  OwnerStable /\ RequestOK(req'[h], room', role')
    <2>1. room.status # "absent" /\ req[h] \in Busy
      BY <1>15, BusyMeansCreated DEF FindBan, At
    <2>2. CASE Abort(h)
      BY <2>1, <2>2, AbortOK
    <2>3. CASE ~Abort(h)
      <3>1. PICK b : Serve(h, [req[h] EXCEPT !.banRow = b, !.pc = "lift"])
        BY <1>15, <2>3 DEF FindBan
      <3> DEFINE r == [req[h] EXCEPT !.banRow = b, !.pc = "lift"]
      <3>2. r.pc = "lift" /\ UNCHANGED tables
        BY <1>15, <2>1, <2>3 DEF FindBan, Busy
      <3>3. req'[h] = r
        BY <3>1, ServeOne DEF IInv
      <3> QED
        BY <2>1, <3>2, <3>3, TablesStable DEF RequestOK, tables
    <2> QED
      BY <2>2, <2>3
  <1>16. ASSUME LiftBan(h)
        PROVE  OwnerStable /\ RequestOK(req'[h], room', role')
    <2>1. room.status # "absent"
      BY <1>16, BusyMeansCreated DEF LiftBan, At
    <2>2. CASE Abort(h)
      BY <2>1, <2>2, AbortOK
    <2>3. CASE ~Abort(h)
      BY <1>16, <2>1, <2>3, FinishOK DEF LiftBan, At, OwnerStable
    <2> QED
      BY <2>2, <2>3
  <1>17. ASSUME ReadSetRoleTarget(h)
        PROVE  OwnerStable /\ RequestOK(req'[h], room', role')
    <2>1. /\ room.status # "absent" /\ req[h] \in Busy
          /\ req[h].actor = room.ownerId
      BY <1>17, BusyMeansCreated DEF ReadSetRoleTarget, At, RequestOK
    <2>2. CASE Abort(h)
      BY <2>1, <2>2, AbortOK
    <2>3. CASE Goto(h, "setRole") /\ UNCHANGED tables
      <3>1. req'[h].pc = "setRole" /\ req'[h].actor = req[h].actor
        BY <2>1, <2>3, ServeOne DEF Goto, IInv, Busy
      <3> QED
        BY <2>1, <2>3, <3>1, TablesStable DEF RequestOK, tables
    <2> QED
      BY <1>17, <2>2, <2>3 DEF ReadSetRoleTarget
  <1>18. ASSUME WriteRole(h)
        PROVE  OwnerStable /\ RequestOK(req'[h], room', role')
    <2>1. room.status # "absent" /\ req[h].arg # "OWNER"
      BY <1>18, BusyMeansCreated, BusyType DEF WriteRole, At, IInv, TypeOK, ArgsAt
    <2>2. CASE Abort(h)
      BY <2>1, <2>2, AbortOK
    <2>3. CASE ~Abort(h)
      <3>1. OwnerStable
        BY <1>18, <2>1, <2>3 DEF WriteRole, OwnerStable, IInv, TypeOK
      <3> QED
        BY <1>18, <2>3, <3>1, FinishOK DEF WriteRole, At, OwnerStable
    <2> QED
      BY <2>2, <2>3
  <1>19. ASSUME UpdateRoom(h)
        PROVE  OwnerStable /\ RequestOK(req'[h], room', role')
    <2>1. room.status # "absent"
      BY <1>19, BusyMeansCreated DEF UpdateRoom, At
    <2>2. CASE Abort(h)
      BY <2>1, <2>2, AbortOK
    <2>3. CASE ~Abort(h)
      <3>1. OwnerStable
        BY <1>19, <2>1, <2>3 DEF UpdateRoom, OwnerStable, IInv, TypeOK, RoomRow
      <3> QED
        BY <1>19, <2>3, <3>1, FinishOK DEF UpdateRoom, At, OwnerStable
    <2> QED
      BY <2>2, <2>3
  <1>20. ASSUME DeleteRoom(h)
        PROVE  OwnerStable /\ RequestOK(req'[h], room', role')
    <2>1. room.status # "absent"
      BY <1>20, BusyMeansCreated DEF DeleteRoom, At
    <2>2. CASE Abort(h)
      BY <2>1, <2>2, AbortOK
    <2>3. CASE ~Abort(h)
      <3>1. OwnerStable
        BY <1>20, <2>1, <2>3 DEF DeleteRoom, OwnerStable, IInv, TypeOK, RoomRow
      <3> QED
        BY <1>20, <2>3, <3>1, FinishOK DEF DeleteRoom, At, OwnerStable
    <2> QED
      BY <2>2, <2>3
  <1>21. ASSUME Reply(h)
        PROVE  OwnerStable /\ RequestOK(req'[h], room', role')
    BY <1>21, BusyMeansCreated, AbortOK DEF Reply, At
  <1> QED
    BY <1>1, <1>2, <1>3, <1>4, <1>5, <1>6, <1>7, <1>8, <1>9, <1>10, <1>11,
        <1>12, <1>13, <1>14, <1>15, <1>16, <1>17, <1>18, <1>19, <1>20, <1>21
       DEF Arrive, Proceed, StartKick, StartBan

\* A room is created once, while nothing is in flight.
LEMMA CreateStep ==
    ASSUME IInv, NEW h \in Handlers, NEW u \in Users,
           NEW v \in {"public", "private"}, CreateRoom(h, u, v)
    PROVE  OwnerIsCreator' /\ RequestsOK'
  <1>1. \A g \in Handlers : req[g] = Idle
    BY DEF CreateRoom, IInv, RequestsOK, RequestOK
  <1>2. \A w \in Users : role[w] = "NONE"
    BY DEF CreateRoom, IInv, NoRowsWithoutRoom, IsMember
  <1>3. OwnerIsCreator'
    BY <1>2 DEF CreateRoom, OwnerIsCreator, IInv, TypeOK
  <1> DEFINE r == [Idle EXCEPT !.op = "create", !.actor = u, !.target = u,
                               !.arg = "none", !.pc = "done"]
  <1>4. r.pc = "done"
    BY DEF Idle
  <1>5. req'[h] = r /\ \A g \in Handlers \ {h} : req'[g] = Idle
    BY <1>1, ServeOne DEF CreateRoom, Begin, IInv
  <1>6. room'.status = "present"
    BY DEF CreateRoom
  <1>7. RequestOK(r, room', role') /\ RequestOK(Idle, room', role')
    BY <1>4, <1>6 DEF RequestOK, Idle
  <1>8. ASSUME NEW g \in Handlers PROVE RequestOK(req'[g], room', role')
    BY <1>5, <1>7
  <1> QED
    BY <1>3, <1>8 DEF RequestsOK

\* No row is written without a room to belong to.
LEMMA RowsStep ==
    ASSUME IInv, NEW h \in Handlers, Arrive(h) \/ Proceed(h) \/ Reply(h)
    PROVE  NoRowsWithoutRoom'
  <1> USE DEF NoRowsWithoutRoom, IsMember, Banned, IInv, TypeOK
  <1>1. CASE UNCHANGED tables
    BY <1>1 DEF tables
  <1>2. CASE room'.status = "present"
    BY <1>2
  <1>3. CASE \/ InsertMembership(h) \/ RemoveMembership(h) \/ BanTransaction(h)
             \/ LiftBan(h) \/ WriteRole(h) \/ UpdateRoom(h) \/ DeleteRoom(h)
    <2>1. req[h] \in Busy
      BY <1>3, BusyMeansCreated
         DEF InsertMembership, RemoveMembership, BanTransaction, LiftBan, WriteRole,
             UpdateRoom, DeleteRoom, At
    <2>2. req[h].target \in Users
      BY <2>1 DEF Busy
    <2>3. CASE InsertMembership(h) \/ BanTransaction(h)
      BY <1>1, <1>2, <2>3 DEF InsertMembership, CanInsert, BanTransaction, Abort, tables
    <2>4. CASE RemoveMembership(h) \/ WriteRole(h)
      BY <1>1, <2>2, <2>4 DEF RemoveMembership, WriteRole, Abort
    <2>5. CASE LiftBan(h)
      BY <1>1, <2>2, <2>5 DEF LiftBan, Abort
    <2>6. CASE UpdateRoom(h)
      BY <1>1, <2>6 DEF UpdateRoom, Abort, RoomRow
    <2>7. CASE DeleteRoom(h)
      BY <1>1, <2>7 DEF DeleteRoom, Abort
    <2> QED
      BY <1>3, <2>3, <2>4, <2>5, <2>6, <2>7
  <1>4. CASE Arrive(h)
    <2>1. CASE \E a \in Users, v \in {"public", "private"} : CreateRoom(h, a, v)
      <3>1. room'.status = "present"
        BY <2>1 DEF CreateRoom
      <3> QED
        BY <1>2, <3>1
    <2>2. CASE ~ \E a \in Users, v \in {"public", "private"} : CreateRoom(h, a, v)
      <3>1. UNCHANGED tables
        BY <1>4, <2>2
           DEF Arrive, StartUpdate, StartDelete, StartJoin, StartLeave, StartInvite,
               StartKick, StartBan, StartHierarchy, StartUnban, StartSetRole
      <3> QED
        BY <1>1, <3>1
    <2> QED
      BY <2>1, <2>2
  <1>5. CASE CheckNotBanned(h) \/ CheckNotMember(h) \/ FinishReads(h) \/ FindBan(h)
             \/ ReadSetRoleTarget(h) \/ Reply(h)
    <2>1. UNCHANGED tables
      BY <1>5
         DEF Reply, Abort, CheckNotBanned, CheckNotMember, FinishReads, FindBan,
             ReadSetRoleTarget
    <2> QED
      BY <1>1, <2>1
  <1> QED
    BY <1>3, <1>4, <1>5 DEF Proceed

LEMMA InvInit == Init => IInv
  BY TypeInit DEF Init, IInv, NoRowsWithoutRoom, OwnerIsCreator, RequestsOK, RequestOK,
                  IsMember, Banned, Idle

LEMMA InvStep == IInv /\ [Next]_vars => IInv'
  <1> SUFFICES ASSUME IInv, [Next]_vars PROVE IInv'
    OBVIOUS
  <1>1. TypeOK'
    BY TypeStep DEF IInv
  <1>2. ASSUME NEW h \in Handlers, Arrive(h) \/ Proceed(h) \/ Reply(h)
        PROVE  NoRowsWithoutRoom' /\ OwnerIsCreator' /\ RequestsOK'
    <2>1. NoRowsWithoutRoom'
      BY <1>2, RowsStep
    <2>2. CASE \E a \in Users, v \in {"public", "private"} : CreateRoom(h, a, v)
      BY <2>1, <2>2, CreateStep
    <2>3. CASE ~ \E a \in Users, v \in {"public", "private"} : CreateRoom(h, a, v)
      <3>1. OwnerStable /\ RequestOK(req'[h], room', role')
        BY <1>2, <2>3, OtherStep
      <3>2. OwnerIsCreator'
        BY <3>1 DEF OwnerStable, OwnerIsCreator, IInv
      <3>3. \A g \in Handlers \ {h} : req'[g] = req[g]
        BY <1>2, ServeOthers DEF IInv
      <3> QED
        BY <2>1, <3>1, <3>2, <3>3, Undisturbed
    <2> QED
      BY <2>2, <2>3
  <1>3. CASE UNCHANGED vars
    BY <1>1, <1>3 DEF vars, IInv, NoRowsWithoutRoom, OwnerIsCreator, RequestsOK, IsMember, Banned
  <1> QED
    BY <1>1, <1>2, <1>3 DEF Next, IInv

LEMMA Invariance == Spec => []IInv
  BY InvInit, InvStep, PTL DEF Spec

--------------------------------------------------------------------------------
(* The theorems *)

\* OWNER stays with the account Room.ownerId names, whatever is in flight.
THEOREM OwnerIsCreatorAlways == Spec => []OwnerIsCreator
  BY Invariance, PTL DEF IInv

\* No kick or ban that has passed its check can reach the owner.
THEOREM OwnerUnremovableAlways == Spec => []OwnerUnremovable
  <1>1. IInv => OwnerUnremovable
    BY DEF IInv, RequestsOK, RequestOK, OwnerUnremovable
  <1> QED
    BY <1>1, Invariance, PTL

\* A deleted room leaves no membership and no ban, and none is added later.
THEOREM NoRowsWithoutRoomAlways == Spec => []NoRowsWithoutRoom
  BY Invariance, PTL DEF IInv

\* The owner stops being OWNER only by its own request.
THEOREM OwnerLosesRoleOnlyByItselfAlways == Spec => OwnerLosesRoleOnlyByItself
  <1> DEFINE A == \A u \in Users :
               role[u] = "OWNER" /\ role'[u] # "OWNER" =>
                  \E h \in Handlers :
                     /\ req[h].actor = u
                     /\ \/ req[h].pc = "deleteRoom"
                        \/ req[h].pc = "setRole" /\ req[h].target = u
  <1>1. IInv /\ [Next]_vars => [A]_vars
    <2> SUFFICES ASSUME IInv, NEW h \in Handlers, Arrive(h) \/ Proceed(h) \/ Reply(h),
                        NEW u \in Users, role[u] = "OWNER", role'[u] # "OWNER"
                 PROVE  /\ req[h].actor = u
                        /\ \/ req[h].pc = "deleteRoom"
                           \/ req[h].pc = "setRole" /\ req[h].target = u
      BY DEF Next
    <2>1. u = room.ownerId
      BY DEF IInv, OwnerIsCreator
    <2>2. ~UNCHANGED tables
      BY DEF tables
    <2>3. CASE Arrive(h)
      BY <2>2, <2>3
         DEF Arrive, CreateRoom, StartUpdate, StartDelete, StartJoin, StartLeave,
             StartInvite, StartKick, StartBan, StartHierarchy, StartUnban, StartSetRole,
             IInv, TypeOK
    <2>4. CASE CheckNotBanned(h) \/ CheckNotMember(h) \/ FinishReads(h) \/ FindBan(h)
               \/ ReadSetRoleTarget(h) \/ Reply(h)
      BY <2>2, <2>4
         DEF Reply, Abort, CheckNotBanned, CheckNotMember, FinishReads, FindBan,
             ReadSetRoleTarget
    <2>5. CASE InsertMembership(h) \/ LiftBan(h) \/ UpdateRoom(h)
      BY <2>2, <2>5
         DEF InsertMembership, CanInsert, IsMember, LiftBan, UpdateRoom, Abort, IInv, TypeOK
    <2>6. CASE RemoveMembership(h) \/ BanTransaction(h)
      <3>1. role[req[h].target] # "OWNER"
        BY <2>6 DEF RemoveMembership, BanTransaction, At, IInv, RequestsOK, RequestOK
      <3> QED
        BY <2>2, <2>6, <3>1 DEF RemoveMembership, BanTransaction, Abort, IInv, TypeOK
    <2>7. CASE WriteRole(h)
      BY <2>1, <2>2, <2>7
         DEF WriteRole, Abort, At, IInv, TypeOK, RequestsOK, RequestOK
    <2>8. CASE DeleteRoom(h)
      BY <2>1, <2>2, <2>8 DEF DeleteRoom, Abort, At, IInv, RequestsOK, RequestOK
    <2> QED
      BY <2>3, <2>4, <2>5, <2>6, <2>7, <2>8 DEF Proceed
  <1> QED
    BY <1>1, Invariance, PTL DEF Spec, OwnerLosesRoleOnlyByItself

\* ADMIN is given only by a setRole of the room's creator.
THEOREM AdminOnlyByCreatorAlways == Spec => AdminOnlyByCreator
  <1> DEFINE A == \A u \in Users :
               role'[u] = "ADMIN" /\ role[u] # "ADMIN" =>
                  \E h \in Handlers :
                     /\ req[h].pc = "setRole"
                     /\ req[h].actor = room.ownerId
                     /\ req[h].target = u
  <1>1. IInv /\ [Next]_vars => [A]_vars
    <2> SUFFICES ASSUME IInv, NEW h \in Handlers, Arrive(h) \/ Proceed(h) \/ Reply(h),
                        NEW u \in Users, role'[u] = "ADMIN", role[u] # "ADMIN"
                 PROVE  /\ req[h].pc = "setRole"
                        /\ req[h].actor = room.ownerId
                        /\ req[h].target = u
      BY DEF Next
    <2>1. ~UNCHANGED tables
      BY DEF tables
    <2>2. CASE Arrive(h)
      BY <2>1, <2>2
         DEF Arrive, CreateRoom, StartUpdate, StartDelete, StartJoin, StartLeave,
             StartInvite, StartKick, StartBan, StartHierarchy, StartUnban, StartSetRole,
             IInv, TypeOK
    <2>3. CASE CheckNotBanned(h) \/ CheckNotMember(h) \/ FinishReads(h) \/ FindBan(h)
               \/ ReadSetRoleTarget(h) \/ Reply(h)
      BY <2>1, <2>3
         DEF Reply, Abort, CheckNotBanned, CheckNotMember, FinishReads, FindBan,
             ReadSetRoleTarget
    <2>4. CASE InsertMembership(h) \/ LiftBan(h) \/ UpdateRoom(h) \/ DeleteRoom(h)
               \/ RemoveMembership(h) \/ BanTransaction(h)
      BY <2>1, <2>4
         DEF InsertMembership, LiftBan, UpdateRoom, DeleteRoom, RemoveMembership,
             BanTransaction, Abort, IInv, TypeOK
    <2>5. CASE WriteRole(h)
      BY <2>1, <2>5 DEF WriteRole, Abort, At, IInv, TypeOK, RequestsOK, RequestOK
    <2> QED
      BY <2>2, <2>3, <2>4, <2>5 DEF Proceed
  <1> QED
    BY <1>1, Invariance, PTL DEF Spec, AdminOnlyByCreator

--------------------------------------------------------------------------------
(* Requests that are alone *)

\* What the checks of request r have found holds of the bans bn.
StillTrue(r, bn) ==
    r.pc = "insert" \/ (r.pc = "member" /\ r.op = "join") => bn[r.target] = {}

\* A request that has been alone so far is alone, and may rely on its checks:
\* any other that takes a step meanwhile marks it as overlapped.
AloneOK ==
    \A h \in Handlers \ overlapped :
        req[h] # Idle =>
            /\ \A g \in Handlers \ {h} : req[g] = Idle
            /\ StillTrue(req[h], bans)

\* If a handler is busy and unmarked after a step, the step was its own, the
\* handler was unmarked before it and all others rest.
LEMMA ServeAlone ==
    ASSUME TypeOK, NEW h \in Handlers, NEW STATE r, Serve(h, r),
           NEW k \in Handlers, req'[k] # Idle, k \notin overlapped'
    PROVE  /\ k = h /\ req'[h] = r /\ h \notin overlapped
           /\ \A g \in Handlers \ {h} : req'[g] = Idle
  <1> DEFINE others == {g \in Handlers \ {h} : req[g] # Idle}
             shared == IF others = {} THEN overlapped ELSE overlapped \cup others \cup {h}
  <1>1. overlapped' = IF r = Idle THEN shared \ {h} ELSE shared
    BY DEF Serve
  <1>2. req'[h] = r /\ \A g \in Handlers \ {h} : req'[g] = req[g]
    BY ServeOne
  <1>3. k = h
    <2> SUFFICES ASSUME k # h PROVE FALSE
      OBVIOUS
    <2>1. k \in others
      BY <1>2
    <2>2. k \in shared
      BY <2>1
    <2> QED
      BY <1>1, <2>2
  <1>4. r # Idle /\ h \notin shared
    BY <1>1, <1>2, <1>3
  <1>5. others = {} /\ h \notin overlapped
    BY <1>4
  <1> QED
    BY <1>2, <1>3, <1>5

\* A step of h keeps AloneOK if what h relies on afterwards holds, given that h
\* relied on its checks before.
LEMMA AloneStep ==
    ASSUME TypeOK, AloneOK, NEW h \in Handlers, NEW STATE r, Serve(h, r),
           \/ r = Idle
           \/ h \in overlapped
           \/ StillTrue(r, bans')
    PROVE  AloneOK'
  <1> SUFFICES ASSUME NEW k \in Handlers, k \notin overlapped', req'[k] # Idle
               PROVE  /\ \A g \in Handlers \ {k} : req'[g] = Idle
                      /\ StillTrue(req'[k], bans')
    BY DEF AloneOK
  <1>1. /\ k = h /\ req'[h] = r /\ h \notin overlapped
        /\ \A g \in Handlers \ {h} : req'[g] = Idle
    BY ServeAlone
  <1> QED
    BY <1>1

LEMMA AloneAbort ==
    ASSUME TypeOK, AloneOK, NEW h \in Handlers, Abort(h)
    PROVE  AloneOK'
  BY AloneStep DEF Abort

LEMMA AloneFinish ==
    ASSUME TypeOK, AloneOK, NEW h \in Handlers, Finish(h)
    PROVE  AloneOK'
  <1> DEFINE r == [Idle EXCEPT !.op = req[h].op, !.actor = req[h].actor,
                               !.target = req[h].target, !.pc = "done"]
  <1>1. StillTrue(r, bans')
    BY DEF StillTrue, Idle
  <1> QED
    BY <1>1, AloneStep DEF Finish

LEMMA AloneBegin ==
    ASSUME TypeOK, AloneOK, NEW h \in Handlers, NEW a \in Users, NEW t \in Users, NEW op,
           NEW arg, NEW pc, Begin(h, op, a, t, arg, pc),
           pc \notin {"insert", "reads", "banTx"},
           pc = "member" => op # "join",
           pc = "remove" => op = "leave"
    PROVE  AloneOK'
  <1> DEFINE r == [Idle EXCEPT !.op = op, !.actor = a, !.target = t, !.arg = arg, !.pc = pc]
  <1>1. StillTrue(r, bans')
    BY DEF StillTrue, Idle
  <1> QED
    BY <1>1, AloneStep DEF Begin

\* What an unmarked busy handler has checked is still so.
LEMMA ChecksHold ==
    ASSUME AloneOK, NEW h \in Handlers, h \notin overlapped, req[h].pc # "idle"
    PROVE  StillTrue(req[h], bans)
  BY DEF AloneOK, Idle

LEMMA AloneArrive ==
    ASSUME TypeOK, AloneOK, NEW h \in Handlers, Arrive(h)
    PROVE  AloneOK'
  <1>1. ASSUME NEW a \in Users, NEW v \in {"public", "private"},
               CreateRoom(h, a, v) \/ StartUpdate(h, a, v)
        PROVE  AloneOK'
    BY <1>1, AloneBegin DEF CreateRoom, StartUpdate
  <1>2. ASSUME NEW a \in Users, StartDelete(h, a) \/ StartJoin(h, a) \/ StartLeave(h, a)
        PROVE  AloneOK'
    BY <1>2, AloneBegin DEF StartDelete, StartJoin, StartLeave
  <1>3. ASSUME NEW a \in Users, NEW t \in Users, StartInvite(h, a, t) \/ StartUnban(h, a, t)
        PROVE  AloneOK'
    BY <1>3, AloneBegin DEF StartInvite, StartUnban
  <1>4. ASSUME NEW a \in Users, NEW t \in Users, NEW newRole \in {"ADMIN", "MEMBER"},
               StartSetRole(h, a, t, newRole)
        PROVE  AloneOK'
    BY <1>4, AloneBegin DEF StartSetRole
  <1>5. ASSUME NEW a \in Users, NEW t \in Users, NEW op \in {"kick", "ban"},
               StartHierarchy(h, op, a, t)
        PROVE  AloneOK'
    <2>1. PICK first \in BOOLEAN :
            Serve(h, [Idle EXCEPT !.op = op, !.actor = a, !.target = t, !.pc = "reads",
                        !.actorRole = IF first THEN role[a] ELSE "unread",
                        !.targetRole = IF first THEN "unread" ELSE role[t]])
      BY <1>5 DEF StartHierarchy
    <2> DEFINE r == [Idle EXCEPT !.op = op, !.actor = a, !.target = t, !.pc = "reads",
                       !.actorRole = IF first THEN role[a] ELSE "unread",
                       !.targetRole = IF first THEN "unread" ELSE role[t]]
    <2>2. UNCHANGED <<role, bans>>
      BY <1>5 DEF StartHierarchy, tables
    <2>3. StillTrue(r, bans')
      BY <2>2 DEF StillTrue, Idle
    <2> QED
      BY <2>1, <2>3, AloneStep
  <1> QED
    BY <1>1, <1>2, <1>3, <1>4, <1>5 DEF Arrive, StartKick, StartBan

LEMMA AloneProceed ==
    ASSUME TypeOK, AloneOK, NEW h \in Handlers, Proceed(h)
    PROVE  AloneOK'
  <1>1. CASE Abort(h) \/ Finish(h)
    BY <1>1, AloneAbort, AloneFinish
  <1>2. CASE CheckNotBanned(h) /\ ~Abort(h)
    <2> DEFINE pc == IF req[h].op = "join" THEN "member" ELSE "insert"
               r == [req[h] EXCEPT !.pc = pc]
    <2>1. req[h] \in Busy
      BY <1>2, BusyType DEF CheckNotBanned, At, TypeOK
    <2>2. Serve(h, r) /\ UNCHANGED bans /\ bans[req[h].target] = {}
      BY <1>2 DEF CheckNotBanned, Goto, Banned, tables
    <2>3. StillTrue(r, bans')
      BY <2>1, <2>2 DEF StillTrue, Busy
    <2> QED
      BY <2>2, <2>3, AloneStep
  <1>3. CASE CheckNotMember(h) /\ ~Abort(h)
    <2> DEFINE pc == IF req[h].op = "join" THEN "insert" ELSE "ban"
               r == [req[h] EXCEPT !.pc = pc]
    <2>1. req[h] \in Busy
      BY <1>3, BusyType DEF CheckNotMember, At, TypeOK
    <2>2. Serve(h, r) /\ UNCHANGED bans
      BY <1>3 DEF CheckNotMember, Goto, tables
    <2>3. h \notin overlapped /\ req[h].op = "join" => bans[req[h].target] = {}
      BY <1>3, ChecksHold DEF CheckNotMember, At, StillTrue
    <2>4. h \notin overlapped => StillTrue(r, bans')
      BY <2>1, <2>2, <2>3 DEF StillTrue, Busy
    <2> QED
      BY <2>2, <2>4, AloneStep
  <1>4. CASE FinishReads(h) /\ ~Abort(h)
    <2> DEFINE r == [req[h] EXCEPT !.pc = IF req[h].op = "kick" THEN "remove" ELSE "banTx",
                                   !.actorRole = "unread", !.targetRole = "unread"]
    <2>1. req[h] \in Busy
      BY <1>4, BusyType DEF FinishReads, At, TypeOK
    <2>2. Serve(h, r)
      BY <1>4 DEF FinishReads
    <2>3. StillTrue(r, bans')
      BY <2>1 DEF StillTrue, Busy
    <2> QED
      BY <2>2, <2>3, AloneStep
  <1>5. CASE FindBan(h) /\ ~Abort(h)
    <2>1. req[h] \in Busy
      BY <1>5, BusyType DEF FindBan, At, TypeOK
    <2>2. PICK b : Serve(h, [req[h] EXCEPT !.banRow = b, !.pc = "lift"])
      BY <1>5 DEF FindBan
    <2>3. StillTrue([req[h] EXCEPT !.banRow = b, !.pc = "lift"], bans')
      BY <2>1 DEF StillTrue, Busy
    <2> QED
      BY <2>2, <2>3, AloneStep
  <1>6. CASE ReadSetRoleTarget(h) /\ ~Abort(h)
    <2>1. req[h] \in Busy
      BY <1>6, BusyType DEF ReadSetRoleTarget, At, TypeOK
    <2>2. Serve(h, [req[h] EXCEPT !.pc = "setRole"])
      BY <1>6 DEF ReadSetRoleTarget, Goto
    <2>3. StillTrue([req[h] EXCEPT !.pc = "setRole"], bans')
      BY <2>1 DEF StillTrue, Busy
    <2> QED
      BY <2>2, <2>3, AloneStep
  <1> QED
    BY <1>1, <1>2, <1>3, <1>4, <1>5, <1>6
       DEF Proceed, InsertMembership, RemoveMembership, BanTransaction, LiftBan, WriteRole,
           UpdateRoom, DeleteRoom

LEMMA AloneInvariance == Spec => []AloneOK
  <1>1. Init => AloneOK
    BY DEF Init, AloneOK
  <1>2. TypeOK /\ AloneOK /\ [Next]_vars => AloneOK'
    <2>1. AloneOK /\ UNCHANGED vars => AloneOK'
      BY DEF AloneOK, vars
    <2>2. TypeOK /\ AloneOK => \A h \in Handlers : Reply(h) => AloneOK'
      BY AloneAbort DEF Reply
    <2> QED
      BY <2>1, <2>2, AloneArrive, AloneProceed DEF Next
  <1> QED
    BY <1>1, <1>2, TypeCorrect, PTL DEF Spec

--------------------------------------------------------------------------------
(* Only races *)

\* A request that is served alone admits nobody who is banned.
THEOREM OnlyRacesAdmitBannedAlways == Spec => OnlyRacesAdmitBanned
  <1> DEFINE A == Alone /\ BannedIsNotMember => BannedIsNotMember'
  <1>1. IInv /\ AloneOK /\ [Next]_vars => [A]_vars
    <2> SUFFICES ASSUME IInv, AloneOK, NEW h \in Handlers,
                        Arrive(h) \/ Proceed(h) \/ Reply(h),
                        Alone, BannedIsNotMember
                 PROVE  BannedIsNotMember'
      BY DEF Next
    <2> DEFINE t == req[h].target
    <2>1. CASE UNCHANGED tables
      BY <2>1 DEF BannedIsNotMember, Banned, IsMember, tables
    <2>2. ASSUME NEW a \in Users, NEW v \in {"public", "private"}, CreateRoom(h, a, v)
          PROVE  BannedIsNotMember'
      <3>1. \A u \in Users : bans[u] = {}
        BY <2>2 DEF CreateRoom, IInv, NoRowsWithoutRoom, Banned
      <3> QED
        BY <2>2, <3>1 DEF CreateRoom, BannedIsNotMember, Banned
    <2>3. CASE InsertMembership(h) /\ ~Abort(h)
      <3>1. bans[t] = {} /\ t \in Users
        BY <2>3, ChecksHold, BusyType
           DEF Alone, InsertMembership, At, StillTrue, IInv, TypeOK, Busy
      <3> QED
        BY <2>3, <3>1 DEF InsertMembership, BannedIsNotMember, Banned, IsMember, IInv, TypeOK
    <2>4. CASE RemoveMembership(h) /\ ~Abort(h)
      BY <2>4 DEF RemoveMembership, BannedIsNotMember, Banned, IsMember, IInv, TypeOK
    <2>5. CASE BanTransaction(h) /\ ~Abort(h)
      BY <2>5 DEF BanTransaction, BannedIsNotMember, Banned, IsMember, IInv, TypeOK
    <2>6. CASE LiftBan(h) /\ ~Abort(h)
      BY <2>6 DEF LiftBan, BannedIsNotMember, Banned, IsMember, IInv, TypeOK
    <2>7. CASE WriteRole(h) /\ ~Abort(h)
      BY <2>7 DEF WriteRole, BannedIsNotMember, Banned, IsMember, IInv, TypeOK
    <2>8. CASE UpdateRoom(h) /\ ~Abort(h)
      BY <2>8 DEF UpdateRoom, BannedIsNotMember, Banned, IsMember
    <2>9. CASE DeleteRoom(h) /\ ~Abort(h)
      BY <2>9 DEF DeleteRoom, BannedIsNotMember, Banned, IsMember
    <2>10. CASE Arrive(h) /\ ~ \E a \in Users, v \in {"public", "private"} : CreateRoom(h, a, v)
      BY <2>1, <2>10
         DEF Arrive, StartUpdate, StartDelete, StartJoin, StartLeave, StartInvite,
             StartKick, StartBan, StartHierarchy, StartUnban, StartSetRole
    <2>11. CASE Abort(h) \/ Reply(h)
      BY <2>1, <2>11 DEF Abort, Reply
    <2>12. CASE CheckNotBanned(h) \/ CheckNotMember(h) \/ FinishReads(h) \/ FindBan(h)
                \/ ReadSetRoleTarget(h)
      BY <2>1, <2>12 DEF CheckNotBanned, CheckNotMember, FinishReads, FindBan,
                         ReadSetRoleTarget, Abort
    <2> QED
      BY <2>2, <2>3, <2>4, <2>5, <2>6, <2>7, <2>8, <2>9, <2>10, <2>11, <2>12 DEF Proceed
  <1> QED
    BY <1>1, Invariance, AloneInvariance, PTL DEF Spec, OnlyRacesAdmitBanned

--------------------------------------------------------------------------------
(***************************************************************************)
(* RoomChannels: no member misses the room's events.                       *)
(*                                                                         *)
(* A connection that is still being set up will read the membership, so    *)
(* only those that are set up matter.  A membership comes into being in a  *)
(* request that then waits for joinRoomSockets (NewMember), and until that *)
(* is done the request is the one that will put the socket into room:{id}. *)
(***************************************************************************)

\* A request at the checks of an insert, or at the insert, is one that ends in
\* joinRoomSockets.
InsertsJoin ==
    \A h \in Handlers : req[h].pc \in {"ban", "member", "insert"} =>
        req[h].op \in {"join", "invite"}

\* Sockets are fetched by such a request only.
FetchedByAdders == \A h \in Handlers : fetched[h].done = TRUE => AddsMember(h)

\* A connection is an account's.
ConnectedUsers == \A s \in Sockets : conn[s].phase # "new" => conn[s].user \in Users

ChannelsInv ==
    ChannelsTypeOK /\ InsertsJoin /\ FetchedByAdders /\ ConnectedUsers /\ MembersHearRoom

USE NoUserAssumption, NoBanAssumption

LEMMA ChannelsInvInit == ChannelsInit => ChannelsInv
<1> SUFFICES ASSUME ChannelsInit PROVE ChannelsInv  OBVIOUS
<1>1. ChannelsTypeOK
  BY TypeInit DEF ChannelsInit, ChannelsTypeOK, NotFetched, Phases
<1>2. InsertsJoin /\ FetchedByAdders /\ ConnectedUsers /\ MembersHearRoom
  BY DEF ChannelsInit, Init, Idle, NotFetched, InsertsJoin, FetchedByAdders,
         ConnectedUsers, MembersHearRoom
<1> QED BY <1>1, <1>2 DEF ChannelsInv

LEMMA ChannelsInvStutter == ChannelsInv /\ UNCHANGED allVars => ChannelsInv'
  BY DEF ChannelsInv, allVars, vars, channelVars, ChannelsTypeOK, TypeOK, InsertsJoin,
         FetchedByAdders, AddsMember, At, ConnectedUsers, MembersHearRoom, WillJoin, IsMember

--------------------------------------------------------------------------------
(* Connections *)

LEMMA RoomUnchanged ==
    ASSUME ChannelsInv, UNCHANGED vars
    PROVE  TypeOK' /\ InsertsJoin' /\ \A u \in Users : IsMember(u)' <=> IsMember(u)
  BY DEF ChannelsInv, ChannelsTypeOK, TypeOK, vars, InsertsJoin, IsMember

LEMMA ConnectInv ==
    ASSUME ChannelsInv, NEW s \in Sockets, NEW u \in Users, Connect(s, u)
    PROVE  ChannelsInv'
<1> USE DEF Connect
<1>1. ChannelsTypeOK' /\ InsertsJoin'
  BY RoomUnchanged DEF ChannelsInv, ChannelsTypeOK, Phases
<1>2. FetchedByAdders' /\ ConnectedUsers'
  BY DEF ChannelsInv, ChannelsTypeOK, vars, FetchedByAdders, AddsMember, At, ConnectedUsers
<1>3. MembersHearRoom'
  <2> SUFFICES ASSUME NEW t \in Sockets, conn'[t].phase = "on", IsMember(conn[t].user)'
               PROVE  t \in channel' \/ \E h \in Handlers : WillJoin(h, t)'
    BY DEF MembersHearRoom
  <2>1. conn'[t] = conn[t]  BY DEF ChannelsInv, ChannelsTypeOK
  <2> QED BY <2>1 DEF ChannelsInv, MembersHearRoom, WillJoin, AddsMember, At, IsMember, vars
<1> QED BY <1>1, <1>2, <1>3 DEF ChannelsInv

\* What is set up without being in the channel is no member's.
LEMMA ListMyRoomsInv ==
    ASSUME ChannelsInv, NEW s \in Sockets, ListMyRooms(s)
    PROVE  ChannelsInv'
<1> DEFINE next == IF IsMember(conn[s].user) THEN "joining" ELSE "on"
<1>1. /\ conn' = [conn EXCEPT ![s].phase = next] /\ UNCHANGED <<vars, channel, fetched>>
      /\ conn[s].phase = "listing" /\ next \in Phases
  BY DEF ListMyRooms, SetPhase, Phases
<1>2. /\ conn'[s].phase = next /\ conn'[s].user = conn[s].user
      /\ \A t \in Sockets : t # s => conn'[t] = conn[t]
  BY <1>1 DEF ChannelsInv, ChannelsTypeOK
<1>3. ChannelsTypeOK' /\ InsertsJoin'
  BY <1>1, RoomUnchanged DEF ChannelsInv, ChannelsTypeOK
<1>4. FetchedByAdders' /\ ConnectedUsers'
  BY <1>1, <1>2 DEF ChannelsInv, vars, FetchedByAdders, AddsMember, At, ConnectedUsers
<1>5. MembersHearRoom'
  <2> SUFFICES ASSUME NEW t \in Sockets, conn'[t].phase = "on", IsMember(conn[t].user)'
               PROVE  t \in channel' \/ \E h \in Handlers : WillJoin(h, t)'
    BY DEF MembersHearRoom
  <2>1. t # s  BY <1>1, <1>2 DEF vars, IsMember
  <2>2. conn'[t] = conn[t]  BY <1>2, <2>1
  <2> QED BY <1>1, <2>2 DEF ChannelsInv, MembersHearRoom, WillJoin, AddsMember, At, IsMember, vars
<1> QED BY <1>3, <1>4, <1>5 DEF ChannelsInv

LEMMA JoinListedInv ==
    ASSUME ChannelsInv, NEW s \in Sockets, JoinListed(s)
    PROVE  ChannelsInv'
<1> USE DEF JoinListed, SetPhase
<1>1. /\ conn'[s].phase = "on" /\ conn'[s].user = conn[s].user
      /\ \A t \in Sockets : t # s => conn'[t] = conn[t]
  BY DEF ChannelsInv, ChannelsTypeOK
<1>2. ChannelsTypeOK' /\ InsertsJoin'
  BY RoomUnchanged DEF ChannelsInv, ChannelsTypeOK, Phases
<1>3. FetchedByAdders' /\ ConnectedUsers'
  BY <1>1 DEF ChannelsInv, vars, FetchedByAdders, AddsMember, At, ConnectedUsers
<1>4. MembersHearRoom'
  BY <1>1 DEF ChannelsInv, MembersHearRoom, WillJoin, AddsMember, At, IsMember, vars
<1> QED BY <1>2, <1>3, <1>4 DEF ChannelsInv

LEMMA DisconnectInv ==
    ASSUME ChannelsInv, NEW s \in Sockets, Disconnect(s)
    PROVE  ChannelsInv'
<1> USE DEF Disconnect, SetPhase
<1>1. /\ conn'[s].phase = "gone" /\ conn'[s].user = conn[s].user
      /\ \A t \in Sockets : t # s => conn'[t] = conn[t]
  BY DEF ChannelsInv, ChannelsTypeOK
<1>2. ChannelsTypeOK' /\ InsertsJoin'
  BY RoomUnchanged DEF ChannelsInv, ChannelsTypeOK, Phases
<1>3. FetchedByAdders' /\ ConnectedUsers'
  BY <1>1 DEF ChannelsInv, vars, FetchedByAdders, AddsMember, At, ConnectedUsers
<1>4. MembersHearRoom'
  BY <1>1 DEF ChannelsInv, MembersHearRoom, WillJoin, AddsMember, At, IsMember, vars
<1> QED BY <1>2, <1>3, <1>4 DEF ChannelsInv

--------------------------------------------------------------------------------
(* Requests *)

LEMMA RoomTypes ==
    ASSUME ChannelsInv, NEW h \in Handlers, Arrive(h) \/ Proceed(h) \/ Reply(h)
    PROVE  TypeOK'
  BY TypeStep DEF ChannelsInv, ChannelsTypeOK, Next

\* Where a request goes that begins, goes on or ends.
LEMMA Begun ==
    ASSUME TypeOK, NEW h \in Handlers, NEW STATE op, NEW STATE a, NEW STATE t,
           NEW STATE arg, NEW STATE pc, Begin(h, op, a, t, arg, pc)
    PROVE  req[h] = Idle /\ req'[h].pc = pc /\ req'[h].op = op
<1> DEFINE r == [Idle EXCEPT !.op = op, !.actor = a, !.target = t, !.arg = arg, !.pc = pc]
<1>1. req[h] = Idle /\ Serve(h, r)  BY DEF Begin
<1>2. r.pc = pc /\ r.op = op  BY DEF Idle
<1> HIDE DEF r
<1> QED BY <1>1, <1>2, ServeOne

LEMMA Arrived ==
    ASSUME TypeOK, NEW h \in Handlers, Arrive(h)
    PROVE  /\ req[h] = Idle
           /\ req'[h].pc \in {"ban", "member", "insert"} => req'[h].op \in {"join", "invite"}
<1>1. ASSUME NEW a \in Users, NEW t \in Users, StartKick(h, a, t) \/ StartBan(h, a, t)
      PROVE  req[h] = Idle /\ req'[h].pc = "reads"
  <2>1. PICK op \in {"kick", "ban"} : StartHierarchy(h, op, a, t)
    BY <1>1 DEF StartKick, StartBan
  <2>2. PICK first \in BOOLEAN :
          Serve(h, [Idle EXCEPT !.op = op, !.actor = a, !.target = t, !.pc = "reads",
                      !.actorRole = IF first THEN role[a] ELSE "unread",
                      !.targetRole = IF first THEN "unread" ELSE role[t]])
    BY <2>1 DEF StartHierarchy
  <2> DEFINE r == [Idle EXCEPT !.op = op, !.actor = a, !.target = t, !.pc = "reads",
                     !.actorRole = IF first THEN role[a] ELSE "unread",
                     !.targetRole = IF first THEN "unread" ELSE role[t]]
  <2>3. r.pc = "reads"  BY DEF Idle
  <2>4. Serve(h, r)  BY <2>2
  <2> HIDE DEF r
  <2>5. req'[h].pc = "reads"  BY <2>3, <2>4, ServeOne
  <2> QED BY <2>1, <2>5 DEF StartHierarchy
<1>2. ASSUME NEW a \in Users, NEW v \in {"public", "private"},
             CreateRoom(h, a, v) \/ StartUpdate(h, a, v)
      PROVE  req[h] = Idle /\ req'[h].pc \in {"done", "update"}
  BY <1>2, Begun DEF CreateRoom, StartUpdate
<1>3. ASSUME NEW a \in Users, StartDelete(h, a) \/ StartLeave(h, a)
      PROVE  req[h] = Idle /\ req'[h].pc \in {"deleteRoom", "remove"}
  BY <1>3, Begun DEF StartDelete, StartLeave
<1>4. ASSUME NEW a \in Users, StartJoin(h, a)
      PROVE  req[h] = Idle /\ req'[h].op = "join"
  BY <1>4, Begun DEF StartJoin
<1>5. ASSUME NEW a \in Users, NEW t \in Users, StartInvite(h, a, t)
      PROVE  req[h] = Idle /\ req'[h].op = "invite"
  BY <1>5, Begun DEF StartInvite
<1>6. ASSUME NEW a \in Users, NEW t \in Users, StartUnban(h, a, t)
      PROVE  req[h] = Idle /\ req'[h].pc = "findBan"
  BY <1>6, Begun DEF StartUnban
<1>7. ASSUME NEW a \in Users, NEW t \in Users, NEW new \in {"ADMIN", "MEMBER"},
             StartSetRole(h, a, t, new)
      PROVE  req[h] = Idle /\ req'[h].pc = "target"
  BY <1>7, Begun DEF StartSetRole
<1> QED BY <1>1, <1>2, <1>3, <1>4, <1>5, <1>6, <1>7 DEF Arrive

LEMMA Aborted ==
    ASSUME TypeOK, NEW h \in Handlers, Abort(h)
    PROVE  req'[h].pc = "idle"
<1>1. req'[h] = Idle  BY ServeOne DEF Abort
<1> QED BY <1>1 DEF Idle

LEMMA Finished ==
    ASSUME TypeOK, NEW h \in Handlers, Finish(h)
    PROVE  req'[h].pc = "done"
<1> DEFINE r == [Idle EXCEPT !.op = req[h].op, !.actor = req[h].actor,
                             !.target = req[h].target, !.pc = "done"]
<1>1. Serve(h, r) /\ r.pc = "done"  BY DEF Finish, Idle
<1> HIDE DEF r
<1> QED BY <1>1, ServeOne

LEMMA Proceeded ==
    ASSUME TypeOK, NEW h \in Handlers, Proceed(h)
    PROVE  /\ req[h] \in Busy /\ req[h].pc # "done"
           /\ req'[h].pc \in {"ban", "member", "insert"} =>
                req[h].pc \in {"ban", "member", "insert"} /\ req'[h].op = req[h].op
<1>1. req[h].pc \notin {"idle", "done"}
  BY DEF Proceed, At, CheckNotBanned, CheckNotMember, InsertMembership, FinishReads,
         RemoveMembership, BanTransaction, FindBan, LiftBan, ReadSetRoleTarget,
         WriteRole, UpdateRoom, DeleteRoom
<1>2. req[h] \in Busy  BY <1>1, BusyType DEF TypeOK
<1> DEFINE stays == req[h].pc \in {"ban", "member", "insert"} /\ req'[h].op = req[h].op
           ends == req'[h].pc \notin {"ban", "member", "insert"}
<1>3. ASSUME NEW STATE pc, Goto(h, pc)
      PROVE  req'[h].pc = pc /\ req'[h].op = req[h].op
  <2> DEFINE r == [req[h] EXCEPT !.pc = pc]
  <2>1. Serve(h, r) /\ r.pc = pc /\ r.op = req[h].op  BY <1>2, <1>3 DEF Goto, Busy
  <2> HIDE DEF r
  <2> QED BY <2>1, ServeOne
<1>4. CASE CheckNotBanned(h) \/ CheckNotMember(h)
  <2>1. req[h].pc \in {"ban", "member"} /\ (Abort(h) \/ \E pc \in {"ban", "member", "insert"} : Goto(h, pc))
    BY <1>4 DEF CheckNotBanned, CheckNotMember, At
  <2>2. stays \/ ends  BY <1>3, <2>1, Aborted
  <2> QED BY <1>1, <1>2, <2>2
<1>5. CASE FinishReads(h)
  <2> DEFINE r == [req[h] EXCEPT !.pc = IF req[h].op = "kick" THEN "remove" ELSE "banTx",
                                 !.actorRole = "unread", !.targetRole = "unread"]
  <2>1. Serve(h, r) \/ Abort(h)  BY <1>5 DEF FinishReads
  <2>2. r.pc \in {"remove", "banTx"}  BY <1>2 DEF Busy
  <2> HIDE DEF r
  <2>3. ends  BY <2>1, <2>2, ServeOne, Aborted
  <2> QED BY <1>1, <1>2, <2>3
<1>6. CASE FindBan(h)
  <2>1. ASSUME NEW b \in BanIds, Serve(h, [req[h] EXCEPT !.banRow = b, !.pc = "lift"])
        PROVE  ends
    <3> DEFINE r == [req[h] EXCEPT !.banRow = b, !.pc = "lift"]
    <3>1. Serve(h, r) /\ r.pc = "lift"  BY <1>2, <2>1 DEF Busy
    <3> HIDE DEF r
    <3> QED BY <3>1, ServeOne
  <2>2. bans[req[h].target] \subseteq BanIds  BY <1>2 DEF TypeOK, Busy
  <2>3. ends  BY <1>6, <2>1, <2>2, Aborted DEF FindBan
  <2> QED BY <1>1, <1>2, <2>3
<1>7. CASE ReadSetRoleTarget(h)
  <2>1. Abort(h) \/ Goto(h, "setRole")  BY <1>7 DEF ReadSetRoleTarget
  <2>2. ends  BY <1>3, <2>1, Aborted
  <2> QED BY <1>1, <1>2, <2>2
<1>8. CASE InsertMembership(h) \/ RemoveMembership(h) \/ BanTransaction(h) \/ LiftBan(h)
           \/ WriteRole(h) \/ UpdateRoom(h) \/ DeleteRoom(h)
  <2>1. Abort(h) \/ Finish(h)
    BY <1>8 DEF InsertMembership, RemoveMembership, BanTransaction, LiftBan, WriteRole,
                UpdateRoom, DeleteRoom
  <2>2. ends  BY <2>1, Aborted, Finished
  <2> QED BY <1>1, <1>2, <2>2
<1> QED BY <1>4, <1>5, <1>6, <1>7, <1>8 DEF Proceed

LEMMA KeepsInsertsJoin ==
    ASSUME ChannelsInv, NEW h \in Handlers, Arrive(h) \/ Proceed(h) \/ Reply(h)
    PROVE  InsertsJoin'
<1>0. TypeOK /\ InsertsJoin  BY DEF ChannelsInv, ChannelsTypeOK
<1>1. \A g \in Handlers \ {h} : req'[g] = req[g]  BY <1>0, ServeOthers
<1>2. ASSUME req'[h].pc \in {"ban", "member", "insert"}
      PROVE  req'[h].op \in {"join", "invite"}
  <2>1. CASE Arrive(h)  BY <1>0, <1>2, <2>1, Arrived
  <2>2. CASE Proceed(h)  BY <1>0, <1>2, <2>2, Proceeded DEF InsertsJoin
  <2>3. CASE Reply(h)  BY <1>0, <1>2, <2>3, Aborted DEF Reply
  <2> QED BY <2>1, <2>2, <2>3
<1> QED BY <1>0, <1>1, <1>2 DEF InsertsJoin

\* A membership is made by a request that then has sockets to join.
LEMMA NewMember ==
    ASSUME ChannelsInv, NEW h \in Handlers, Arrive(h) \/ Proceed(h),
           NEW u \in Users, ~IsMember(u), IsMember(u)'
    PROVE  AddsMember(h)' /\ req'[h].target = u
<1>0. TypeOK /\ InsertsJoin  BY DEF ChannelsInv, ChannelsTypeOK
<1>1. \A r : Serve(h, r) => req'[h] = r  BY <1>0 DEF TypeOK, Serve
<1>2. role[u] = "NONE" /\ role'[u] # "NONE" /\ role' # role  BY DEF IsMember
<1>3. CASE Arrive(h)
  <2>1. PICK a \in Users : \E v \in {"public", "private"} : CreateRoom(h, a, v)
    BY <1>2, <1>3
       DEF Arrive, tables, StartUpdate, StartDelete, StartJoin, StartLeave,
           StartInvite, StartKick, StartBan, StartHierarchy, StartUnban, StartSetRole
  <2>2. role' = [role EXCEPT ![a] = "OWNER"] /\ Begin(h, "create", a, a, "none", "done")
    BY <2>1 DEF CreateRoom
  <2>3. a = u  BY <1>0, <1>2, <2>2 DEF TypeOK
  <2>4. req'[h].pc = "done" /\ req'[h].op = "create" /\ req'[h].target = u
    BY <1>1, <2>2, <2>3 DEF Begin, Idle
  <2> QED BY <2>4 DEF AddsMember, At
<1>4. CASE InsertMembership(h)
  <2>1. /\ req[h].pc = "insert" /\ Finish(h)
        /\ role' = [role EXCEPT ![req[h].target] = "MEMBER"]
    BY <1>2, <1>4 DEF InsertMembership, Abort, tables, At
  <2>2. u = req[h].target  BY <1>0, <1>2, <2>1 DEF TypeOK
  <2>3. req[h].op \in {"join", "invite"}  BY <1>0, <2>1 DEF InsertsJoin
  <2>4. req'[h].pc = "done" /\ req'[h].op = req[h].op /\ req'[h].target = req[h].target
    BY <1>1, <2>1 DEF Finish, Idle
  <2> QED BY <2>2, <2>3, <2>4 DEF AddsMember, At
<1>5. CASE RemoveMembership(h) \/ BanTransaction(h) \/ DeleteRoom(h)
  BY <1>0, <1>2, <1>5
     DEF RemoveMembership, BanTransaction, DeleteRoom, Abort, tables, TypeOK
<1>6. CASE WriteRole(h)
  BY <1>0, <1>2, <1>6 DEF WriteRole, IsMember, Abort, tables, TypeOK
<1>7. CASE CheckNotBanned(h) \/ CheckNotMember(h) \/ FinishReads(h) \/ FindBan(h)
           \/ LiftBan(h) \/ ReadSetRoleTarget(h) \/ UpdateRoom(h)
  BY <1>2, <1>7
     DEF CheckNotBanned, CheckNotMember, FinishReads, FindBan, LiftBan,
         ReadSetRoleTarget, UpdateRoom, Abort, tables
<1> QED BY <1>3, <1>4, <1>5, <1>6, <1>7 DEF Proceed

\* Before its last await a request has fetched nothing.
LEMMA NotYetAdding ==
    ASSUME ChannelsInv, NEW h \in Handlers, Arrive(h) \/ Proceed(h)
    PROVE  ~AddsMember(h)
<1>1. TypeOK  BY DEF ChannelsInv, ChannelsTypeOK
<1>2. req[h].pc # "done"  BY <1>1, Arrived, Proceeded DEF Idle
<1> QED BY <1>2 DEF AddsMember, At

LEMMA ServiceStepInv ==
    ASSUME ChannelsInv, NEW h \in Handlers, ServiceStep(h)
    PROVE  ChannelsInv'
<1>0. (Arrive(h) \/ Proceed(h)) /\ UNCHANGED <<conn, channel, fetched>>
  BY DEF ServiceStep, channelVars
<1>1. TypeOK /\ ChannelsTypeOK' /\ InsertsJoin'
  BY <1>0, RoomTypes, KeepsInsertsJoin DEF ChannelsInv, ChannelsTypeOK
<1>2. \A g \in Handlers \ {h} : req'[g] = req[g]  BY <1>0, <1>1, ServeOthers
<1>3. fetched[h].done = FALSE
  BY <1>0, NotYetAdding DEF ChannelsInv, ChannelsTypeOK, FetchedByAdders
<1>4. FetchedByAdders' /\ ConnectedUsers'
  BY <1>0, <1>2, <1>3 DEF ChannelsInv, FetchedByAdders, AddsMember, At, ConnectedUsers
<1>5. MembersHearRoom'
  <2> SUFFICES ASSUME NEW s \in Sockets, conn'[s].phase = "on", IsMember(conn[s].user)'
               PROVE  s \in channel' \/ \E g \in Handlers : WillJoin(g, s)'
    BY DEF MembersHearRoom
  <2>0. conn'[s] = conn[s] /\ conn[s].user \in Users
    BY <1>0 DEF ChannelsInv, ConnectedUsers
  <2>1. CASE IsMember(conn[s].user)
    <3>1. s \in channel \/ \E g \in Handlers : WillJoin(g, s)
      BY <2>0, <2>1 DEF ChannelsInv, MembersHearRoom
    <3>2. ASSUME NEW g \in Handlers, WillJoin(g, s) PROVE WillJoin(g, s)'
      <4>1. g # h  BY <1>0, <3>2, NotYetAdding DEF WillJoin
      <4> QED BY <1>0, <1>2, <3>2, <4>1 DEF WillJoin, AddsMember, At
    <3> QED BY <1>0, <3>1, <3>2
  <2>2. CASE ~IsMember(conn[s].user)
    <3>1. AddsMember(h)' /\ req'[h].target = conn[s].user
      BY <1>0, <2>0, <2>2, NewMember DEF IsMember
    <3> QED BY <1>0, <1>3, <2>0, <3>1 DEF WillJoin
  <2> QED BY <2>1, <2>2
<1> QED BY <1>1, <1>4, <1>5 DEF ChannelsInv

LEMMA FetchSocketsInv ==
    ASSUME ChannelsInv, NEW h \in Handlers, FetchSockets(h)
    PROVE  ChannelsInv'
<1> DEFINE f == [done |-> TRUE, sockets |-> UserChannel(req[h].target)]
<1>0. /\ AddsMember(h) /\ fetched' = [fetched EXCEPT ![h] = f]
      /\ UNCHANGED <<vars, conn, channel>>
  BY DEF FetchSockets
<1>1. f.done = TRUE /\ f.sockets = UserChannel(req[h].target) /\ f.sockets \subseteq Sockets
  BY DEF UserChannel
<1>2. f \in [done : BOOLEAN, sockets : SUBSET Sockets]  BY <1>1
<1> HIDE DEF f
<1>3. fetched'[h] = f /\ \A g \in Handlers : g # h => fetched'[g] = fetched[g]
  BY <1>0 DEF ChannelsInv, ChannelsTypeOK
<1>4. ChannelsTypeOK' /\ InsertsJoin'
  BY <1>0, <1>2, RoomUnchanged DEF ChannelsInv, ChannelsTypeOK
<1>5. FetchedByAdders' /\ ConnectedUsers'
  BY <1>0, <1>3 DEF ChannelsInv, FetchedByAdders, AddsMember, At, ConnectedUsers, vars
<1>6. MembersHearRoom'
  <2> SUFFICES ASSUME NEW s \in Sockets, conn[s].phase = "on", IsMember(conn[s].user)
               PROVE  s \in channel \/ \E g \in Handlers : WillJoin(g, s)'
    BY <1>0 DEF MembersHearRoom, IsMember, vars
  <2>1. ASSUME NEW g \in Handlers, WillJoin(g, s) PROVE WillJoin(g, s)'
    <3>1. CASE g = h
      <4>1. s \in f.sockets  BY <1>1, <2>1, <3>1 DEF WillJoin, UserChannel
      <4> QED BY <1>0, <1>3, <2>1, <3>1, <4>1 DEF WillJoin, AddsMember, At, vars
    <3>2. CASE g # h  BY <1>0, <1>3, <2>1, <3>2 DEF WillJoin, AddsMember, At, vars
    <3> QED BY <3>1, <3>2
  <2> QED BY <2>1 DEF ChannelsInv, MembersHearRoom
<1> QED BY <1>4, <1>5, <1>6 DEF ChannelsInv

\* The sockets the request was to join are in the channel now.
LEMMA JoinRoomSocketsInv ==
    ASSUME ChannelsInv, NEW h \in Handlers, JoinRoomSockets(h)
    PROVE  ChannelsInv'
<1>0. /\ AddsMember(h) /\ fetched[h].done /\ Reply(h) /\ UNCHANGED <<tables, conn>>
      /\ channel' = channel \cup (fetched[h].sockets \cap UserChannel(req[h].target))
      /\ fetched' = [fetched EXCEPT ![h] = NotFetched]
  BY DEF JoinRoomSockets, Reply, Abort
<1>1. TypeOK /\ TypeOK' /\ InsertsJoin'
  BY <1>0, RoomTypes, KeepsInsertsJoin DEF ChannelsInv, ChannelsTypeOK
<1>2. \A g \in Handlers \ {h} : req'[g] = req[g]  BY <1>0, <1>1, ServeOthers
<1>3. fetched'[h] = NotFetched /\ \A g \in Handlers : g # h => fetched'[g] = fetched[g]
  BY <1>0 DEF ChannelsInv, ChannelsTypeOK
<1>4. ChannelsTypeOK'
  BY <1>0, <1>1 DEF ChannelsInv, ChannelsTypeOK, NotFetched, UserChannel
<1>5. FetchedByAdders' /\ ConnectedUsers'
  BY <1>0, <1>2, <1>3
     DEF ChannelsInv, FetchedByAdders, AddsMember, At, ConnectedUsers, NotFetched
<1>6. MembersHearRoom'
  <2> SUFFICES ASSUME NEW s \in Sockets, conn[s].phase = "on", IsMember(conn[s].user)
               PROVE  s \in channel' \/ \E g \in Handlers : WillJoin(g, s)'
    BY <1>0 DEF MembersHearRoom, IsMember, tables
  <2>1. CASE s \in channel  BY <1>0, <2>1
  <2>2. ASSUME NEW g \in Handlers, WillJoin(g, s)
        PROVE  s \in channel' \/ \E k \in Handlers : WillJoin(k, s)'
    <3>1. CASE g = h  BY <1>0, <2>2, <3>1 DEF WillJoin, UserChannel
    <3>2. CASE g # h
      <4>1. WillJoin(g, s)'
        BY <1>0, <1>2, <1>3, <2>2, <3>2 DEF WillJoin, AddsMember, At
      <4> QED BY <4>1
    <3> QED BY <3>1, <3>2
  <2> QED BY <2>1, <2>2 DEF ChannelsInv, MembersHearRoom
<1> QED BY <1>1, <1>4, <1>5, <1>6 DEF ChannelsInv

LEMMA OtherReplyInv ==
    ASSUME ChannelsInv, NEW h \in Handlers, OtherReply(h)
    PROVE  ChannelsInv'
<1>0. /\ ~AddsMember(h) /\ Reply(h) /\ UNCHANGED <<tables, conn, channel, fetched>>
  BY DEF OtherReply, Reply, Abort, channelVars
<1>1. TypeOK /\ ChannelsTypeOK' /\ InsertsJoin'
  BY <1>0, RoomTypes, KeepsInsertsJoin DEF ChannelsInv, ChannelsTypeOK
<1>2. \A g \in Handlers \ {h} : req'[g] = req[g]  BY <1>0, <1>1, ServeOthers
<1>3. FetchedByAdders' /\ ConnectedUsers'
  BY <1>0, <1>2 DEF ChannelsInv, FetchedByAdders, AddsMember, At, ConnectedUsers
<1>4. MembersHearRoom'
  <2>1. ASSUME NEW g \in Handlers, NEW s \in Sockets, WillJoin(g, s)
        PROVE  WillJoin(g, s)'
    BY <1>0, <1>2, <2>1 DEF WillJoin, AddsMember, At
  <2> QED BY <1>0, <2>1 DEF ChannelsInv, MembersHearRoom, IsMember, tables
<1> QED BY <1>1, <1>3, <1>4 DEF ChannelsInv

LEMMA ChannelsInvStep == ChannelsInv /\ [ChannelsNext]_allVars => ChannelsInv'
<1> SUFFICES ASSUME ChannelsInv, [ChannelsNext]_allVars PROVE ChannelsInv'  OBVIOUS
<1> QED
  BY ChannelsInvStutter, ConnectInv, ListMyRoomsInv, JoinListedInv, DisconnectInv,
     ServiceStepInv, FetchSocketsInv, JoinRoomSocketsInv, OtherReplyInv DEF ChannelsNext

LEMMA ChannelsInvariance == ChannelsSpec => []ChannelsInv
  BY ChannelsInvInit, ChannelsInvStep, PTL DEF ChannelsSpec

--------------------------------------------------------------------------------
(* The properties *)

\* RoomChannels!MembersHearRoom: in whatever order a connection, a membership
\* and the fetch of the sockets happen, a member's connection that is set up is
\* in room:{id} or is about to be put there.
THEOREM MembersHearRoomAlways == ChannelsSpec => []MembersHearRoom
<1>1. ChannelsInv => MembersHearRoom  BY DEF ChannelsInv
<1> QED BY <1>1, ChannelsInvariance, PTL

================================================================================
