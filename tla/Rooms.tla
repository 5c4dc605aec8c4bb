--------------------------------- MODULE Rooms ---------------------------------
(***************************************************************************)
(* Membership, roles and bans of one chat room: RoomsService               *)
(* (rooms/rooms.service.ts) over the tables Room, RoomMembership, RoomBan. *)
(*                                                                         *)
(* An HTTP request runs in a handler.  Each awaited Prisma call is one     *)
(* atomic step, and the steps of different handlers interleave: the        *)
(* service checks in one query and writes in a later one.  A request whose *)
(* very first check fails changes nothing and is a stuttering step; one    *)
(* that fails later frees its handler (Abort).  Operations on different    *)
(* rooms touch different rows, so one room is enough; its id is never      *)
(* reused after a deletion.                                                *)
(***************************************************************************)
EXTENDS Naturals

CONSTANTS
    Users,      \* accounts
    Handlers,   \* requests that can be in flight at the same time
    BanIds,     \* bound: ban rows the run may create
    NoUser,     \* "no user", different from every account
    NoBan       \* "no ban row", different from every ban id

ASSUME NoUserAssumption == NoUser \notin Users
ASSUME NoBanAssumption == NoBan \notin BanIds

VARIABLES
    room,       \* the Room row: [status, visibility, ownerId]
    role,       \* RoomMembership by its unique key: user -> role, NONE if no row
    bans,       \* active RoomBan rows (liftedAt IS NULL): user -> set of ids
    lifted,     \* ids of the RoomBan rows that have been lifted
    req,        \* the request each handler is serving
    overlapped  \* history: handlers whose request was not alone all its life

tables == <<room, role, bans, lifted>>
vars == <<room, role, bans, lifted, req, overlapped>>

--------------------------------------------------------------------------------
(* Types and small helpers *)

Roles == {"OWNER", "ADMIN", "MEMBER"}
RoleOrNone == Roles \cup {"NONE"}

ROLE_RANK == [OWNER |-> 2, ADMIN |-> 1, MEMBER |-> 0]

RoomRow == [status : {"absent", "present", "deleted"},
            visibility : {"public", "private"},
            ownerId : Users \cup {NoUser}]

Ops == {"idle", "create", "update", "delete", "join", "leave", "invite",
        "kick", "ban", "unban", "setRole"}

Pcs == {"idle", "ban", "member", "insert", "remove", "reads", "banTx",
        "findBan", "lift", "target", "setRole", "update", "deleteRoom", "done"}

Idle == [op |-> "idle", pc |-> "idle", actor |-> NoUser, target |-> NoUser,
         actorRole |-> "unread", targetRole |-> "unread",
         arg |-> "none", banRow |-> NoBan]

\* What the DTO of an operation lets through.
ArgsAt(pc) == CASE pc = "update" -> {"public", "private"}
                [] pc \in {"target", "setRole"} -> {"ADMIN", "MEMBER"}
                [] OTHER -> {"none", "public", "private", "ADMIN", "MEMBER"}

Busy == [op : Ops \ {"idle"}, pc : Pcs \ {"idle"}, actor : Users, target : Users,
         actorRole : RoleOrNone \cup {"unread"},
         targetRole : RoleOrNone \cup {"unread"},
         arg : {"none", "public", "private", "ADMIN", "MEMBER"},
         banRow : BanIds \cup {NoBan}]

Request == {Idle} \cup {r \in Busy : r.arg \in ArgsAt(r.pc)}

IsMember(u) == role[u] # "NONE"
Banned(u) == bans[u] # {}
AtLeast(r, minimum) == r # "NONE" /\ ROLE_RANK[r] >= ROLE_RANK[minimum]
Outranks(r, s) == r # "NONE" /\ s # "NONE" /\ ROLE_RANK[r] > ROLE_RANK[s]

\* The row a fresh ban gets: an id no row, active or lifted, has.
FreeBanIds == BanIds \ (lifted \cup UNION {bans[u] : u \in Users})

TypeOK ==
    /\ room \in RoomRow
    /\ role \in [Users -> RoleOrNone]
    /\ bans \in [Users -> SUBSET BanIds]
    /\ lifted \in SUBSET BanIds
    /\ req \in [Handlers -> Request]
    /\ overlapped \in SUBSET Handlers

Init ==
    /\ room = [status |-> "absent", visibility |-> "public", ownerId |-> NoUser]
    /\ role = [u \in Users |-> "NONE"]
    /\ bans = [u \in Users |-> {}]
    /\ lifted = {}
    /\ req = [h \in Handlers |-> Idle]
    /\ overlapped = {}

--------------------------------------------------------------------------------
(* Control flow of a handler *)

\* Handler h goes on with request r; r = Idle frees it.
Serve(h, r) ==
    LET others == {g \in Handlers \ {h} : req[g] # Idle}
        shared == IF others = {} THEN overlapped ELSE overlapped \cup others \cup {h}
    IN /\ req' = [req EXCEPT ![h] = r]
       /\ overlapped' = IF r = Idle THEN shared \ {h} ELSE shared

\* A request of `actor` about `target` has passed its first check and goes on at pc.
Begin(h, op, actor, target, arg, pc) ==
    /\ req[h] = Idle
    /\ Serve(h, [Idle EXCEPT !.op = op, !.actor = actor, !.target = target,
                             !.arg = arg, !.pc = pc])

At(h, pc) == req[h].pc = pc
Goto(h, pc) == Serve(h, [req[h] EXCEPT !.pc = pc])
Abort(h) == Serve(h, Idle) /\ UNCHANGED tables

\* The write is committed: only the controller's part of the request is left.
Finish(h) ==
    Serve(h, [Idle EXCEPT !.op = req[h].op, !.actor = req[h].actor,
                          !.target = req[h].target, !.pc = "done"])

\* The response is sent and the handler is free again.
Reply(h) == At(h, "done") /\ Abort(h)

--------------------------------------------------------------------------------
(* createRoom, updateRoom, deleteRoom *)

\* One interactive transaction creates the room and the OWNER membership.
CreateRoom(h, u, visibility) ==
    /\ room.status = "absent"
    /\ room' = [status |-> "present", visibility |-> visibility, ownerId |-> u]
    /\ role' = [role EXCEPT ![u] = "OWNER"]
    /\ Begin(h, "create", u, u, "none", "done")
    /\ UNCHANGED <<bans, lifted>>

StartUpdate(h, a, visibility) ==
    /\ AtLeast(role[a], "OWNER")
    /\ Begin(h, "update", a, a, visibility, "update")
    /\ UNCHANGED tables

\* Fails when the row is gone (P2025) or the new name is taken (P2002).
UpdateRoom(h) ==
    /\ At(h, "update")
    /\ \/ /\ room.status = "present"
          /\ room' = [room EXCEPT !.visibility = req[h].arg]
          /\ Finish(h)
          /\ UNCHANGED <<role, bans, lifted>>
       \/ Abort(h)

StartDelete(h, a) ==
    /\ AtLeast(role[a], "OWNER")
    /\ Begin(h, "delete", a, a, "none", "deleteRoom")
    /\ UNCHANGED tables

\* deleteAttachmentsByRoom may fail (the object store is another service), and
\* then nothing is deleted.  After it the row goes, and with it (onDelete:
\* Cascade) every membership and every ban; P2025 if it is gone already.
DeleteRoom(h) ==
    /\ At(h, "deleteRoom")
    /\ \/ /\ room.status = "present"
          /\ room' = [room EXCEPT !.status = "deleted"]
          /\ role' = [u \in Users |-> "NONE"]
          /\ bans' = [u \in Users |-> {}]
          /\ lifted' = {}
          /\ Finish(h)
       \/ Abort(h)

--------------------------------------------------------------------------------
(* joinRoom, inviteUser, leaveRoom *)

\* joinRoom reads the room: it must exist and be public.
StartJoin(h, u) ==
    /\ room.status = "present"
    /\ room.visibility = "public"
    /\ Begin(h, "join", u, u, "none", "ban")
    /\ UNCHANGED tables

\* inviteUser reads the actor's membership; the target account exists.
StartInvite(h, a, t) ==
    /\ AtLeast(role[a], "ADMIN")
    /\ Begin(h, "invite", a, t, "none", "member")
    /\ UNCHANGED tables

\* assertNotBanned: joinRoom asks before, inviteUser after the membership check.
CheckNotBanned(h) ==
    /\ At(h, "ban")
    /\ \/ /\ ~Banned(req[h].target)
          /\ Goto(h, IF req[h].op = "join" THEN "member" ELSE "insert")
          /\ UNCHANGED tables
       \/ Banned(req[h].target) /\ Abort(h)

CheckNotMember(h) ==
    /\ At(h, "member")
    /\ \/ /\ ~IsMember(req[h].target)
          /\ Goto(h, IF req[h].op = "join" THEN "insert" ELSE "ban")
          /\ UNCHANGED tables
       \/ IsMember(req[h].target) /\ Abort(h)

\* Mutant: no foreign key to Room.
CanInsert_NoForeignKey(u) == ~IsMember(u)

\* The foreign key and the unique key decide whether the insert succeeds.
CanInsert(u) == room.status = "present" /\ ~IsMember(u)

\* Mutant: the role is taken from the request, which a join does not carry.
InsertMembership_RoleFromRequest(h) ==
    /\ At(h, "insert") /\ CanInsert(req[h].target)
    /\ role' = [role EXCEPT ![req[h].target] = req[h].arg]
    /\ Finish(h)
    /\ UNCHANGED <<room, bans, lifted>>

InsertMembership(h) ==
    /\ At(h, "insert")
    /\ \/ /\ CanInsert(req[h].target)
          /\ role' = [role EXCEPT ![req[h].target] = "MEMBER"]
          /\ Finish(h)
          /\ UNCHANGED <<room, bans, lifted>>
       \/ ~CanInsert(req[h].target) /\ Abort(h)

StartLeave(h, u) ==
    /\ IsMember(u)
    /\ role[u] # "OWNER"
    /\ Begin(h, "leave", u, u, "none", "remove")
    /\ UNCHANGED tables

--------------------------------------------------------------------------------
(* kickMember, banUser, unbanUser, setRole *)

\* Promise.all of the two membership reads: either may be answered first.
\* Nobody can name a room in a request before it has been created.
StartHierarchy(h, op, a, t) ==
    /\ req[h] = Idle
    /\ room.status # "absent"
    /\ \E actorFirst \in BOOLEAN :
         Serve(h, [Idle EXCEPT !.op = op, !.actor = a, !.target = t, !.pc = "reads",
                     !.actorRole = IF actorFirst THEN role[a] ELSE "unread",
                     !.targetRole = IF actorFirst THEN "unread" ELSE role[t]])
    /\ UNCHANGED tables

StartKick(h, a, t) == StartHierarchy(h, "kick", a, t)
StartBan(h, a, t) == FreeBanIds # {} /\ StartHierarchy(h, "ban", a, t)  \* bound

\* Mutant: the actor's role alone decides.
KickAllowed_AnyTarget(actorRole, targetRole) ==
    AtLeast(actorRole, "ADMIN") /\ targetRole # "NONE"

KickAllowed(actorRole, targetRole) == Outranks(actorRole, targetRole)

\* A target that is no member at the time of the read may be banned too.
BanAllowed(actorRole, targetRole) ==
    /\ AtLeast(actorRole, "ADMIN")
    /\ targetRole # "NONE" => Outranks(actorRole, targetRole)

\* The second read is answered and the service decides on both.
FinishReads(h) ==
    LET r == req[h]
        actorRole == IF r.actorRole = "unread" THEN role[r.actor] ELSE r.actorRole
        targetRole == IF r.targetRole = "unread" THEN role[r.target] ELSE r.targetRole
        allowed == IF r.op = "kick" THEN KickAllowed(actorRole, targetRole)
                                    ELSE BanAllowed(actorRole, targetRole)
    IN /\ At(h, "reads")
       /\ \/ /\ allowed
             /\ Serve(h, [r EXCEPT !.pc = IF r.op = "kick" THEN "remove" ELSE "banTx",
                                   !.actorRole = "unread",
                                   !.targetRole = "unread"])
             /\ UNCHANGED tables
          \/ ~allowed /\ Abort(h)

\* The delete of leaveRoom and kickMember, by (roomId, userId); P2025 if gone.
RemoveMembership(h) ==
    /\ At(h, "remove")
    /\ \/ /\ IsMember(req[h].target)
          /\ role' = [role EXCEPT ![req[h].target] = "NONE"]
          /\ Finish(h)
          /\ UNCHANGED <<room, bans, lifted>>
       \/ ~IsMember(req[h].target) /\ Abort(h)

\* Mutant: the membership stays.
BanTransaction_KeepsMembership(h) ==
    /\ At(h, "banTx") /\ room.status = "present"
    /\ \E b \in FreeBanIds : bans' = [bans EXCEPT ![req[h].target] = @ \cup {b}]
    /\ Finish(h)
    /\ UNCHANGED <<room, role, lifted>>

\* One transaction inserts a ban row and deletes the membership, if any.
BanTransaction(h) ==
    /\ At(h, "banTx")
    /\ \/ /\ room.status = "present"
          /\ \E b \in FreeBanIds :
               bans' = [bans EXCEPT ![req[h].target] = @ \cup {b}]
          /\ role' = [role EXCEPT ![req[h].target] = "NONE"]
          /\ Finish(h)
          /\ UNCHANGED <<room, lifted>>
       \/ room.status # "present" /\ Abort(h)

StartUnban(h, a, t) ==
    /\ AtLeast(role[a], "ADMIN")
    /\ Begin(h, "unban", a, t, "none", "findBan")
    /\ UNCHANGED tables

\* findFirst returns one active ban row, in no particular order.
FindBan(h) ==
    /\ At(h, "findBan")
    /\ \/ /\ \E b \in bans[req[h].target] :
               Serve(h, [req[h] EXCEPT !.banRow = b, !.pc = "lift"])
          /\ UNCHANGED tables
       \/ ~Banned(req[h].target) /\ Abort(h)

\* Update by the row's id: lifts that row, and is repeated harmlessly on a
\* row another request has lifted in the meantime.
LiftBan(h) ==
    /\ At(h, "lift")
    /\ \/ /\ req[h].banRow \in bans[req[h].target] \cup lifted
          /\ bans' = [bans EXCEPT ![req[h].target] = @ \ {req[h].banRow}]
          /\ lifted' = lifted \cup {req[h].banRow}
          /\ Finish(h)
          /\ UNCHANGED <<room, role>>
       \/ req[h].banRow \notin bans[req[h].target] \cup lifted /\ Abort(h)

\* Mutant: admins set roles too.
MaySetRole_Admin(r) == AtLeast(r, "ADMIN")

MaySetRole(r) == r = "OWNER"

StartSetRole(h, a, t, newRole) ==
    /\ MaySetRole(role[a])
    /\ Begin(h, "setRole", a, t, newRole, "target")
    /\ UNCHANGED tables

ReadSetRoleTarget(h) ==
    /\ At(h, "target")
    /\ \/ IsMember(req[h].target) /\ Goto(h, "setRole") /\ UNCHANGED tables
       \/ ~IsMember(req[h].target) /\ Abort(h)

\* Mutant: ownership is handed over without updating Room.ownerId.
WriteRole_Transfer(h) ==
    /\ At(h, "setRole") /\ IsMember(req[h].target)
    /\ role' = [role EXCEPT ![req[h].target] = IF req[h].arg = "ADMIN" THEN "OWNER" ELSE "MEMBER"]
    /\ Finish(h)
    /\ UNCHANGED <<room, bans, lifted>>

WriteRole(h) ==
    /\ At(h, "setRole")
    /\ \/ /\ IsMember(req[h].target)
          /\ role' = [role EXCEPT ![req[h].target] = req[h].arg]
          /\ Finish(h)
          /\ UNCHANGED <<room, bans, lifted>>
       \/ ~IsMember(req[h].target) /\ Abort(h)

--------------------------------------------------------------------------------
(* The specification *)

Arrive(h) ==
    \E a \in Users :
        \/ \E v \in {"public", "private"} : CreateRoom(h, a, v) \/ StartUpdate(h, a, v)
        \/ StartDelete(h, a)
        \/ StartJoin(h, a)
        \/ StartLeave(h, a)
        \/ \E t \in Users :
             \/ StartInvite(h, a, t)
             \/ StartKick(h, a, t)
             \/ StartBan(h, a, t)
             \/ StartUnban(h, a, t)
             \/ \E newRole \in {"ADMIN", "MEMBER"} : StartSetRole(h, a, t, newRole)

Proceed(h) ==
    \/ CheckNotBanned(h)
    \/ CheckNotMember(h)
    \/ InsertMembership(h)
    \/ FinishReads(h)
    \/ RemoveMembership(h)
    \/ BanTransaction(h)
    \/ FindBan(h)
    \/ LiftBan(h)
    \/ ReadSetRoleTarget(h)
    \/ WriteRole(h)
    \/ UpdateRoom(h)
    \/ DeleteRoom(h)

Next == \E h \in Handlers : Arrive(h) \/ Proceed(h) \/ Reply(h)

Spec == Init /\ [][Next]_vars

--------------------------------------------------------------------------------
(* Safety *)

\* Owner rights never spread: whatever the role changes in flight, the only
\* account that can hold OWNER is the one the Room row names in ownerId.
OwnerIsCreator == \A u \in Users : role[u] = "OWNER" => u = room.ownerId

\* "Owner is unkickable/unbannable" with every read stale: no kick or ban that
\* has passed its role check can reach the owner while the owner is OWNER,
\* although the check and the write are two queries and roles change between.
OwnerUnremovable ==
    \A h \in Handlers :
        /\ req[h].pc \in {"remove", "banTx"}
        /\ role[req[h].target] = "OWNER"
        => FALSE

\* Cascade and foreign keys leave nothing behind: a request that passed its
\* checks before deleteRoom committed adds no membership and no ban after it.
NoRowsWithoutRoom ==
    room.status # "present" =>
        \A u \in Users : ~IsMember(u) /\ ~Banned(u)

\* "A user banned from a room cannot rejoin until unbanned": no account has a
\* membership and an active ban.
BannedIsNotMember == \A u \in Users : ~(Banned(u) /\ IsMember(u))

\* "Enforced in service: only one active ban per (roomId, userId)".
AtMostOneActiveBan == \A u \in Users : \A b, c \in bans[u] : b = c

\* "Owner cannot leave a room - they can only delete it": the owner of an
\* existing room has a membership in it.
OwnerStays == room.status = "present" => IsMember(room.ownerId)

(* Action properties *)

\* The owner loses OWNER only by deleting the room or by setRole on itself.
OwnerLosesRoleOnlyByItself ==
    [][\A u \in Users :
         role[u] = "OWNER" /\ role'[u] # "OWNER" =>
            \E h \in Handlers :
               /\ req[h].actor = u
               /\ \/ req[h].pc = "deleteRoom"
                  \/ req[h].pc = "setRole" /\ req[h].target = u]_vars

\* Nobody becomes ADMIN but by a request of the room's creator, however old
\* the role that request has read.
AdminOnlyByCreator ==
    [][\A u \in Users :
         role'[u] = "ADMIN" /\ role[u] # "ADMIN" =>
            \E h \in Handlers :
               /\ req[h].pc = "setRole"
               /\ req[h].actor = room.ownerId
               /\ req[h].target = u]_vars

Alone == overlapped \cup overlapped' = {}

\* Only a race lets a banned account in: a request that had the service to
\* itself, in whatever state earlier races left the room, never gives an account
\* both a ban and a membership.
OnlyRacesAdmitBanned ==
    [][Alone /\ BannedIsNotMember => BannedIsNotMember']_vars

\* "Admins can remove other admins (except owner)" (docs/architecture.md:132): an
\* admin's kick or ban of another admin, neither the creator, that has the service
\* to itself is not turned away.  The service does turn it away: it asks for a
\* higher rank.
AdminsRemoveAdmins ==
    [][\A h \in Handlers \ overlapped :
         LET r == req[h] IN
         /\ r.pc = "reads" /\ r.actor # r.target /\ room.ownerId \notin {r.actor, r.target}
         /\ role[r.actor] = "ADMIN" /\ role[r.target] = "ADMIN"
         => req'[h] # Idle]_vars

================================================================================
