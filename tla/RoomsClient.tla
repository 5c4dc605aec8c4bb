-------------------------------- MODULE RoomsClient --------------------------------
(***************************************************************************)
(* One room as one user's client sees it: the cached queries (the user's   *)
(* rooms, the public rooms, the room's detail and its bans), the dialogs   *)
(* that show them (discover, create, settings, invite), the requests their *)
(* buttons send, and the invalidations that bring the effects of these,    *)
(* and the member events, back into the caches.                            *)
(*                                                                         *)
(* The room has the user, one other, and staff that may be the user's own  *)
(* second device.  The server answers a request in one step; Rooms has it  *)
(* step by step.  Names, counts and unread messages are left out, and what *)
(* the owner edits is whether the room is private.                         *)
(***************************************************************************)
EXTENDS Integers, FiniteSets

CONSTANTS
    MaxBans,        \* bound: active bans of the other
    MaxChanges,     \* bound: changes made by others, and disconnections
    MaxTraffic,     \* bound: what is on its way when anybody starts something new
    Uses,           \* bound: the panes, "discover", "info", "members" and "bans", of which
                    \* the user uses one in a run; what it does not show stays
    Asked, Refused, None

ASSUME BoundAssumption ==
    /\ MaxBans \in Nat /\ MaxChanges \in Nat /\ MaxTraffic \in Nat
    /\ Uses \subseteq {"discover", "info", "members", "bans"}

Queries == {"list", "public", "detail", "bans"}

\* What a pane shows.
PaneQueries == [discover |-> {"list", "public"}, info |-> {"list", "detail"},
                members |-> {"detail"}, bans |-> {"detail", "bans"}]

VARIABLES
    uses,           \* the pane the user uses
    room,           \* "new", "yes" or "gone"
    private,
    mine, theirs,   \* the roles of the user and of the other, or "NONE"
    barred,         \* the user has an active ban
    changes,        \* how many changes others have made
    bans,           \* how many active bans the other has
    online,         \* the client's socket is connected
    hears,          \* and in room:{id}
    events,         \* how many member events are on their way to it
    cache,          \* per query: its data, or None
    fetch,          \* per query: None, Asked or the response
    failed,         \* the detail's last fetch failed
    open,           \* activeView is the room
    calls,          \* requests of the user on their way
    excused,        \* history: queries that nothing told of a change
    misled          \* history: a button was refused what it rightly offered

server == <<room, private, mine, theirs, barred, bans>>
socket == <<online, hears>>
client == <<cache, fetch, failed, open, calls, misled>>
vars == <<uses, changes, server, socket, events, client, excused>>

--------------------------------------------------------------------------------
(* What the server answers *)

\* "NONE" is no membership.
ROLE_RANK == [NONE |-> -1, MEMBER |-> 0, ADMIN |-> 1, OWNER |-> 2]

\* NONE is what the client makes of not being a member.
Roles == {"NONE", "MEMBER", "ADMIN", "OWNER"}

\* What getRoom tells of the two members and the room.
Details == [mine : Roles, theirs : Roles, private : BOOLEAN]

ASSUME ValueAssumption ==
    /\ Asked # Refused /\ Asked # None /\ Refused # None
    /\ {Asked, Refused, None} \cap (Nat \cup BOOLEAN \cup Roles \cup Details \cup {"ok", "refused"}) = {}

\* getRoom: members only, if the room is private.
Detail ==
    IF room = "yes" /\ (private => mine # "NONE")
    THEN [mine |-> mine, theirs |-> theirs, private |-> private]
    ELSE Refused

\* getActiveBans
ActiveBans == IF ROLE_RANK[mine] >= ROLE_RANK["ADMIN"] THEN bans ELSE Refused

\* searchPublic
Public == room = "yes" /\ ~private

Relation == [list |-> mine, public |-> Public, detail |-> Detail, bans |-> ActiveBans]

Changed == {q \in PaneQueries[uses] : Relation'[q] # Relation[q]}

--------------------------------------------------------------------------------
(* What the client shows *)

\* The header, and with it the settings: not while the detail is missing or
\* its last fetch has failed.
HeaderShown == open /\ cache["detail"] # None /\ ~failed

\* myRole ?? 'MEMBER'
MyRole == IF cache["detail"].mine = "NONE" THEN "MEMBER" ELSE cache["detail"].mine

\* The role decides whether the bans are asked for.
BansShown == HeaderShown /\ MyRole \in {"ADMIN", "OWNER"}

\* The list and the public rooms are always there.
Active(q) ==
    /\ q \in PaneQueries[uses]
    /\ q = "detail" => open
    /\ q = "bans" => BansShown

--------------------------------------------------------------------------------

\* The other is a member from the start, and then banned, where the bans are used.
OtherShown == uses \in {"members", "bans"}

TheirRoles ==
    CASE uses = "members" -> {"NONE", "MEMBER", "ADMIN"}
      [] uses = "bans" -> {"MEMBER"}
      [] OTHER -> {"NONE"}

Init ==
    /\ uses \in Uses
    /\ \/ /\ room = "new" /\ uses = "discover"
          /\ mine = "NONE" /\ theirs = "NONE" /\ private = FALSE
       \/ /\ room = "yes" /\ private \in IF OtherShown THEN {FALSE} ELSE BOOLEAN
          /\ mine \in Roles
          /\ theirs \in TheirRoles
    /\ barred = FALSE /\ bans = 0 /\ changes = 0
    /\ online = TRUE /\ hears = (mine # "NONE") /\ events = 0
    /\ cache = [q \in Queries |-> None]
    /\ fetch = [q \in Queries |-> IF q \in PaneQueries[uses] \cap {"list", "public"}
                                  THEN Asked ELSE None]
    /\ failed = FALSE /\ open = FALSE
    /\ calls = {}
    /\ excused = {} /\ misled = FALSE

\* Nothing new is started while too much is on its way.
Quiet ==
    Cardinality({q \in Queries : fetch[q] # None}) + Cardinality(calls) + events < MaxTraffic

Change == Quiet /\ changes < MaxChanges /\ changes' = changes + 1

--------------------------------------------------------------------------------
(* The other, the staff, and the user's other devices *)

\* A member event reaches the channel: the client is told of its rooms and the
\* detail, not of the bans.
Told ==
    IF hears'
    THEN events' = events + 1 /\ excused' = excused \cup (Changed \ {"list", "detail"})
    ELSE excused' = excused \cup Changed /\ UNCHANGED events

Untold == excused' = excused \cup Changed /\ UNCHANGED events

\* MEMBER_JOINED: the other joins or is invited, or the user is invited.
MemberJoins ==
    /\ room = "yes" /\ Change
    /\ \/ /\ uses = "members" /\ theirs = "NONE" /\ bans = 0 /\ theirs' = "MEMBER"
          /\ UNCHANGED <<mine, hears>>
       \/ /\ mine = "NONE" /\ ~barred /\ mine' = "MEMBER" /\ hears' = online
          /\ UNCHANGED theirs
    /\ UNCHANGED <<uses, room, private, barred, bans, online, client>>
    /\ Told

\* MEMBER_LEFT, MEMBER_KICKED
MemberGoes ==
    /\ Change
    /\ \/ uses = "members" /\ theirs # "NONE" /\ theirs' = "NONE" /\ UNCHANGED mine
       \/ mine \in {"MEMBER", "ADMIN"} /\ mine' = "NONE" /\ UNCHANGED theirs
    /\ UNCHANGED <<uses, room, private, barred, bans, socket, client>>
    /\ Told

\* MEMBER_BANNED, also of somebody who is not a member.
MemberBanned ==
    /\ room = "yes" /\ Change
    /\ \/ /\ OtherShown /\ bans < MaxBans
          /\ theirs' = "NONE" /\ bans' = bans + 1 /\ UNCHANGED <<mine, barred>>
       \/ /\ uses = "discover" /\ mine # "OWNER"
          /\ mine' = "NONE" /\ barred' = TRUE
          /\ UNCHANGED <<theirs, bans>>
    /\ UNCHANGED <<uses, room, private, socket, client>>
    /\ Told

\* unbanUser emits nothing ...
Unbanned ==
    /\ room = "yes" /\ Change
    /\ \/ bans > 0 /\ bans' = bans - 1 /\ UNCHANGED barred
       \/ barred' = FALSE /\ UNCHANGED bans
    /\ UNCHANGED <<uses, room, private, mine, theirs, socket, client>>
    /\ Untold

\* ... nor does setRole ...
RoleSet ==
    /\ Change
    /\ \E role \in {"MEMBER", "ADMIN"} :
         \/ uses = "members" /\ theirs # "NONE" /\ theirs' = role /\ UNCHANGED mine
         \/ mine \in {"MEMBER", "ADMIN"} /\ mine' = role /\ UNCHANGED theirs
    /\ UNCHANGED <<uses, room, private, barred, bans, socket, client>>
    /\ Untold

\* ... nor updateRoom ...
RoomUpdated ==
    /\ ~OtherShown /\ room = "yes" /\ Change
    /\ private' = ~private
    /\ UNCHANGED <<uses, room, mine, theirs, barred, bans, socket, client>>
    /\ Untold

\* The room's rows go with it.
DropRoom ==
    /\ room' = "gone" /\ mine' = "NONE" /\ theirs' = "NONE"
    /\ barred' = FALSE /\ bans' = 0
    /\ UNCHANGED private

\* ... nor deleteRoom.
RoomDeleted ==
    /\ room = "yes" /\ Change
    /\ DropRoom
    /\ UNCHANGED <<uses, socket, client>>
    /\ Untold

--------------------------------------------------------------------------------
(* The cached queries *)

\* The bans are fetched when their tab's query appears.
MountBans(f) ==
    fetch' = IF Active("bans")' /\ ~Active("bans") /\ f["bans"] = None
             THEN [f EXCEPT !["bans"] = Asked] ELSE f

\* A header that goes takes the state of its dialogs' requests with it.
Mounted(cs) ==
    IF HeaderShown' THEN cs
    ELSE {[c EXCEPT !.pending = c.pending /\ c.op \in {"create", "join"}] : c \in cs}

\* invalidateQueries: what is shown is asked for again, in place of a fetch on
\* its way, unless that is the first and there is no data to go back to.
Refetched(queries) == {q \in queries : Active(q) /\ (cache[q] # None \/ fetch[q] = None)}

Invalidate(queries) ==
    /\ fetch' = [q \in Queries |-> IF q \in Refetched(queries) THEN Asked ELSE fetch[q]]
    /\ excused' = excused \cup {q \in queries \ Refetched(queries) : fetch[q] \notin {None, Asked}}

\* The browser's window gets the focus.
Refetch(q) ==
    /\ Active(q) /\ fetch[q] = None /\ Quiet
    /\ fetch' = [fetch EXCEPT ![q] = Asked]
    /\ UNCHANGED <<uses, changes, server, socket, events, cache, failed, open, calls, excused, misled>>

ReadFetch(q) ==
    /\ fetch[q] = Asked /\ Relation[q] # Refused
    /\ fetch' = [fetch EXCEPT ![q] = Relation[q]]
    /\ excused' = excused \ {q}
    /\ UNCHANGED <<uses, changes, server, socket, events, cache, failed, open, calls, misled>>

ReceiveFetch(q) ==
    /\ fetch[q] \notin {None, Asked}
    /\ cache' = [cache EXCEPT ![q] = fetch[q]]
    /\ failed' = (failed /\ q # "detail")
    /\ UNCHANGED <<uses, changes, server, socket, events, open, excused, misled>>
    /\ MountBans([fetch EXCEPT ![q] = None])
    /\ calls' = Mounted(calls)

\* After its retries, refused or lost.  Data stay, but the detail's are hidden.
FetchFails(q) ==
    /\ fetch[q] # None
    /\ failed' = (failed \/ q = "detail")
    /\ fetch' = [fetch EXCEPT ![q] = None]
    /\ excused' = IF q = "detail" THEN excused ELSE excused \cup {q}
    /\ UNCHANGED <<uses, changes, server, socket, events, cache, open, misled>>
    /\ calls' = Mounted(calls)

\* gcTime: the room has not been shown for five minutes.
CollectRoom ==
    /\ ~open /\ fetch["detail"] = None /\ fetch["bans"] = None
    /\ cache' = [cache EXCEPT !["detail"] = None, !["bans"] = None]
    /\ failed' = FALSE
    /\ UNCHANGED <<uses, changes, server, socket, events, fetch, open, calls, excused, misled>>

--------------------------------------------------------------------------------
(* Member events *)

\* Mutant: a member event refreshes the detail only.
InvalidatedByEvent_DetailOnly == {"detail"}

\* onMemberEvent
InvalidatedByEvent == {"detail", "list"}

ReceiveEvent ==
    /\ events > 0
    /\ events' = events - 1
    /\ Invalidate(InvalidatedByEvent)
    /\ UNCHANGED <<uses, changes, server, socket, cache, failed, open, calls, misled>>

\* The connection breaks: the events on their way are lost.
Disconnect ==
    /\ online /\ Change
    /\ online' = FALSE /\ hears' = FALSE
    /\ events' = 0
    /\ excused' = IF events > 0 THEN excused \cup ({"list", "detail"} \cap PaneQueries[uses]) ELSE excused
    /\ UNCHANGED <<uses, server, client>>

\* handleConnection joins the channels of the rooms the user is in; the client
\* fetches nothing again.
Reconnect ==
    /\ ~online
    /\ online' = TRUE /\ hears' = (mine # "NONE")
    /\ UNCHANGED <<uses, changes, server, events, client, excused>>

--------------------------------------------------------------------------------
(* What the user does *)

\* A row of the list is clicked.
OpenRoom ==
    /\ uses # "discover" /\ ~open
    /\ OtherShown \/ cache["list"] \notin {None, "NONE"}
    /\ open' = TRUE
    /\ UNCHANGED <<uses, changes, server, socket, events, cache, failed, calls, excused, misled>>
    /\ MountBans(IF fetch["detail"] = None THEN [fetch EXCEPT !["detail"] = Asked] ELSE fetch)

\* Another chat is opened.
CloseRoom ==
    /\ open
    /\ open' = FALSE
    /\ UNCHANGED <<uses, changes, server, socket, events, cache, fetch, failed, excused, misled>>
    /\ calls' = Mounted(calls)

\* The requests whose buttons wait for them.
Awaited == {"create", "join", "update", "delete", "invite"}

Call(op, arg, offer) ==
    [op |-> op, arg |-> arg, offer |-> offer, pending |-> op \in Awaited, answer |-> None, effect |-> {}]

Pending(op) == \E c \in calls : c.op = op /\ c.pending

Send(call) ==
    /\ Quiet
    /\ call \notin calls /\ calls' = calls \cup {call}
    /\ UNCHANGED <<uses, changes, server, socket, events, cache, fetch, failed, open, excused, misled>>

\* CreateRoomDialog
ClickCreate ==
    /\ uses = "discover" /\ ~Pending("create")
    /\ \E isPrivate \in BOOLEAN : Send(Call("create", isPrivate, None))

\* RoomDiscoverDialog: `myRole' is never there, so that everybody may try.
ClickJoin ==
    /\ uses = "discover"
    /\ cache["public"] = TRUE /\ ~Pending("join")
    /\ Send(Call("join", None, cache["public"]))

\* RoomSettingsDialog: the Info tab.
ClickSave ==
    /\ uses = "info" /\ HeaderShown /\ MyRole = "OWNER" /\ ~Pending("update")
    /\ \E isPrivate \in BOOLEAN : Send(Call("update", isPrivate, cache["detail"]))

ClickDelete ==
    /\ uses = "info" /\ HeaderShown /\ MyRole = "OWNER" /\ ~Pending("delete")
    /\ Send(Call("delete", None, cache["detail"]))

\* The Members tab; its buttons stay while their requests are on their way.
Listed == OtherShown /\ HeaderShown /\ cache["detail"].theirs # "NONE"

ClickRole ==
    /\ uses = "members" /\ Listed /\ MyRole = "OWNER"
    /\ Send(Call("role", IF cache["detail"].theirs = "ADMIN" THEN "MEMBER" ELSE "ADMIN",
                 cache["detail"]))

\* Mutant: the rank of the member is not looked at.
CanAct_AnyMember == MyRole \in {"ADMIN", "OWNER"}

CanAct ==
    MyRole \in {"ADMIN", "OWNER"} /\ ROLE_RANK[MyRole] > ROLE_RANK[cache["detail"].theirs]

ClickKick == uses = "members" /\ Listed /\ CanAct /\ Send(Call("kick", None, cache["detail"]))

ClickBan ==
    /\ Listed /\ CanAct
    /\ bans + Cardinality({c \in calls : c.op = "ban"}) < MaxBans
    /\ Send(Call("ban", None, cache["detail"]))

\* The Bans tab.
ClickUnban ==
    /\ uses = "bans" /\ BansShown /\ cache["bans"] \notin {None, 0}
    /\ Send(Call("unban", None, <<cache["detail"], cache["bans"]>>))

\* InviteUserDialog, which every role is offered.
ClickInvite ==
    /\ uses = "members" /\ HeaderShown /\ ~Pending("invite")
    /\ Send(Call("invite", None, None))

\* The dialogs' handleClose: reset forgets a request that is on its way.
CloseDialog(op) ==
    /\ Pending(op)
    /\ calls' = {[c EXCEPT !.pending = c.pending /\ c.op # op] : c \in calls}
    /\ UNCHANGED <<uses, changes, server, socket, events, cache, fetch, failed, open, excused, misled>>

--------------------------------------------------------------------------------
(* The server's answers *)

Outranks == ROLE_RANK[mine] > ROLE_RANK[theirs]
Staff == ROLE_RANK[mine] >= ROLE_RANK["ADMIN"]

Allowed(op) ==
    CASE op = "create" -> room = "new"
      [] op = "join" -> Public /\ ~barred /\ mine = "NONE"
      [] op \in {"update", "delete"} -> mine = "OWNER"
      [] op = "role" -> mine = "OWNER" /\ theirs # "NONE"
      [] op = "kick" -> theirs # "NONE" /\ Outranks
      [] op = "ban" -> Staff /\ Outranks
      [] op = "unban" -> Staff /\ bans > 0
      [] op = "invite" -> Staff /\ theirs = "NONE" /\ bans = 0

\* What the request changes.
Perform(c) ==
    \/ c.op = "delete" /\ DropRoom
    \/ /\ c.op # "delete"
       /\ room' = "yes"
       /\ private' = IF c.op \in {"create", "update"} THEN c.arg ELSE private
       /\ mine' = CASE c.op = "create" -> "OWNER" [] c.op = "join" -> "MEMBER" [] OTHER -> mine
       /\ theirs' = CASE c.op = "role" -> c.arg
                      [] c.op \in {"kick", "ban"} -> "NONE"
                      [] c.op = "invite" -> "MEMBER"
                      [] OTHER -> theirs
       /\ bans' = CASE c.op = "ban" -> bans + 1 [] c.op = "unban" -> bans - 1 [] OTHER -> bans
       /\ UNCHANGED barred

\* What no event and no invalidation of the client itself tells it of: a ban's
\* entry among the bans, a room that becomes or ceases to be public, and the
\* detail of a room it has deleted.
Forgotten(op) ==
    CASE op = "ban" -> {"bans"}
      [] op \in {"create", "update"} -> {"public"}
      [] op = "delete" -> {"public", "detail", "bans"}
      [] OTHER -> {}

Grant(c) ==
    /\ Perform(c)
    /\ hears' = IF c.op \in {"create", "join"} THEN online ELSE hears
    /\ events' = IF hears' /\ c.op \in {"join", "invite", "kick", "ban"} THEN events + 1 ELSE events
    /\ excused' = excused \cup (Changed \cap Forgotten(c.op))
    /\ calls' = (calls \ {c}) \cup {[c EXCEPT !.answer = "ok", !.effect = Changed]}
    /\ UNCHANGED <<uses, changes, online, cache, fetch, failed, open, misled>>

\* What the button of c was drawn from, as it is now.
Now(op) ==
    CASE op = "join" -> IF barred \/ mine # "NONE" THEN Refused ELSE Public
      [] op = "unban" -> <<Detail, ActiveBans>>
      [] OTHER -> Detail

Refuse(c) ==
    /\ misled' = (misled \/ (c.offer # None /\ Now(c.op) = c.offer))
    /\ calls' = (calls \ {c}) \cup {[c EXCEPT !.answer = "refused"]}
    /\ UNCHANGED <<uses, changes, server, socket, events, cache, fetch, failed, open, excused>>

Process(c) == c.answer = None /\ IF Allowed(c.op) THEN Grant(c) ELSE Refuse(c)

\* The hooks' onSuccess.
InvalidatedOnSuccess(op) ==
    CASE op \in {"create", "delete"} -> {"list"}
      [] op \in {"join", "update"} -> {"list", "detail"}
      [] op \in {"invite", "kick", "ban", "role"} -> {"detail"}
      [] op = "unban" -> {"detail", "bans"}

CallSucceeds(c) ==
    /\ c.answer = "ok"
    /\ Invalidate(InvalidatedOnSuccess(c.op))
    /\ calls' = calls \ {c}
    /\ UNCHANGED <<uses, changes, server, socket, events, cache, failed, open, misled>>

\* The request is refused, or it or its answer is lost.
CallFails(c) ==
    /\ calls' = calls \ {c}
    /\ excused' = excused \cup c.effect
    /\ UNCHANGED <<uses, changes, server, socket, events, cache, fetch, failed, open, misled>>

--------------------------------------------------------------------------------

Next ==
    \/ MemberJoins \/ MemberGoes \/ MemberBanned
    \/ Unbanned \/ RoleSet \/ RoomUpdated \/ RoomDeleted
    \/ \E q \in Queries : Refetch(q) \/ ReadFetch(q) \/ ReceiveFetch(q) \/ FetchFails(q)
    \/ CollectRoom \/ ReceiveEvent \/ Disconnect \/ Reconnect
    \/ OpenRoom \/ CloseRoom
    \/ ClickCreate \/ ClickJoin \/ ClickSave \/ ClickDelete \/ ClickRole
    \/ ClickKick \/ ClickBan \/ ClickUnban \/ ClickInvite
    \/ \E op \in {"create", "invite"} : CloseDialog(op)
    \/ \E c \in calls : Process(c) \/ CallSucceeds(c) \/ CallFails(c)

Spec == Init /\ [][Next]_vars

--------------------------------------------------------------------------------
(* Properties *)

\* When no request and no event is on its way, a query that is shown and not
\* being fetched has what the server has, unless the last change was told by
\* nothing (roles, unbans, edits and deletions by others, what the client
\* forgets of its own), or the telling event, answer or fetch was lost or came
\* too late.
OnlyUntoldChangesStale ==
    calls = {} /\ events = 0 =>
        \A q \in Queries :
            /\ Active(q) /\ fetch[q] = None /\ cache[q] # None
            /\ q = "detail" => ~failed
            => cache[q] = Relation[q] \/ q \in excused

\* A button offers only what the server will grant: it refuses only when what
\* the button was drawn from is no longer what the server has.  ("Join" is
\* also offered to members and to banned users, "Invite" to everybody.)
OnlyStaleOffersRefused == ~misled

================================================================================
