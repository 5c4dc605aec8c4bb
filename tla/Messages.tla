--------------------------------- MODULE Messages ---------------------------------
(***************************************************************************)
(* The messages of one chat, a room or a direct-message thread: sending,   *)
(* editing, deleting and reacting in RoomsService and DmService, reached   *)
(* through the gateways, which tell the other clients, or through the      *)
(* controllers.  Each awaited query of a request is one step; a request    *)
(* that ends well may emit an event, and `seen' is what a client that has  *)
(* applied every event so far shows (useRoomSocket, useDmSocket).          *)
(*                                                                         *)
(* The chat exists throughout; attachments are in Attachments.  There is   *)
(* one emoji, and a text stands for a content.                             *)
(***************************************************************************)
EXTENDS Naturals, Sequences

CONSTANTS
    Users,
    Owner,          \* the room's owner: a moderator who stays
    Handlers,       \* requests in flight at the same time
    Ids,            \* bound: message rows the run may create
    Texts,
    Reacting,       \* bound: the users who react
    None

ASSUME OwnerAssumption == Owner \in Users /\ Reacting \subseteq Users
ASSUME NoneAssumption == None \notin Users \cup Ids \cup Texts

\* A Message row; what an event or a client's cache holds of a message.
Row == [author : Users, text : Texts, deleted : BOOLEAN]
Payload == [text : Texts \cup {None}, deleted : BOOLEAN, reactions : SUBSET Users]

ASSUME RecordsAssumption == None \notin Row /\ None \notin Payload

VARIABLES
    kind,           \* "ROOM" or "DM"
    access,         \* users with a membership row, or participants
    banned,         \* users with an active ban (rooms only)
    mods,           \* members of rank ADMIN or OWNER (rooms only)
    rows,           \* message rows by id, or None
    reactions,      \* Reaction rows: <<message, user>>, unique
    seen,           \* what the clients on the chat's channel show, by id, or None
    req,            \* the request each handler is serving
    toggled,        \* history: <<m, u>> with an odd number of toggles that succeeded
    raced,          \* history: messages two requests worked on at once, or one failed on
    silent          \* history: messages changed over REST, which emits no event

tables == <<kind, access, banned, mods, rows, reactions>>
history == <<toggled, raced, silent>>
vars == <<tables, seen, req, history>>

--------------------------------------------------------------------------------

\* The awaits of each operation, in order; "emit" is the gateway's or, for
\* messages sent over REST, the controller's.
RoomPath(op) ==
    CASE op = "send" -> <<"member", "ban", "insert", "emit">>
      [] op = "edit" -> <<"member", "find", "update", "emit">>
      [] op = "delete" -> <<"member", "find", "remove", "emit">>
      [] op = "react" -> <<"member", "ban", "find", "lookup", "toggle", "list", "emit">>

DmPath(op) ==
    CASE op = "send" -> <<"member", "insert", "username", "emit">>
      [] op = "edit" -> <<"find", "update", "emit">>
      [] op = "delete" -> <<"find", "remove", "emit">>
      [] op = "react" -> <<"member", "lookup", "toggle", "list", "emit">>

Path(op) == IF kind = "ROOM" THEN RoomPath(op) ELSE DmPath(op)

\* A handler without a request; what a request holds between its awaits.
Idle == [op |-> "idle", step |-> 0, rest |-> FALSE, actor |-> None, id |-> None,
         text |-> None, mod |-> FALSE, found |-> FALSE, payload |-> None]

Init ==
    /\ kind \in {"ROOM", "DM"}
    /\ access = Users
    /\ banned = {}
    /\ mods = IF kind = "ROOM" THEN {Owner} ELSE {}
    /\ rows = [i \in Ids |-> None]
    /\ reactions = {}
    /\ seen = [i \in Ids |-> None]
    /\ req = [h \in Handlers |-> Idle]
    /\ toggled = {} /\ raced = {} /\ silent = {}

Existing == {i \in Ids : rows[i] # None}
Reactors(i) == {u \in Users : <<i, u>> \in reactions}
At(h, pc) == req[h].op # "idle" /\ Path(req[h].op)[req[h].step] = pc

\* Another request is working on message i.
Busy(h, i) == \E g \in Handlers \ {h} : req[g].id = i

\* The request goes on with r, at its next await.
Advance(h, r) == req' = [req EXCEPT ![h] = [r EXCEPT !.step = @ + 1]]

Finish(h) == req' = [req EXCEPT ![h] = Idle]

\* Throwing, or answering a request that emits nothing.
End(h) == Finish(h) /\ UNCHANGED <<tables, seen, history>>

Check(h, ok) ==
    IF ok THEN Advance(h, req[h]) /\ UNCHANGED <<tables, seen, history>> ELSE End(h)

--------------------------------------------------------------------------------
(* Requests *)

\* A request arrives by socket or by REST; reactions are toggled by socket only,
\* and a message sent to a room over REST is told as one sent by socket.
Arrive(h, op, u, i, t, rest) ==
    /\ req[h] = Idle
    /\ rest => op \in {"edit", "delete"}
    /\ req' = [req EXCEPT ![h] = [Idle EXCEPT !.op = op, !.step = 1, !.rest = rest,
                                              !.actor = u, !.id = i, !.text = t]]
    /\ raced' = IF i # None /\ Busy(h, i) THEN raced \cup {i} ELSE raced
    /\ UNCHANGED <<tables, seen, toggled, silent>>

ArriveSend(h, u) == \E t \in Texts : Arrive(h, "send", u, None, t, FALSE)
ArriveEdit(h, u, i) == \E t \in Texts, rest \in BOOLEAN : Arrive(h, "edit", u, i, t, rest)
ArriveDelete(h, u, i) == \E rest \in BOOLEAN : Arrive(h, "delete", u, i, None, rest)
ArriveReact(h, u, i) == Arrive(h, "react", u, i, None, FALSE)

\* assertMember, which also tells the role, or assertParticipant.
CheckMember(h) ==
    LET u == req[h].actor IN
    /\ At(h, "member")
    /\ \/ /\ u \in access
          /\ Advance(h, [req[h] EXCEPT !.mod = req[h].op = "delete" /\ u \in mods])
          /\ UNCHANGED <<tables, seen, history>>
       \/ u \notin access /\ End(h)

\* assertNotBanned: sending and reacting only.
CheckBan(h) == At(h, "ban") /\ Check(h, req[h].actor \notin banned)

\* Mutant: the deleted message is not refused.
MayChange_Deleted(h, r) ==
    CASE req[h].op = "edit" -> r.author = req[h].actor
      [] req[h].op = "delete" -> r.author = req[h].actor \/ req[h].mod
      [] req[h].op = "react" -> TRUE

\* The author edits, a DM only while it is not deleted; the author deletes, and
\* in a room a moderator; any message may be reacted to.
MayChange(h, r) ==
    CASE req[h].op = "edit" -> r.author = req[h].actor /\ (kind = "DM" => ~r.deleted)
      [] req[h].op = "delete" -> r.author = req[h].actor \/ req[h].mod
      [] req[h].op = "react" -> TRUE

FindMessage(h) == At(h, "find") /\ Check(h, MayChange(h, rows[req[h].id]))

--------------------------------------------------------------------------------
(* Writes *)

\* The next step is the emit of a request that has written message i.
Written(h, i, payload) ==
    IF req[h].rest THEN Finish(h)
    ELSE Advance(h, [req[h] EXCEPT !.id = i, !.payload = payload])

InsertMessage(h) ==
    LET u == req[h].actor IN
    /\ At(h, "insert")
    /\ \E i \in Ids \ Existing :
         /\ rows' = [rows EXCEPT ![i] = [author |-> u, text |-> req[h].text,
                                         deleted |-> FALSE]]
         /\ Written(h, i, [text |-> req[h].text, deleted |-> FALSE, reactions |-> {}])
    /\ UNCHANGED <<kind, access, banned, mods, reactions, seen, history>>

\* getUsernameById, between the insert of a DM and its event.
ReadUsername(h) == At(h, "username") /\ Check(h, TRUE)

\* Mutant: the event of an edit says that the message is not deleted.
EditPayload_Revived(i, t) == [text |-> t, deleted |-> FALSE,
                              reactions |-> IF kind = "ROOM" THEN Reactors(i) ELSE {}]

\* The updated row; a DM's payload has an empty list of reactions.
EditPayload(i, t) == [text |-> t, deleted |-> rows[i].deleted,
                      reactions |-> IF kind = "ROOM" THEN Reactors(i) ELSE {}]

UpdateMessage(h) ==
    LET i == req[h].id IN
    /\ At(h, "update")
    /\ rows' = [rows EXCEPT ![i].text = req[h].text]
    /\ Written(h, i, EditPayload(i, req[h].text))
    /\ silent' = IF req[h].rest THEN silent \cup {i} ELSE silent
    /\ UNCHANGED <<kind, access, banned, mods, reactions, seen, toggled, raced>>

\* deletedAt is set; the row and its content stay.
RemoveMessage(h) ==
    LET i == req[h].id IN
    /\ At(h, "remove")
    /\ rows' = [rows EXCEPT ![i].deleted = TRUE]
    /\ Written(h, i, None)
    /\ silent' = IF req[h].rest THEN silent \cup {i} ELSE silent
    /\ UNCHANGED <<kind, access, banned, mods, reactions, seen, toggled, raced>>

\* The caller's reaction exists or not: found.
LookupReaction(h) ==
    /\ At(h, "lookup")
    /\ Advance(h, [req[h] EXCEPT !.found = <<req[h].id, req[h].actor>> \in reactions])
    /\ UNCHANGED <<tables, seen, history>>

\* Mutant: no unique key, and deleting what is gone is no error (upsert, deleteMany).
Toggles_Lenient(h) == TRUE

\* delete fails without the row (P2025), create with one (P2002).
Toggles(h) == (<<req[h].id, req[h].actor>> \in reactions) = req[h].found

Flip(S, x) == IF x \in S THEN S \ {x} ELSE S \cup {x}

ToggleReaction(h) ==
    LET r == <<req[h].id, req[h].actor>> IN
    /\ At(h, "toggle")
    /\ \/ /\ Toggles(h)
          /\ reactions' = IF req[h].found THEN reactions \ {r} ELSE reactions \cup {r}
          /\ toggled' = Flip(toggled, r)
          /\ Advance(h, req[h])
          /\ UNCHANGED <<kind, access, banned, mods, rows, seen, raced, silent>>
       \/ ~Toggles(h) /\ End(h)

ListReactions(h) ==
    LET i == req[h].id IN
    /\ At(h, "list")
    /\ Advance(h, [req[h] EXCEPT !.payload =
           [text |-> None, deleted |-> FALSE, reactions |-> Reactors(i)]])
    /\ UNCHANGED <<tables, seen, history>>

--------------------------------------------------------------------------------
(* Events *)

\* Mutant: a deletion is not told.
Shown_NoDelete(op, old, new) ==
    CASE op = "send" -> new
      [] op = "edit" -> IF old = None THEN None ELSE new
      [] op = "delete" -> old
      [] op = "react" -> IF old = None THEN None ELSE [old EXCEPT !.reactions = new.reactions]

\* MESSAGE_NEW adds the message, MESSAGE_EDITED replaces it whole if it is
\* there, MESSAGE_DELETED and REACTION_UPDATED change one field of it.
Shown(op, old, new) ==
    CASE op = "send" -> new
      [] op = "edit" -> IF old = None THEN None ELSE new
      [] op = "delete" -> IF old = None THEN None ELSE [old EXCEPT !.deleted = TRUE]
      [] op = "react" -> IF old = None THEN None ELSE [old EXCEPT !.reactions = new.reactions]

Emit(h) ==
    LET i == req[h].id IN
    /\ At(h, "emit")
    /\ seen' = [seen EXCEPT ![i] = Shown(req[h].op, @, req[h].payload)]
    /\ Finish(h)
    /\ UNCHANGED <<tables, history>>

\* A query of h fails, or the process ends: what it has written stays, untold.
Fail(h) ==
    /\ req[h] # Idle
    /\ Finish(h)
    /\ raced' = IF req[h].id # None THEN raced \cup {req[h].id} ELSE raced
    /\ UNCHANGED <<tables, seen, toggled, silent>>

\* Members other than the owner leave, join, are banned, unbanned, promoted and
\* demoted (Rooms).
ChangeMembership(u) ==
    /\ kind = "ROOM" /\ u # Owner
    /\ \/ /\ access' = access \ {u} /\ mods' = mods \ {u}
          /\ banned' \in {banned, banned \cup {u}}
       \/ u \notin banned /\ access' = access \cup {u} /\ UNCHANGED <<banned, mods>>
       \/ banned' = banned \ {u} /\ UNCHANGED <<access, mods>>
       \/ u \in access /\ mods' = Flip(mods, u) /\ UNCHANGED <<access, banned>>
    /\ UNCHANGED <<kind, rows, reactions, seen, req, history>>

HandlerStep(h) ==
    \/ CheckMember(h) \/ CheckBan(h) \/ FindMessage(h)
    \/ InsertMessage(h) \/ ReadUsername(h) \/ UpdateMessage(h) \/ RemoveMessage(h)
    \/ LookupReaction(h) \/ ToggleReaction(h) \/ ListReactions(h)
    \/ Emit(h)

Next ==
    \/ \E h \in Handlers : HandlerStep(h) \/ Fail(h)
    \/ \E h \in Handlers, u \in Users :
         \/ ArriveSend(h, u)
         \/ \E i \in Existing : ArriveEdit(h, u, i) \/ ArriveDelete(h, u, i)
         \/ u \in Reacting /\ \E i \in Existing : ArriveReact(h, u, i)
    \/ \E u \in Users : ChangeMembership(u)

Spec == Init /\ [][Next]_vars

--------------------------------------------------------------------------------
(* Properties *)

\* However two toggles of one user interleave, each that succeeds flips the
\* reaction once: the row is there after an odd number of them.
ReactionsCountToggles == reactions = toggled

\* When no request works on a message, the clients that were there show what
\* the tables hold, unless requests raced on it, one failed in the middle, or
\* it was changed over REST.  (An edited DM shows no reactions, see EditPayload.)
OnlyRacesMisleadClients ==
    \A i \in Existing \ (raced \cup silent) :
        (\A h \in Handlers : req[h].id # i) =>
            /\ seen[i] # None
            /\ seen[i].text = rows[i].text
            /\ seen[i].deleted = rows[i].deleted
            /\ kind = "ROOM" => seen[i].reactions = Reactors(i)

\* A deleted message comes back on the clients' screens only when an edit and
\* the deletion raced: the edit's event then carries the row as it was before.
OnlyRacesRevive ==
    [][\A i \in Ids : seen[i] # None /\ seen[i].deleted /\ ~seen'[i].deleted => i \in raced]_vars

\* The content of a deleted DM is fixed, unless an edit had read the message
\* before its deletion.  (A room's editMessage does not look at deletedAt.)
DeletedIsFrozen ==
    [][kind = "DM" =>
         \A i \in Existing : rows[i].deleted /\ rows'[i].text # rows[i].text => i \in raced]_vars

================================================================================
