---------------------------------- MODULE ChatList ----------------------------------
(***************************************************************************)
(* The unread count of one chat, for one user and client: what the server  *)
(* counts (listThreads, listMyRooms) after the mark it keeps for the user  *)
(* (markThreadRead, markRoomRead), and the chat's row in the cached list   *)
(* the sidebar shows, which is fetched now and then, counted up by         *)
(* MESSAGE_NEW events and set to zero by the answer to a mark              *)
(* (useDmSocket, useRoomSocket, useMarkThreadRead, useMarkRoomRead).  A    *)
(* count is nothing but a number: nobody can tell which messages it is of. *)
(* A gateway awaits more between the insert of a message and its event, so *)
(* that the events of two sends may leave in either order.                 *)
(*                                                                         *)
(* Each row is looked up by its id, so that the other chats matter only    *)
(* while one of them is open.  The user stays in the chat and the socket   *)
(* on its channel; the messages a window shows are in MessageCache.        *)
(***************************************************************************)
EXTENDS Naturals, Sequences, SequencesExt, FiniteSetsExt

CONSTANTS
    MaxMessages,    \* bound: messages the run may post
    MaxMarks,       \* bound: marks on their way at a time
    None

ASSUME BoundAssumption == MaxMessages \in Nat /\ MaxMarks \in Nat
ASSUME NoneAssumption == None \notin Nat

VARIABLES
    kind,           \* "ROOM" or "DM"
    posted,         \* the message rows, oldest first: is it the user's own?
    deleted,        \* messages of a room with a deletedAt
    lastRead,       \* lastReadAt: the last message it covers, or None
    unsent,         \* messages whose MESSAGE_NEW has not been emitted yet
    channel,        \* MESSAGE_NEW events on their way, in the order they left
    active,         \* activeView: "this" chat, an "other" one, or None
    list,           \* the cached list's row of the chat, or None
    fetch,          \* the fetch of the list, or None
    asked,          \* markRead requests on their way to the server
    answered,       \* their answers on their way back
    waiting,        \* history: messages of others the user has not been shown
    excused,        \* history: waiting messages a race took out of the count
    outdated        \* history: a race took the preview back

server == <<posted, deleted, lastRead>>
events == <<unsent, channel>>
marks == <<asked, answered>>
history == <<waiting, excused, outdated>>
vars == <<kind, server, events, active, list, fetch, marks, history>>

--------------------------------------------------------------------------------

Init ==
    /\ kind \in {"ROOM", "DM"}
    /\ posted = <<>> /\ deleted = {} /\ lastRead = None
    /\ unsent = {} /\ channel = <<>>
    /\ active = None
    /\ list = None /\ fetch = None
    /\ asked = 0 /\ answered = 0
    /\ waiting = {} /\ excused = {} /\ outdated = FALSE

InChannel == ToSet(channel)

\* Messages the client may still be told of.
Coming == InChannel \cup unsent

--------------------------------------------------------------------------------
(* The server *)

\* The user, on another device, or somebody else posts: the message is inserted,
\* the gateway awaits more before it emits.
Post(own) ==
    LET m == Len(posted) + 1 IN
    /\ m <= MaxMessages
    /\ posted' = Append(posted, own)
    /\ unsent' = unsent \cup {m}
    /\ waiting' = IF own THEN waiting ELSE waiting \cup {m}
    /\ UNCHANGED <<kind, deleted, lastRead, channel, active, list, fetch, marks,
                   excused, outdated>>

EmitNew(m) ==
    /\ m \in unsent
    /\ unsent' = unsent \ {m}
    /\ channel' = Append(channel, m)
    /\ UNCHANGED <<kind, server, active, list, fetch, marks, history>>

\* MESSAGE_DELETED changes the messages shown, not the list; a deleted message
\* of a thread counts as before.
DeleteMessage(m) ==
    /\ kind = "ROOM" /\ m \in DOMAIN posted /\ m \notin deleted
    /\ deleted' = deleted \cup {m}
    /\ UNCHANGED <<kind, posted, lastRead, events, active, list, fetch, marks, history>>

\* listThreads: what others have posted after the mark, or ever.
DmUnread(mark) == {m \in DOMAIN posted : ~posted[m] /\ (mark = None \/ m > mark)}

\* listMyRooms: what anyone has posted after the mark and not deleted, and
\* nothing in a room that was never opened.
RoomUnread(mark) ==
    IF mark = None THEN {} ELSE {m \in DOMAIN posted \ deleted : m > mark}

Unread(mark) == IF kind = "DM" THEN DmUnread(mark) ELSE RoomUnread(mark)

\* The rows, with lastReadAt and, of a thread, the last message.
LastMessage == IF kind = "ROOM" \/ posted = <<>> THEN None ELSE Len(posted)

ReadRows ==
    /\ fetch # None /\ fetch.step = "asked"
    /\ fetch' = [fetch EXCEPT !.step = "rows", !.mark = lastRead, !.last = LastMessage]
    /\ UNCHANGED <<kind, server, events, active, list, marks, history>>

\* A count for each row.
CountUnread ==
    /\ fetch # None /\ fetch.step = "rows"
    /\ fetch' = [fetch EXCEPT !.step = "counted", !.counted = Len(posted),
                              !.unread = Cardinality(Unread(fetch.mark))]
    /\ UNCHANGED <<kind, server, events, active, list, marks, history>>

\* markThreadRead, markRoomRead: the thread or membership is there, and
\* lastReadAt becomes now.
ProcessMark ==
    /\ asked > 0
    /\ lastRead' = Len(posted)
    /\ asked' = asked - 1 /\ answered' = answered + 1
    /\ UNCHANGED <<kind, posted, deleted, events, active, list, fetch, history>>

--------------------------------------------------------------------------------
(* The chat that is open *)

\* The effect of DmChatWindow and RoomChatWindow when their chat changes.
\* Whatever came before the window was mounted is in it.
MarkRead == asked' = asked + 1 /\ waiting' = waiting \cap Coming

\* A row of the sidebar is clicked, or clearActive is called.  A thread's window
\* needs the thread in the list.
Select(view) ==
    /\ active # view
    /\ active' = view
    /\ IF view = "this" /\ (kind = "ROOM" \/ list # None)
       THEN asked + answered < MaxMarks /\ MarkRead
       ELSE UNCHANGED <<asked, waiting>>
    /\ UNCHANGED <<kind, server, events, list, fetch, answered, excused, outdated>>

--------------------------------------------------------------------------------
(* The cached list *)

NewFetch == [step |-> "asked", mark |-> None, last |-> None, counted |-> 0, unread |-> 0]

\* The list is mounted, or the browser's window gets the focus: a fetch on its
\* way is joined.
RefetchList ==
    /\ fetch = None
    /\ fetch' = NewFetch
    /\ UNCHANGED <<kind, server, events, active, list, marks, history>>

\* onMemberEvent, useStartThread and others: a fetch on its way is cancelled,
\* the first one, without a list yet, is joined.
InvalidateList ==
    /\ list # None \/ fetch = None
    /\ fetch' = NewFetch
    /\ UNCHANGED <<kind, server, events, active, list, marks, history>>

FetchFails ==
    /\ fetch # None
    /\ fetch' = None
    /\ UNCHANGED <<kind, server, events, active, list, marks, history>>

Newer(m, n) == n = None \/ m > n

\* Messages later than n the client has been told of, or never will be.
ToldAfter(n) == {m \in DOMAIN posted : Newer(m, n)} \ Coming

\* Waiting messages that a response leaves out: in a room without a mark; older
\* than the mark, though not shown; or later than the count.
LeftOut ==
    LET mark == fetch.mark IN
    IF kind = "ROOM" /\ mark = None THEN waiting \ Coming
    ELSE waiting \cap ({m \in DOMAIN posted : mark # None /\ m <= mark}
                       \cup ToldAfter(fetch.counted))

\* The list is replaced, whatever was counted meanwhile.
ReceiveList ==
    /\ fetch # None /\ fetch.step = "counted"
    /\ list' = [unread |-> fetch.unread, last |-> fetch.last]
    /\ fetch' = None
    /\ IF list = None /\ kind = "DM" /\ active = "this"
       THEN MarkRead
       ELSE UNCHANGED <<asked, waiting>>
    /\ excused' = LeftOut
    /\ outdated' = (kind = "DM" /\ ToldAfter(fetch.last) # {})
    /\ UNCHANGED <<kind, server, events, active, answered>>

\* Mutant: the user is taken to watch whenever a chat is open.
Background_NoneOpen == active = None

\* isBackground
Background == active # "this"

\* Mutant: the thread the user watches keeps its preview.
DmNew_WatchedUntouched(m) ==
    IF Background THEN [last |-> m, unread |-> list.unread + 1] ELSE list

\* onMessageNew of useDmSocket.
DmNew(m) ==
    [last |-> m, unread |-> IF Background THEN list.unread + 1 ELSE list.unread]

\* onMessageNew of useRoomSocket.
RoomNew == IF Background THEN [list EXCEPT !.unread = @ + 1] ELSE list

\* Without a list the event is forgotten; the last event to come is the preview,
\* though a later message's came before it.
ReceiveMessage ==
    LET m == Head(channel)
        shown == active = "this" /\ (kind = "ROOM" \/ list # None)
    IN
    /\ channel # <<>>
    /\ channel' = Tail(channel)
    /\ list' = IF list = None THEN None ELSE IF kind = "DM" THEN DmNew(m) ELSE RoomNew
    /\ waiting' = IF shown THEN waiting \ {m} ELSE waiting
    /\ outdated' = IF kind = "DM" /\ list # None THEN ToldAfter(m) # {} ELSE outdated
    /\ UNCHANGED <<kind, server, unsent, active, fetch, marks, excused>>

\* onSuccess: the count is zero, also of messages that came after the mark.
MarkAnswered ==
    /\ answered > 0
    /\ answered' = answered - 1
    /\ list' = IF list = None THEN None ELSE [list EXCEPT !.unread = 0]
    /\ excused' = excused \cup (waiting \ Coming)
    /\ UNCHANGED <<kind, server, events, active, fetch, asked, waiting, outdated>>

\* The request or its answer is lost; nobody asks again.
MarkFails ==
    /\ \/ asked > 0 /\ asked' = asked - 1 /\ UNCHANGED answered
       \/ answered > 0 /\ answered' = answered - 1 /\ UNCHANGED asked
    /\ UNCHANGED <<kind, server, events, active, list, fetch, history>>

\* The client will never be told of these messages.
Miss(missed) ==
    /\ excused' = excused \cup (waiting \cap missed)
    /\ outdated' = (outdated \/ (kind = "DM" /\ list # None
                                  /\ \E m \in missed : Newer(m, list.last)))

\* The connection breaks and comes back: the events on their way, and all that
\* are emitted in between, are lost, and nothing is fetched again.
LoseEvents ==
    /\ channel # <<>>
    /\ channel' = <<>>
    /\ Miss(InChannel)
    /\ UNCHANGED <<kind, server, unsent, active, list, fetch, marks, waiting>>

\* The handler fails after its insert: the row stays, nobody is told.
TellFails(m) ==
    /\ m \in unsent
    /\ unsent' = unsent \ {m}
    /\ Miss({m})
    /\ UNCHANGED <<kind, server, channel, active, list, fetch, marks, waiting>>

Next ==
    \/ \E own \in BOOLEAN : Post(own)
    \/ \E m \in 1..MaxMessages : EmitNew(m) \/ DeleteMessage(m) \/ TellFails(m)
    \/ ReadRows \/ CountUnread \/ ProcessMark
    \/ \E view \in {"this", "other", None} : Select(view)
    \/ RefetchList \/ InvalidateList \/ FetchFails \/ ReceiveList
    \/ ReceiveMessage \/ MarkAnswered \/ MarkFails \/ LoseEvents

Spec == Init /\ [][Next]_vars

--------------------------------------------------------------------------------
(* Properties *)

\* The count covers every message of others that has come and was not shown,
\* whether a response or an event brought it, unless the answer to a mark came
\* late, a response was old or after a late mark, or the event was lost.  (A
\* response counts nothing of a room that was never opened, and the server
\* leaves out a room's deleted messages.)
OnlyRacesHideUnread ==
    list # None => Cardinality((waiting \ deleted) \ (excused \cup Coming)) <= list.unread

\* The preview of a thread is its newest message once the events to come are in,
\* unless the event of an earlier message came after that of a later one, a
\* response was older than an event before it, or events were lost.
OnlyRacesOutdatePreview ==
    list # None /\ channel = <<>> /\ unsent = {} /\ ~outdated => list.last = LastMessage

================================================================================
