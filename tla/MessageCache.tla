------------------------------- MODULE MessageCache -------------------------------
(***************************************************************************)
(* The list of messages a client shows of one chat: the pages of an        *)
(* infinite query (useMessages, useRoomMessages), filled by GET requests   *)
(* that page back through the history with a cursor, and prepended to by   *)
(* MESSAGE_NEW events from the socket (useDmSocket, useRoomSocket).  The   *)
(* two ways know nothing of each other: a response overwrites the pages    *)
(* that were there, and an event is prepended whether or not a response    *)
(* brought its message.                                                    *)
(*                                                                         *)
(* A gateway inserts a message, awaits the author's name or the service,   *)
(* and then emits the event: a fetch may read a row whose event has not    *)
(* left, and two sends may emit in either order.                           *)
(*                                                                         *)
(* Messages are numbered in the order of (createdAt, id), in which their   *)
(* rows are taken to become visible.  The rows never go while the chat is  *)
(* there; edits and deletions do not change the list and are in Messages.  *)
(***************************************************************************)
EXTENDS Naturals, Sequences, FiniteSets, SequencesExt

CONSTANTS
    MaxMessages,    \* bound: messages the run may post
    MaxSends,       \* bound: sends between their insert and their emit
    PageSize,       \* rows of a page (50)
    Nothing

ASSUME BoundAssumption == MaxMessages \in Nat /\ MaxSends \in Nat /\ PageSize \in Nat \ {0}
ASSUME NothingAssumption == Nothing \notin Nat

VARIABLES
    chatKind,       \* "ROOM" or "DM"
    posted,         \* messages 1..posted are in the table
    unsent,         \* messages whose MESSAGE_NEW has not been emitted yet
    online,         \* the socket is connected
    channel,        \* MESSAGE_NEW events on their way, in the order they left
    active,         \* the chat's window is mounted
    pages,          \* the cached pages, newest first, or Nothing
    fetch,          \* the fetch of the infinite query, or Nothing
    muddled         \* history: the cache has met a race, see Muddles

pagesVars == <<chatKind, posted, unsent, online, channel, active, pages, fetch, muddled>>

--------------------------------------------------------------------------------

PagesInit ==
    /\ chatKind \in {"ROOM", "DM"}
    /\ posted = 0 /\ unsent = {}
    /\ online = TRUE
    /\ channel = <<>>
    /\ active = FALSE
    /\ pages = Nothing
    /\ fetch = Nothing
    /\ muddled = FALSE

--------------------------------------------------------------------------------
(* The server: getMessages *)

\* The newest `size' messages older than the cursor, newest first.
Newest(cursor, size) ==
    LET top == IF cursor = Nothing THEN posted ELSE cursor - 1
        len == IF top < size THEN top ELSE size
    IN [i \in 1..len |-> top - i + 1]

\* Mutant: the cursor's own message comes again on the next page.
RoomPage_Inclusive(cursor) ==
    LET found == Newest(IF cursor = Nothing THEN Nothing ELSE cursor + 1, PageSize + 1)
        page == SubSeq(found, 1, IF Len(found) < PageSize THEN Len(found) ELSE PageSize)
    IN [messages |-> page, next |-> IF Len(found) > PageSize THEN Last(page) ELSE Nothing]

\* Mutant: one row is not enough to see that there are more.
RoomPage_NoLookahead(cursor) ==
    LET found == Newest(cursor, PageSize)
    IN [messages |-> found, next |-> IF Len(found) > PageSize THEN Last(found) ELSE Nothing]

\* RoomsService.getMessages looks one row further for nextCursor.
RoomPage(cursor) ==
    LET found == Newest(cursor, PageSize + 1)
        page == SubSeq(found, 1, IF Len(found) < PageSize THEN Len(found) ELSE PageSize)
    IN [messages |-> page, next |-> IF Len(found) > PageSize THEN Last(page) ELSE Nothing]

\* DmService.getMessages returns the bare rows.
DmPage(cursor) == [messages |-> Newest(cursor, PageSize), next |-> Nothing]

PageAt(cursor) == IF chatKind = "ROOM" THEN RoomPage(cursor) ELSE DmPage(cursor)

--------------------------------------------------------------------------------
(* The infinite query *)

\* getNextPageParam of useMessages: a full page may have another behind it.
DmNextParam(page) ==
    IF Len(page.messages) < PageSize THEN Nothing ELSE Last(page.messages)

\* getNextPageParam of useRoomMessages.
RoomNextParam(page) == page.next

NextParam(ps) ==
    IF chatKind = "ROOM" THEN RoomNextParam(Last(ps)) ELSE DmNextParam(Last(ps))

HasNextPage == pages # Nothing /\ NextParam(pages) # Nothing

\* What the list shows, newest first.
Shown(ps) == FlattenSeq([i \in 1..Len(ps) |-> ps[i].messages])

\* Mounting the window, or the focus coming back to it, fetches all the cached
\* pages again (one, if there is none); a fetch on its way is joined.
Refetch ==
    fetch' = IF fetch # Nothing THEN fetch
             ELSE [older |-> FALSE, got |-> <<>>, read |-> Nothing,
                   left |-> IF pages = Nothing THEN 1 ELSE Len(pages)]

OpenChat ==
    /\ ~active
    /\ active' = TRUE
    /\ Refetch
    /\ UNCHANGED <<chatKind, posted, unsent, online, channel, pages, muddled>>

CloseChat ==
    /\ active
    /\ active' = FALSE
    /\ UNCHANGED <<chatKind, posted, unsent, online, channel, pages, fetch, muddled>>

FocusWindow ==
    /\ active
    /\ Refetch
    /\ UNCHANGED <<chatKind, posted, unsent, online, channel, active, pages, muddled>>

\* The button "Load older messages" is there when there is a next page and not
\* disabled by the same fetch; it cancels a refetch.  The new page will go
\* behind the pages as they are now.
LoadOlder ==
    /\ active /\ HasNextPage
    /\ fetch # Nothing => ~fetch.older
    /\ fetch' = [older |-> TRUE, got |-> pages, read |-> posted, left |-> 1]
    /\ UNCHANGED <<chatKind, posted, unsent, online, channel, active, pages, muddled>>

\* The server answers for one page; a refetch goes on to the next one with the
\* cursor of the page it has just got.
ReadPage ==
    LET f == fetch
        cursor == IF f.got = <<>> THEN Nothing ELSE NextParam(f.got)
        got == Append(f.got, PageAt(cursor))
        more == f.left > 1 /\ NextParam(got) # Nothing
    IN
    /\ f # Nothing /\ f.left > 0
    /\ fetch' = [f EXCEPT !.got = got, !.left = IF more THEN @ - 1 ELSE 0,
                          !.read = IF @ = Nothing THEN posted ELSE @]
    /\ UNCHANGED <<chatKind, posted, unsent, online, channel, active, pages, muddled>>

\* The events to come are of the messages after top, in their order.
Follow(top) ==
    /\ \A i \in 1..Len(channel) : channel[i] = top + i
    /\ unsent = (top + Len(channel) + 1)..posted

\* A message after the newest of a list has come or was lost already, or will
\* come before an older one; or an event of the list's own is still to come.
Muddles(list) == ~Follow(IF list = <<>> THEN 0 ELSE Head(list))

\* The pages fetched replace the pages there are.
ReceivePages ==
    /\ fetch # Nothing /\ fetch.left = 0
    /\ pages' = fetch.got
    /\ muddled' = ((fetch.older /\ muddled) \/ Muddles(Shown(fetch.got)))
    /\ fetch' = Nothing
    /\ UNCHANGED <<chatKind, posted, unsent, online, channel, active>>

FetchFails ==
    /\ fetch # Nothing
    /\ fetch' = Nothing
    /\ UNCHANGED <<chatKind, posted, unsent, online, channel, active, pages, muddled>>

\* gcTime: the pages of a chat that is not mounted are dropped after a while.
CollectPages ==
    /\ ~active /\ fetch = Nothing /\ pages # Nothing
    /\ pages' = Nothing /\ muddled' = FALSE
    /\ UNCHANGED <<chatKind, posted, unsent, online, channel, active, fetch>>

--------------------------------------------------------------------------------
(* The socket *)

\* sendMessage inserts the message; the gateway awaits more before it emits.
Post ==
    /\ posted < MaxMessages /\ Cardinality(unsent) < MaxSends
    /\ posted' = posted + 1
    /\ unsent' = unsent \cup {posted + 1}
    /\ UNCHANGED <<chatKind, online, channel, active, pages, fetch, muddled>>

\* Nothing is kept for a client that is not connected.
EmitNew(m) ==
    /\ m \in unsent
    /\ unsent' = unsent \ {m}
    /\ channel' = IF online THEN Append(channel, m) ELSE channel
    /\ muddled' = (muddled \/ (pages # Nothing /\ (~online \/ \E n \in unsent : n < m)))
    /\ UNCHANGED <<chatKind, posted, online, active, pages, fetch>>

\* The handler fails after its insert: the row stays, nobody is told.
TellFails(m) ==
    /\ m \in unsent
    /\ unsent' = unsent \ {m}
    /\ muddled' = (muddled \/ pages # Nothing)
    /\ UNCHANGED <<chatKind, posted, online, channel, active, pages, fetch>>

\* onMessageNew of useDmSocket.
DmPrepend(ps, m) ==
    IF ps = Nothing THEN <<[messages |-> <<m>>, next |-> Nothing]>>
    ELSE [ps EXCEPT ![1].messages = <<m>> \o @]

\* onMessageNew of useRoomSocket.
RoomPrepend(ps, m) ==
    IF ps = Nothing THEN <<[messages |-> <<m>>, next |-> Nothing]>>
    ELSE [ps EXCEPT ![1] = [messages |-> <<m>> \o @.messages, next |-> @.next]]

ReceiveMessage ==
    /\ channel # <<>>
    /\ pages' = IF chatKind = "ROOM" THEN RoomPrepend(pages, Head(channel))
                ELSE DmPrepend(pages, Head(channel))
    /\ channel' = Tail(channel)
    /\ muddled' = (muddled \/ pages = Nothing)
    /\ UNCHANGED <<chatKind, posted, unsent, online, active, fetch>>

\* The connection breaks, with the events on it; nothing is fetched again when
\* it comes back.
Disconnect ==
    /\ online
    /\ online' = FALSE
    /\ channel' = <<>>
    /\ muddled' = (muddled \/ (pages # Nothing /\ channel # <<>>))
    /\ UNCHANGED <<chatKind, posted, unsent, active, pages, fetch>>

Reconnect ==
    /\ ~online
    /\ online' = TRUE
    /\ UNCHANGED <<chatKind, posted, unsent, channel, active, pages, fetch, muddled>>

PagesNext ==
    \/ OpenChat \/ CloseChat \/ FocusWindow \/ LoadOlder
    \/ ReadPage \/ ReceivePages \/ FetchFails \/ CollectPages
    \/ Post \/ ReceiveMessage \/ Disconnect \/ Reconnect
    \/ \E m \in unsent : EmitNew(m) \/ TellFails(m)

PagesSpec == PagesInit /\ [][PagesNext]_pagesVars

--------------------------------------------------------------------------------
(* Properties *)

\* Once the events to come are in, the list is the newest messages, each once,
\* in order and without a gap, however pages and events came together: unless a
\* response overwrote events that came after it was read, or was followed by
\* events it already covered, two sends emitted their events in the other order,
\* events were lost, or the list was begun by an event.
OnlyRacesMuddleList ==
    pages # Nothing /\ ~muddled =>
        LET list == Reverse(channel) \o Shown(pages)
        IN \E newest \in 0..posted :
              /\ unsent = newest + 1..posted
              /\ \A i \in 1..Len(list) : list[i] = newest - i + 1

\* The rest of the history can be reached: the list goes back to the first
\* message or offers to load older ones, also after messages were prepended to
\* a page whose length the cursor of a DM depends on.
OlderReachable ==
    pages # Nothing /\ ~muddled =>
        HasNextPage \/ Cardinality(unsent) + Len(channel) + Len(Shown(pages)) = posted

================================================================================
