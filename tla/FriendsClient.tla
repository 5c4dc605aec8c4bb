------------------------------- MODULE FriendsClient -------------------------------
(***************************************************************************)
(* Friendship as one user's client sees it: the cached queries (requests,  *)
(* friends, threads and the user search), what the client shows of them    *)
(* (the dialog for a new direct message, the panel of a pending invite),   *)
(* the requests its buttons send and the invalidations that bring their    *)
(* effects, and the FRIEND events, back into the caches.                   *)
(*                                                                         *)
(* The server is what lies between the user and one other.  Sending a      *)
(* request, opening a thread and unfriending ask first and write later, so *)
(* that the requests of the two may cross; a search is two queries at      *)
(* once.  Nobody is blocked: the client has no control for it.  Contacts   *)
(* has the server with blocks and messages, ChatList the chat that is open.*)
(***************************************************************************)
EXTENDS Naturals, Sequences, SequencesExt, FiniteSets

CONSTANTS
    MaxRequests,    \* bound: friend requests the other sends
    MaxTraffic,     \* bound: what is on its way when the user, the other or the
                    \* browser starts something new
    Uses,           \* bound: the sets of panes, "dialog" and "panel", of which the
                    \* user uses one in a run; the queries of no pane stay
    Asked, Failed, Nothing

ASSUME BoundAssumption == MaxRequests \in Nat /\ MaxTraffic \in Nat /\ Uses \subseteq SUBSET {"dialog", "panel"}
ASSUME ValueAssumption ==
    /\ Asked # Nothing /\ Failed # Nothing
    /\ {Asked, Failed, Nothing} \cap
           (Nat \cup BOOLEAN \cup
            {"pending", "accept", "add", "ok", "refused",
             "friendship", "createRequest", "findThread", "createThread", "dropThread"}) = {}

Queries == {"requests", "friends", "threads"}

\* What the user's pane is about.
PaneQueries == [dialog |-> {"friends", "threads"}, panel |-> Queries]

VARIABLES
    uses,           \* the panes the user uses
    incoming,       \* the id of the other's request, or 0
    outgoing,       \* the user's request is pending
    befriended, hasThread,
    theirs,         \* what a request of the other's asks or writes next, or Nothing
    lastId,         \* ids given to the other's requests
    events,         \* FRIEND events on their way
    cache,          \* per query: its data, or Nothing
    fetch,          \* per query: Nothing, Asked or the response
    search,         \* the cached result of the search, Nothing or Failed
    searching,      \* the search on its way, or Nothing
    calls,          \* requests of the user on their way
    dialog,         \* the dialog: "closed", "friends" or "search"
    added,          \* the other is in pendingIds
    invite,         \* activePendingRequestId, or 0
    notified,       \* requests with a notification
    excused,        \* history: queries that nothing told of the last change
    misled          \* history: a button was refused what it rightly offered

Watched == UNION {PaneQueries[p] : p \in uses}

server == <<incoming, outgoing, befriended, hasThread, theirs, lastId>>
searchVars == <<search, searching>>
ui == <<uses, dialog, added, invite, notified>>
clientVars == <<server, events, cache, fetch, searchVars, calls, ui, excused, misled>>

--------------------------------------------------------------------------------
(* What the server answers *)

\* listPendingRequests, listFriends, and whether listThreads has the thread.
Relation == [requests |-> incoming, friends |-> befriended, threads |-> hasThread]

Sent == [status |-> "pending_sent", id |-> 0]
Received(id) == [status |-> "pending_received", id |-> id]

\* Mutant: only the requests the user has sent are looked up.
Pending_SentOnly(request) == {Sent : sent \in {TRUE} \cap {request.sent}}

\* requestMap: of two requests that have crossed, the row that comes last counts,
\* and no order is asked for.
Pending(request) ==
    {Sent : sent \in {TRUE} \cap {request.sent}} \cup
    {Received(id) : id \in {request.received} \ {0}}

\* searchUsers: what a search of these rows may say of the other.
Result(areFriends, request) ==
    IF areFriends THEN {[status |-> "friend", id |-> 0]}
    ELSE IF Pending(request) # {} THEN Pending(request)
    ELSE {[status |-> "none", id |-> 0]}

RequestRow == [sent |-> outgoing, received |-> incoming]

--------------------------------------------------------------------------------

\* The client opens on what the two have come to: requests that have crossed, a
\* request from before the friendship and a thread from before its end included.
ClientInit ==
    /\ uses \in Uses
    /\ incoming \in 0..MaxRequests /\ lastId = incoming
    /\ outgoing \in BOOLEAN /\ befriended \in BOOLEAN /\ hasThread \in BOOLEAN
    /\ theirs = Nothing
    /\ events = <<>>
    /\ cache = [q \in Queries |-> Nothing]
    /\ fetch = [q \in Queries |-> IF q \in Watched THEN Asked ELSE Nothing]
    /\ search = Nothing /\ searching = Nothing
    /\ calls = {}
    /\ dialog = "closed" /\ added = FALSE /\ invite = 0 /\ notified = {}
    /\ excused = {} /\ misled = FALSE

\* Nothing new is started while too much is on its way.
Quiet ==
    Cardinality({q \in Queries : fetch[q] # Nothing}) + Cardinality(calls) + Len(events)
        + (IF searching = Nothing THEN 0 ELSE 1) + (IF theirs = Nothing THEN 0 ELSE 1) < MaxTraffic

\* invalidateQueries: a fetch on its way is cancelled and asked again, but the
\* first one, which has no data to go back to, is joined.
Joined(queries) == {q \in queries : cache[q] = Nothing /\ fetch[q] # Nothing}

Invalidate(queries) ==
    /\ fetch' = [q \in Queries |-> IF q \in (queries \cap Watched) \ Joined(queries) THEN Asked ELSE fetch[q]]
    /\ excused' = excused \cup {q \in Joined(queries) : fetch[q] # Asked}

--------------------------------------------------------------------------------
(* The other, and the user's other devices *)

Changed == {q \in Watched : Relation'[q] # Relation[q]}

\* The change is told by an event ...
Told(event) == events' = Append(events, event) /\ UNCHANGED excused

\* ... or by none.
Untold == excused' = excused \cup Changed /\ UNCHANGED events

client == <<cache, fetch, searchVars, calls, ui, misled>>

\* The server is at a request of the other's, of these that take several steps
\* one at a time; what it has found so far may be past when it goes on.
Ends(step) == theirs = step /\ theirs' = Nothing

GoesOn(from, to) ==
    /\ theirs = from /\ theirs' = to
    /\ UNCHANGED <<incoming, outgoing, befriended, hasThread, lastId, events, excused, client>>

\* sendRequest: no request either way, then no friendship, then the row, which
\* must be the only one of its direction.
TheySend == incoming = 0 /\ ~outgoing /\ lastId < MaxRequests /\ Quiet /\ GoesOn(Nothing, "friendship")

TheyAreNoFriend == ~befriended /\ GoesOn("friendship", "createRequest")

TheirRequestCreated ==
    /\ Ends("createRequest") /\ incoming = 0
    /\ lastId' = lastId + 1 /\ incoming' = lastId'
    /\ Told([type |-> "received", id |-> lastId'])
    /\ UNCHANGED <<outgoing, befriended, hasThread, client>>

\* acceptRequest: the pair's friendship must be the only one.
TheyAccept ==
    /\ outgoing /\ ~befriended /\ Quiet
    /\ outgoing' = FALSE /\ befriended' = TRUE
    /\ Told([type |-> "accepted", id |-> 0])
    /\ UNCHANGED <<incoming, hasThread, theirs, lastId, client>>

\* declineRequest
TheyDecline ==
    /\ outgoing /\ Quiet
    /\ outgoing' = FALSE
    /\ Told([type |-> "declined", id |-> 0])
    /\ UNCHANGED <<incoming, befriended, hasThread, theirs, lastId, client>>

\* getOrCreateThread: the user's sockets join the thread, the client is not told.
TheyStart == befriended /\ Quiet /\ GoesOn(Nothing, "findThread")

TheyFindNoThread == ~hasThread /\ GoesOn("findThread", "createThread")

TheirThreadCreated ==
    /\ Ends("createThread") /\ ~hasThread
    /\ hasThread' = TRUE
    /\ UNCHANGED <<incoming, outgoing, befriended, lastId, client>>
    /\ Untold

\* removeFriend: the friendship, then the thread.
TheyRemove ==
    /\ befriended \/ hasThread
    /\ Quiet /\ theirs = Nothing /\ theirs' = "dropThread"
    /\ befriended' = FALSE
    /\ UNCHANGED <<incoming, outgoing, hasThread, lastId, client>>
    /\ Untold

TheirThreadDropped ==
    /\ Ends("dropThread")
    /\ hasThread' = FALSE
    /\ UNCHANGED <<incoming, outgoing, befriended, lastId, client>>
    /\ Untold

\* The request is refused at what it has come to, or a query of it fails.
TheyFail == theirs # Nothing /\ GoesOn(theirs, Nothing)

\* The user answers the request elsewhere.
AnswerElsewhere(accept) ==
    /\ incoming # 0 /\ (accept => ~befriended) /\ Quiet
    /\ incoming' = 0 /\ befriended' = (befriended \/ accept)
    /\ UNCHANGED <<outgoing, hasThread, theirs, lastId, client>>
    /\ Untold

Elsewhere ==
    \/ TheySend \/ TheyAreNoFriend \/ TheirRequestCreated \/ TheyAccept \/ TheyDecline
    \/ TheyStart \/ TheyFindNoThread \/ TheirThreadCreated
    \/ TheyRemove \/ TheirThreadDropped \/ TheyFail
    \/ \E accept \in BOOLEAN : AnswerElsewhere(accept)

--------------------------------------------------------------------------------
(* The cached queries *)

\* The browser's window gets the focus.
Refetch(q) ==
    /\ q \in Watched /\ fetch[q] = Nothing /\ Quiet
    /\ fetch' = [fetch EXCEPT ![q] = Asked]
    /\ UNCHANGED <<server, events, cache, searchVars, calls, ui, excused, misled>>

ReadFetch(q) ==
    /\ fetch[q] = Asked
    /\ fetch' = [fetch EXCEPT ![q] = Relation[q]]
    /\ excused' = excused \ {q}
    /\ UNCHANGED <<server, events, cache, searchVars, calls, ui, misled>>

\* ChatPage: the panel is there while its request is in the list.
PanelShown == invite # 0 /\ cache["requests"] = invite

\* A panel that goes takes the state of its hooks with it, its calls go on.
Mounted(cs) ==
    IF PanelShown' THEN cs
    ELSE {[c EXCEPT !.pending = c.pending /\ c.from # "panel"] : c \in cs}

ReceiveFetch(q) ==
    /\ fetch[q] \notin {Nothing, Asked}
    /\ cache' = [cache EXCEPT ![q] = fetch[q]]
    /\ fetch' = [fetch EXCEPT ![q] = Nothing]
    /\ UNCHANGED <<server, events, searchVars, ui, excused, misled>>
    /\ calls' = Mounted(calls)

\* After its retries.
FetchFails(q) ==
    /\ fetch[q] # Nothing
    /\ fetch' = [fetch EXCEPT ![q] = Nothing]
    /\ excused' = excused \cup {q}
    /\ UNCHANGED <<server, events, cache, searchVars, calls, ui, misled>>

--------------------------------------------------------------------------------
(* FRIEND events *)

\* useFriendSocket: what each event invalidates.
InvalidatedBy(event) ==
    CASE event.type = "received" -> {"requests"}
      [] event.type = "accepted" -> {"friends", "threads"}
      [] event.type = "declined" -> {}

\* Two requests of the other's may be told in the order they did not write in.
ReceiveEvent(i) ==
    /\ events' = RemoveAt(events, i)
    /\ Invalidate(InvalidatedBy(events[i]))
    /\ notified' = IF "panel" \in uses THEN notified \cup ({events[i].id} \ {0})
                   ELSE notified
    /\ UNCHANGED <<server, cache, searchVars, calls, uses, dialog, added, invite, misled>>

\* The connection breaks and comes back: nothing is fetched again.
LoseEvents ==
    /\ events # <<>>
    /\ events' = <<>>
    /\ excused' = excused \cup (Watched \cap UNION {InvalidatedBy(events[i]) : i \in DOMAIN events})
    /\ UNCHANGED <<server, cache, fetch, searchVars, calls, ui, misled>>

--------------------------------------------------------------------------------
(* The search *)

NewSearch == [friends |-> Nothing, request |-> Nothing]

\* A search without data joins the one on its way; a failure stays on the
\* screen if there was data before.
StartSearch ==
    /\ searching' = IF search = Nothing /\ searching # Nothing THEN searching ELSE NewSearch
    /\ \/ UNCHANGED search
       \/ search = Failed /\ search' = Nothing

\* The text gets its second letter: a result of less than 30 seconds is used
\* as it is.
Type ==
    /\ dialog = "friends"
    /\ dialog' = "search"
    /\ \/ search # Nothing /\ UNCHANGED searchVars
       \/ searching # Nothing /\ UNCHANGED searchVars
       \/ searching = Nothing /\ Quiet /\ StartSearch
    /\ UNCHANGED <<server, events, cache, fetch, calls, uses, added, invite, notified, excused, misled>>

\* The text is shortened again.
Erase ==
    /\ dialog = "search"
    /\ dialog' = "friends"
    /\ UNCHANGED <<server, events, cache, fetch, searchVars, calls, uses, added, invite, notified,
                   excused, misled>>

\* The browser's window gets the focus and the result is old.
RefetchSearch ==
    /\ dialog = "search" /\ searching = Nothing /\ Quiet
    /\ StartSearch
    /\ UNCHANGED <<server, events, cache, fetch, calls, ui, excused, misled>>

\* The friendships and the requests of the users found, in any order.
ReadSearch ==
    /\ searching # Nothing
    /\ \/ /\ searching.friends = Nothing
          /\ searching' = [searching EXCEPT !.friends = befriended]
       \/ /\ searching.request = Nothing
          /\ searching' = [searching EXCEPT !.request = RequestRow]
    /\ UNCHANGED <<server, events, cache, fetch, search, calls, ui, excused, misled>>

ReceiveSearch ==
    /\ searching # Nothing /\ searching.friends # Nothing /\ searching.request # Nothing
    /\ search' \in Result(searching.friends, searching.request)
    /\ searching' = Nothing
    /\ UNCHANGED <<server, events, cache, fetch, calls, ui, excused, misled>>

SearchFails ==
    /\ searching # Nothing
    /\ searching' = Nothing /\ search' = Failed
    /\ UNCHANGED <<server, events, cache, fetch, calls, ui, excused, misled>>

--------------------------------------------------------------------------------
(* What the client shows *)

\* NewDmDialog lists the friends without a search and after one that failed.
FriendsListed == dialog = "friends" \/ (dialog = "search" /\ search = Failed)

ResultListed == dialog = "search" /\ search \notin {Nothing, Failed}

\* The row of the other as a friend; a friend the search has found is shown
\* with what the friends' query says.
FriendRow ==
    /\ cache["friends"] = TRUE
    /\ FriendsListed \/ (ResultListed /\ search.status = "friend")

\* The button of the other's row among the other people.
StrangerButton ==
    IF ~ResultListed \/ search.status = "friend" THEN Nothing
    ELSE IF added \/ search.status = "pending_sent" THEN "pending"
    ELSE IF search.status = "pending_received" THEN "accept"
    ELSE "add"

\* isPending of the dialog's startThread, isBusy of the panel.
Starting == \E c \in calls : c.pending /\ c.from = "dialog" /\ c.op = "start"
Busy == \E c \in calls : c.pending /\ c.from = "panel"

--------------------------------------------------------------------------------
(* What the user does *)

Call(op, from, id, query) ==
    [op |-> op, from |-> from, id |-> id, pending |-> TRUE, step |-> 1, answer |-> Nothing,
     query |-> query, offer |-> IF query = "search" THEN search ELSE cache[query]]

Send(call) == Quiet /\ call \notin calls /\ calls' = calls \cup {call}

unclicked == <<uses, server, events, cache, fetch, searchVars, notified, excused, misled>>

\* NewDmDialog: onAdd, onAccept, onDm.
ClickAdd ==
    /\ StrangerButton = "add"
    /\ Send(Call("send", "dialog", 0, "search"))
    /\ added' = TRUE
    /\ UNCHANGED <<unclicked, dialog, invite>>

ClickAcceptFound ==
    /\ StrangerButton = "accept"
    /\ Send(Call("accept", "dialog", search.id, "search"))
    /\ UNCHANGED <<unclicked, dialog, added, invite>>

ClickFriend ==
    /\ FriendRow /\ ~Starting
    /\ Send(Call("start", "dialog", 0, "friends"))
    /\ UNCHANGED <<unclicked, dialog, added, invite>>

\* PendingInvitePanel: handleAccept, handleDecline.
ClickPanel(op) ==
    /\ PanelShown /\ ~Busy
    /\ Send(Call(op, "panel", invite, "requests"))
    /\ UNCHANGED <<unclicked, dialog, added, invite>>

\* A pending invite's row, a notification or its toast.
OpenInvite(id) ==
    /\ "panel" \in uses
    /\ id \in notified \/ id = cache["requests"]
    /\ id # invite
    /\ invite' = id
    /\ UNCHANGED <<unclicked, dialog, added>>
    /\ calls' = Mounted(calls)

\* ChatPage: a chat is opened.
OpenChat ==
    /\ invite # 0
    /\ invite' = 0
    /\ UNCHANGED <<unclicked, dialog, added>>
    /\ calls' = Mounted(calls)

OpenDialog ==
    /\ "dialog" \in uses
    /\ dialog = "closed"
    /\ dialog' = "friends"
    /\ UNCHANGED <<unclicked, calls, added, invite>>

\* handleClose; startThread.reset forgets a call that is on its way.
Close(cs) ==
    /\ dialog' = "closed" /\ added' = FALSE
    /\ calls' = {[c EXCEPT !.pending = c.pending /\ ~(c.from = "dialog" /\ c.op = "start")]
                 : c \in cs}

CloseDialog ==
    /\ dialog # "closed"
    /\ Close(calls)
    /\ UNCHANGED <<unclicked, invite>>

--------------------------------------------------------------------------------
(* The server's answers *)

\* What the step a request is at must find.  sendRequest: no request, no friendship,
\* and a row that is the only one of its direction; getOrCreateThread: a friendship,
\* then a thread or none, and the only thread of the pair; acceptRequest and
\* declineRequest write in their first step.
Passes(c) ==
    \/ c.op = "accept" /\ c.id = incoming /\ ~befriended
    \/ c.op = "decline" /\ c.id = incoming
    \/ c.op = "send" /\ c.step = 1 /\ incoming = 0 /\ ~outgoing
    \/ c.op = "send" /\ c.step = 2 /\ ~befriended
    \/ c.op = "send" /\ c.step = 3 /\ ~outgoing
    \/ c.op = "start" /\ c.step = 1 /\ befriended
    \/ c.op = "start" /\ c.step = 2
    \/ c.op = "start" /\ c.step = 3 /\ ~hasThread

LastStep(c) ==
    \/ c.op \in {"accept", "decline"}
    \/ c.step = 3
    \/ c.op = "start" /\ c.step = 2 /\ hasThread

Answered(c, answer) == calls' = (calls \ {c}) \cup {[c EXCEPT !.step = 1, !.answer = answer]}

GoOn(c) ==
    /\ Passes(c) /\ ~LastStep(c)
    /\ calls' = (calls \ {c}) \cup {[c EXCEPT !.step = c.step + 1]}
    /\ UNCHANGED <<server, misled>>

Grant(c) ==
    /\ Passes(c) /\ LastStep(c)
    /\ incoming' = IF c.op \in {"accept", "decline"} THEN 0 ELSE incoming
    /\ outgoing' = (outgoing \/ c.op = "send")
    /\ befriended' = (befriended \/ c.op = "accept")
    /\ hasThread' = (hasThread \/ c.op = "start")
    /\ Answered(c, "ok")
    /\ UNCHANGED <<theirs, lastId, misled>>

\* What the button was drawn from is still what the server has.
StillOffered(c) ==
    IF c.query = "search" THEN c.offer \in Result(befriended, RequestRow)
    ELSE c.offer = Relation[c.query]

\* What was asked for is there already, by a request that crossed this one: the
\* friendship of two requests of which the other was accepted, or the thread.
Collides(c) ==
    \/ c.op = "accept" /\ befriended
    \/ c.op = "start" /\ c.step = 3 /\ hasThread

Refuse(c) ==
    /\ ~Passes(c)
    /\ misled' = (misled \/ (StillOffered(c) /\ ~Collides(c)))
    /\ Answered(c, "refused")
    /\ UNCHANGED server

Process(c) ==
    /\ c.answer = Nothing
    /\ GoOn(c) \/ Grant(c) \/ Refuse(c)
    /\ UNCHANGED <<events, cache, fetch, searchVars, ui, excused>>

\* Mutant: accepting forgets the list of friends.
InvalidatedOnSuccess_NoFriends(op) ==
    CASE op = "send" -> {"friends", "requests"}
      [] op \in {"accept", "decline"} -> {"requests"}
      [] op = "start" -> {"threads"}

\* useSendFriendRequest, useAcceptRequest, useDeclineRequest, useStartThread.
InvalidatedOnSuccess(op) ==
    CASE op \in {"send", "accept"} -> {"friends", "requests"}
      [] op = "decline" -> {"requests"}
      [] op = "start" -> {"threads"}

\* NewDmDialog's onAccept also invalidates the search.
InvalidateSearch(c) ==
    IF c.op = "accept" /\ c.from = "dialog" /\ dialog = "search"
    THEN StartSearch
    ELSE UNCHANGED searchVars

\* handleAccept goes on to start the thread, in a panel that may be gone.
ThenStart(c) ==
    [c EXCEPT !.op = "start", !.id = 0, !.answer = Nothing, !.query = "friends", !.offer = TRUE]

\* The chat is opened, or the invite that is open by now is closed.
CallSucceeds(c) ==
    /\ c.answer = "ok"
    /\ Invalidate(InvalidatedOnSuccess(c.op))
    /\ InvalidateSearch(c)
    /\ UNCHANGED <<server, events, cache, notified, uses, misled>>
    /\ invite' = IF c.op \in {"start", "decline"} THEN 0 ELSE invite
    /\ IF c.op = "start" /\ c.from = "dialog" THEN Close(calls \ {c})
       ELSE /\ calls' = Mounted((calls \ {c}) \cup
                          (IF c.op = "accept" /\ c.from = "panel" THEN {ThenStart(c)} ELSE {}))
            /\ UNCHANGED <<dialog, added>>

\* What a request that is answered changes.
Effect(op) ==
    CASE op = "send" -> {}
      [] op = "accept" -> {"friends", "requests"}
      [] op = "decline" -> {"requests"}
      [] op = "start" -> {"threads"}

\* The request is refused, or it or its answer is lost.
CallFails(c) ==
    /\ calls' = calls \ {c}
    /\ added' = (added /\ c.op # "send")
    /\ excused' = IF c.answer = "ok" THEN excused \cup (Watched \cap Effect(c.op)) ELSE excused
    /\ UNCHANGED <<server, events, cache, fetch, searchVars, dialog, invite, notified, uses, misled>>

--------------------------------------------------------------------------------

ClientNext ==
    \/ Elsewhere
    \/ \E q \in Queries : Refetch(q) \/ ReadFetch(q) \/ ReceiveFetch(q) \/ FetchFails(q)
    \/ \E i \in DOMAIN events : ReceiveEvent(i)
    \/ LoseEvents
    \/ Type \/ Erase \/ RefetchSearch \/ ReadSearch \/ ReceiveSearch \/ SearchFails
    \/ ClickAdd \/ ClickAcceptFound \/ ClickFriend
    \/ \E op \in {"accept", "decline"} : ClickPanel(op)
    \/ \E id \in 1..MaxRequests : OpenInvite(id)
    \/ OpenChat \/ OpenDialog \/ CloseDialog
    \/ \E c \in calls : Process(c) \/ CallSucceeds(c) \/ CallFails(c)

ClientSpec == ClientInit /\ [][ClientNext]_clientVars

--------------------------------------------------------------------------------
(* Properties *)

\* When no request and no event is on its way, a query that is not being fetched
\* shows what the server has, unless its last change was told by nothing (an
\* unfriending, a thread the other started, an answer given elsewhere),
\* or the telling event, the answer or the fetch was lost, or came into the
\* query's very first fetch.
OnlyUntoldChangesStale ==
    \A q \in Queries :
        calls = {} /\ events = <<>> /\ fetch[q] = Nothing /\ cache[q] # Nothing =>
            (cache[q] = Relation[q] \/ q \in excused)

\* A button asks only what the server will grant: it refuses only when what the
\* button was drawn from is no longer, or never was, what the server has, or when
\* it collides: the accept of one of two crossed requests of which the other has
\* made the friendship, or the start of a thread that is created meanwhile.
OnlyStaleOffersRefused == ~misled

================================================================================
