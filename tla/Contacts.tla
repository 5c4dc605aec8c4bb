-------------------------------- MODULE Contacts --------------------------------
(***************************************************************************)
(* Friend requests, friendship, bans and the direct-message thread of one  *)
(* pair of users: FriendshipService (friendship/friendship.service.ts) and *)
(* the parts of DmService that depend on it (getOrCreateThread and         *)
(* sendMessage, dm/dm.service.ts).                                         *)
(*                                                                         *)
(* Every row these operations touch is keyed by the pair, in one direction *)
(* (FriendRequest, Block) or in canonical order (Friendship,               *)
(* DirectMessageThread), so one pair is enough.  Each awaited query of a   *)
(* handler is one step.                                                    *)
(***************************************************************************)
CONSTANTS
    Pair,           \* the two users
    Handlers,       \* requests in flight at the same time
    RequestIds,     \* bound: friend-request rows the run may create
    ThreadIds,      \* bound: thread rows the run may create
    None            \* no user, request or thread

ASSUME PairAssumption == \E a, b \in Pair : a # b /\ Pair = {a, b}
ASSUME NoneAssumption == None \notin Pair \cup RequestIds \cup ThreadIds

VARIABLES
    requests,       \* FriendRequest by sender, unique (from, to): row id or None
    usedRequests,   \* request ids ever created
    friends,        \* the Friendship row exists
    blocks,         \* users of the pair that have blocked the other
    thread,         \* id of the DirectMessageThread row, or None
    usedThreads,    \* thread ids ever created
    posted,         \* <<t, u>>: u has a DirectMessage row in thread t
    req,            \* the request each handler is serving
    overlapped      \* history: handlers whose request was not alone all its life

tables == <<requests, usedRequests, friends, blocks, thread, usedThreads, posted>>
vars == <<requests, usedRequests, friends, blocks, thread, usedThreads, posted,
          req, overlapped>>

--------------------------------------------------------------------------------

Pcs == {"idle", "friendship", "createRequest", "accept", "decline", "dropThread",
        "blockCheck", "findThread", "createThread", "insertMessage"}

Request == [pc : Pcs, actor : Pair \cup {None},
            request : RequestIds \cup {None}, thread : ThreadIds \cup {None}]

Idle == [pc |-> "idle", actor |-> None, request |-> None, thread |-> None]

TypeOK ==
    /\ usedRequests \in SUBSET RequestIds
    /\ requests \in [Pair -> usedRequests \cup {None}]
    /\ friends \in BOOLEAN
    /\ blocks \in SUBSET Pair
    /\ usedThreads \in SUBSET ThreadIds
    /\ thread \in usedThreads \cup {None}
    /\ posted \in SUBSET (usedThreads \X Pair)
    /\ req \in [Handlers -> Request]
    /\ overlapped \in SUBSET Handlers

Init ==
    /\ requests = [u \in Pair |-> None]
    /\ usedRequests = {}
    /\ friends = FALSE
    /\ blocks = {}
    /\ thread = None
    /\ usedThreads = {}
    /\ posted = {}
    /\ req = [h \in Handlers |-> Idle]
    /\ overlapped = {}

Other(u) == CHOOSE v \in Pair : v # u

\* Handler h goes on with request r; r = Idle frees it.
Serve(h, r) ==
    LET others == {g \in Handlers \ {h} : req[g] # Idle}
        shared == IF others = {} THEN overlapped ELSE overlapped \cup others \cup {h}
    IN /\ req' = [req EXCEPT ![h] = r]
       /\ overlapped' = IF r = Idle THEN shared \ {h} ELSE shared

At(h, pc) == req[h].pc = pc
Begin(h, r) == At(h, "idle") /\ Serve(h, r) /\ UNCHANGED tables
Goto(h, pc) == Serve(h, [req[h] EXCEPT !.pc = pc]) /\ UNCHANGED tables
Done(h) == Serve(h, Idle)
Abort(h) == Done(h) /\ UNCHANGED tables

--------------------------------------------------------------------------------
(* sendRequest *)

\* Mutant: a request from the other user is not looked for.
NonePending_OneWay(u) == requests[u] = None

NonePending(u) == requests[u] = None /\ requests[Other(u)] = None

\* No request of either direction is pending; a block is not looked at.
StartSendRequest(h, u) ==
    /\ NonePending(u)
    /\ Begin(h, [Idle EXCEPT !.pc = "friendship", !.actor = u])

CheckNotFriends(h) ==
    /\ At(h, "friendship")
    /\ \/ ~friends /\ Goto(h, "createRequest")
       \/ friends /\ Abort(h)

\* Unique per direction only.
CreateRequest(h) ==
    LET u == req[h].actor IN
    /\ At(h, "createRequest")
    /\ \/ /\ requests[u] = None
          /\ \E r \in RequestIds \ usedRequests :
               /\ requests' = [requests EXCEPT ![u] = r]
               /\ usedRequests' = usedRequests \cup {r}
          /\ Done(h)
          /\ UNCHANGED <<friends, blocks, thread, usedThreads, posted>>
       \/ requests[u] # None /\ Abort(h)

--------------------------------------------------------------------------------
(* acceptRequest, declineRequest *)

\* The request exists and is addressed to the caller.
StartAnswer(h, u, pc) ==
    /\ requests[Other(u)] # None
    /\ Begin(h, [Idle EXCEPT !.pc = pc, !.actor = u, !.request = requests[Other(u)]])

StartAccept(h, u) == StartAnswer(h, u, "accept")
StartDecline(h, u) == StartAnswer(h, u, "decline")

RequestStillThere(h) == requests[Other(req[h].actor)] = req[h].request
DropRequest(h) == requests' = [requests EXCEPT ![Other(req[h].actor)] = None]

\* Mutant: the request is deleted with deleteMany, which a missing row does not stop.
CanAccept_AnyRequest(h) == ~friends

CanAccept(h) == ~friends /\ RequestStillThere(h)

\* One transaction: insert the friendship (unique), delete the request (P2025).
Accept(h) ==
    /\ At(h, "accept")
    /\ \/ /\ CanAccept(h)
          /\ friends' = TRUE
          /\ DropRequest(h)
          /\ Done(h)
          /\ UNCHANGED <<usedRequests, blocks, thread, usedThreads, posted>>
       \/ ~CanAccept(h) /\ Abort(h)

Decline(h) ==
    /\ At(h, "decline")
    /\ \/ /\ RequestStillThere(h)
          /\ DropRequest(h)
          /\ Done(h)
          /\ UNCHANGED <<usedRequests, friends, blocks, thread, usedThreads, posted>>
       \/ ~RequestStillThere(h) /\ Abort(h)

--------------------------------------------------------------------------------
(* removeFriend, blockUser, unblockUser *)

\* Two statements, no transaction: first the friendship ...
StartRemoveFriend(h, u) ==
    /\ At(h, "idle")
    /\ friends' = FALSE
    /\ Serve(h, [Idle EXCEPT !.pc = "dropThread", !.actor = u])
    /\ UNCHANGED <<requests, usedRequests, blocks, thread, usedThreads, posted>>

\* Mutant: the messages stay.
DropThread_NoCascade(h) ==
    /\ At(h, "dropThread")
    /\ thread' = None
    /\ Done(h)
    /\ UNCHANGED <<requests, usedRequests, friends, blocks, usedThreads, posted>>

\* ... then the thread, and by cascade its messages.
DropThread(h) ==
    /\ At(h, "dropThread")
    /\ thread' = None
    /\ posted' = {}
    /\ Done(h)
    /\ UNCHANGED <<requests, usedRequests, friends, blocks, usedThreads>>

\* One transaction: the friendship goes, the block comes (unique).  Pending
\* requests and the thread stay.
BlockUser(h, u) ==
    /\ At(h, "idle")
    /\ u \notin blocks
    /\ friends' = FALSE
    /\ blocks' = blocks \cup {u}
    /\ Done(h)
    /\ UNCHANGED <<requests, usedRequests, thread, usedThreads, posted>>

UnblockUser(h, u) ==
    /\ At(h, "idle")
    /\ u \in blocks
    /\ blocks' = blocks \ {u}
    /\ Done(h)
    /\ UNCHANGED <<requests, usedRequests, friends, thread, usedThreads, posted>>

--------------------------------------------------------------------------------
(* getOrCreateThread, sendMessage *)

\* areMutualFriendsAndNotBlocked: two reads.
StartOpenThread(h, u) ==
    /\ friends
    /\ Begin(h, [Idle EXCEPT !.pc = "blockCheck", !.actor = u])

\* Mutant: only a block by the caller is looked for.
NotBlocked_OneWay(u) == u \notin blocks

NotBlocked(u) == u \notin blocks /\ Other(u) \notin blocks

CheckNotBlocked(h) ==
    /\ At(h, "blockCheck")
    /\ \/ NotBlocked(req[h].actor) /\ Goto(h, "findThread")
       \/ ~NotBlocked(req[h].actor) /\ Abort(h)

FindThread(h) ==
    /\ At(h, "findThread")
    /\ \/ thread = None /\ Goto(h, "createThread")
       \/ thread # None /\ Abort(h)     \* returned to the caller

\* Unique per canonical pair (P2002).
CreateThread(h) ==
    /\ At(h, "createThread")
    /\ \/ /\ thread = None
          /\ \E t \in ThreadIds \ usedThreads :
               /\ thread' = t
               /\ usedThreads' = usedThreads \cup {t}
          /\ Done(h)
          /\ UNCHANGED <<requests, usedRequests, friends, blocks, posted>>
       \/ thread # None /\ Abort(h)

\* Mutant: nobody looks whether the thread exists.
StartSendMessage_AnyThread(h, u) ==
    Begin(h, [Idle EXCEPT !.pc = "insertMessage", !.actor = u, !.thread = thread])

\* assertParticipant is the only check on the author.
StartSendMessage(h, u) ==
    /\ thread # None
    /\ Begin(h, [Idle EXCEPT !.pc = "insertMessage", !.actor = u, !.thread = thread])

\* The foreign key refuses a message to a thread deleted meanwhile.
InsertMessage(h) ==
    /\ At(h, "insertMessage")
    /\ \/ /\ thread = req[h].thread
          /\ posted' = posted \cup {<<thread, req[h].actor>>}
          /\ Done(h)
          /\ UNCHANGED <<requests, usedRequests, friends, blocks, thread, usedThreads>>
       \/ thread # req[h].thread /\ Abort(h)

--------------------------------------------------------------------------------

\* Bound: a request or thread is begun only while an id for its row is left.
Arrive(h) ==
    \E u \in Pair :
        \/ usedRequests # RequestIds /\ StartSendRequest(h, u)
        \/ StartAccept(h, u)
        \/ StartDecline(h, u)
        \/ StartRemoveFriend(h, u)
        \/ BlockUser(h, u)
        \/ UnblockUser(h, u)
        \/ usedThreads # ThreadIds /\ StartOpenThread(h, u)
        \/ StartSendMessage(h, u)

Proceed(h) ==
    \/ CheckNotFriends(h)
    \/ CreateRequest(h)
    \/ Accept(h)
    \/ Decline(h)
    \/ DropThread(h)
    \/ CheckNotBlocked(h)
    \/ FindThread(h)
    \/ CreateThread(h)
    \/ InsertMessage(h)

Next == \E h \in Handlers : Arrive(h) \/ Proceed(h)

Spec == Init /\ [][Next]_vars

--------------------------------------------------------------------------------
(* Safety *)

\* A friendship is made only from a request that is still pending, and uses it
\* up: one declined, or accepted by another request, meanwhile makes none.
FriendshipTakesRequest ==
    [][~friends /\ friends' =>
         \E u \in Pair : requests[u] # None /\ requests'[u] = None]_vars

\* removeFriend takes the conversation with it: no message outlives its thread
\* or lands in a thread that has been deleted, whatever was being sent.
MessagesDieWithThread == \A m \in posted : m[1] = thread

Alone == overlapped \cup overlapped' = {}

\* A pair has one pending request at most ("a friend request is already pending
\* between these users"; "to prevent duplicates").
OneRequestPerPair == \A u, v \in Pair : requests[u] # None /\ requests[v] # None => u = v

\* Friends have no request left to answer.
PendingMeansStrangers == friends => \A u \in Pair : requests[u] = None

RequestsClear == OneRequestPerPair /\ PendingMeansStrangers

\* Only a race makes two requests cross or leaves one to friends: no sequence of
\* requests served one at a time does, friends removed and blocked in between
\* included.
OnlyRacesConfuseRequests ==
    [][Alone /\ RequestsClear => RequestsClear']_vars

\* Only a race creates a thread for a pair that is not, or no longer, one of
\* friends without a block.
OnlyRacesOpenThreads ==
    [][Alone /\ thread' \notin {thread, None} => friends /\ blocks = {}]_vars

\* "one-to-one messages only allowed between mutual friends with no bans".
MessagesOnlyBetweenFriends ==
    [][posted' \subseteq posted \/ (friends /\ blocks = {})]_vars
================================================================================
