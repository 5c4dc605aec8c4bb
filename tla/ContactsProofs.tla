------------------------------ MODULE ContactsProofs ------------------------------
(***************************************************************************)
(* Proofs about friends: the server's side (Contacts), for every pair, set *)
(* of handlers and set of row ids, then what the dialogs and caches of a   *)
(* client make of it (FriendsClient), for any number of calls, events and  *)
(* fetches on their way, and any panes.                                    *)
(*                                                                         *)
(* What a check of a request has found need not hold when it writes.  It   *)
(* does as long as the request has been alone: any other request that      *)
(* takes a step meanwhile, even one that ends with it, marks it as         *)
(* overlapped (AloneOK).  That is what the rules about races rest on.      *)
(*                                                                         *)
(* In the client, a query that is not what the server has is about to hear *)
(* of it: it is asked for, or an event or the answer to a call that will   *)
(* invalidate it is on its way, or it is excused.  And a call that the     *)
(* server has not yet answered is about what the button of its offer named *)
(* (ClientInv).                                                            *)
(***************************************************************************)
EXTENDS Contacts, FriendsClient, Integers, SequenceTheorems, TLAPS

\* What request r holds while it waits, when the threads ever created are used.
RequestOK(r, used) ==
    /\ r.pc = "idle" => r = Idle
    /\ r.pc # "idle" => r.actor \in Pair
    /\ r.pc \in {"accept", "decline"} => r.request \in RequestIds
    /\ r.pc = "insertMessage" => r.thread \in used

RequestsOK == \A h \in Handlers : RequestOK(req[h], usedThreads)

\* What the checks of request r have found holds of the tables rq, fr and bl.
StillTrue(r, rq, fr, bl) ==
    /\ r.pc \in {"friendship", "createRequest"} =>
         rq[r.actor] = None /\ rq[Other(r.actor)] = None
    /\ r.pc = "createRequest" => ~fr
    /\ r.pc \in {"blockCheck", "findThread", "createThread"} => fr
    /\ r.pc \in {"findThread", "createThread"} =>
         r.actor \notin bl /\ Other(r.actor) \notin bl

\* A request that has been alone so far is alone, and may rely on its checks.
AloneOK ==
    \A h \in Handlers \ overlapped :
        req[h] # Idle =>
            /\ \A g \in Handlers \ {h} : req[g] = Idle
            /\ StillTrue(req[h], requests, friends, blocks)

IInv == TypeOK /\ RequestsOK

--------------------------------------------------------------------------------
(* The pair and the handlers *)

LEMMA TheOther ==
    ASSUME NEW u \in Pair
    PROVE  Other(u) \in Pair /\ Other(u) # u /\ Pair = {u, Other(u)}
  <1>1. PICK a, b \in Pair : a # b /\ Pair = {a, b}
    BY PairAssumption
  <1>2. \E v \in Pair : v # u
    BY <1>1
  <1>3. Other(u) \in Pair /\ Other(u) # u
    BY <1>2 DEF Other
  <1> QED
    BY <1>1, <1>3

LEMMA IdleOK == Idle \in Request /\ \A used : RequestOK(Idle, used)
  BY DEF Idle, Request, Pcs, RequestOK

\* A step changes the request of its handler only, and none of the others minds
\* that threads are added to those ever created.
LEMMA ServeOK ==
    ASSUME IInv, NEW h \in Handlers, NEW STATE r, r \in Request, Serve(h, r),
           usedThreads \subseteq usedThreads', RequestOK(r, usedThreads')
    PROVE  /\ req' \in [Handlers -> Request] /\ overlapped' \in SUBSET Handlers
           /\ req'[h] = r /\ \A g \in Handlers \ {h} : req'[g] = req[g]
           /\ RequestsOK'
  <1>1. req' \in [Handlers -> Request] /\ overlapped' \in SUBSET Handlers
    BY DEF IInv, TypeOK, Serve
  <1>2. req'[h] = r /\ \A g \in Handlers \ {h} : req'[g] = req[g]
    BY DEF IInv, TypeOK, Serve
  <1>3. RequestsOK'
    BY <1>2 DEF IInv, RequestsOK, RequestOK
  <1> QED
    BY <1>1, <1>2, <1>3

LEMMA BeginOK ==
    ASSUME IInv, NEW h \in Handlers, NEW STATE r, r \in Request, Begin(h, r),
           RequestOK(r, usedThreads)
    PROVE  IInv'
  <1>1. Serve(h, r) /\ UNCHANGED tables
    BY DEF Begin
  <1>2. /\ req' \in [Handlers -> Request] /\ overlapped' \in SUBSET Handlers
        /\ RequestsOK'
    BY <1>1, ServeOK DEF tables
  <1> QED
    BY <1>1, <1>2 DEF IInv, TypeOK, tables

LEMMA DoneOK ==
    ASSUME IInv, NEW h \in Handlers, Done(h), usedThreads \subseteq usedThreads'
    PROVE  /\ req' \in [Handlers -> Request] /\ overlapped' \in SUBSET Handlers
           /\ RequestsOK'
  BY IdleOK, ServeOK DEF Done

LEMMA AbortOK ==
    ASSUME IInv, NEW h \in Handlers, Abort(h)
    PROVE  IInv'
  <1>1. /\ req' \in [Handlers -> Request] /\ overlapped' \in SUBSET Handlers
        /\ RequestsOK'
    BY DoneOK DEF Abort, tables
  <1> QED
    BY <1>1 DEF IInv, TypeOK, Abort, tables

LEMMA GotoOK ==
    ASSUME IInv, NEW h \in Handlers, req[h].pc # "idle",
           NEW pc \in {"createRequest", "findThread", "createThread"}, Goto(h, pc)
    PROVE  IInv'
  <1> DEFINE r == [req[h] EXCEPT !.pc = pc]
  <1>1. req[h] \in Request /\ req[h].actor \in Pair
    BY DEF IInv, TypeOK, RequestsOK, RequestOK
  <1>2. r \in Request /\ RequestOK(r, usedThreads)
    BY <1>1 DEF Request, Pcs, RequestOK
  <1>3. /\ req' \in [Handlers -> Request] /\ overlapped' \in SUBSET Handlers
        /\ RequestsOK'
    BY <1>2, ServeOK DEF Goto, tables
  <1> QED
    BY <1>3 DEF IInv, TypeOK, Goto, tables

--------------------------------------------------------------------------------
(* Types *)

LEMMA InitOK == Init => IInv
  BY IdleOK DEF Init, IInv, TypeOK, RequestsOK

\* A request begins: one step of the proof for each operation.
LEMMA ArriveOK ==
    ASSUME IInv, NEW h \in Handlers, Arrive(h)
    PROVE  IInv'
  <1> PICK u \in Pair :
        \/ usedRequests # RequestIds /\ StartSendRequest(h, u)
        \/ StartAccept(h, u) \/ StartDecline(h, u)
        \/ StartRemoveFriend(h, u) \/ BlockUser(h, u) \/ UnblockUser(h, u)
        \/ usedThreads # ThreadIds /\ StartOpenThread(h, u)
        \/ StartSendMessage(h, u)
    BY DEF Arrive
  <1> Other(u) \in Pair
    BY TheOther
  <1>1. CASE StartSendRequest(h, u)
    <2> DEFINE r == [Idle EXCEPT !.pc = "friendship", !.actor = u]
    <2>1. r \in Request /\ RequestOK(r, usedThreads)
      BY DEF Idle, Request, Pcs, RequestOK
    <2> QED
      BY <1>1, <2>1, BeginOK DEF StartSendRequest
  <1>2. ASSUME NEW pc \in {"accept", "decline"}, StartAnswer(h, u, pc)
        PROVE  IInv'
    <2> DEFINE r == [Idle EXCEPT !.pc = pc, !.actor = u, !.request = requests[Other(u)]]
    <2>1. requests[Other(u)] \in RequestIds
      BY <1>2 DEF StartAnswer, IInv, TypeOK
    <2>2. r \in Request /\ RequestOK(r, usedThreads)
      BY <2>1 DEF Idle, Request, Pcs, RequestOK
    <2> QED
      BY <1>2, <2>2, BeginOK DEF StartAnswer
  <1>3. CASE StartRemoveFriend(h, u)
    <2> DEFINE r == [Idle EXCEPT !.pc = "dropThread", !.actor = u]
    <2>1. r \in Request /\ RequestOK(r, usedThreads')
      BY DEF Idle, Request, Pcs, RequestOK
    <2>2. /\ req' \in [Handlers -> Request] /\ overlapped' \in SUBSET Handlers
          /\ RequestsOK'
      BY <1>3, <2>1, ServeOK DEF StartRemoveFriend
    <2> QED
      BY <1>3, <2>2 DEF StartRemoveFriend, IInv, TypeOK
  <1>4. CASE BlockUser(h, u) \/ UnblockUser(h, u)
    <2>1. /\ req' \in [Handlers -> Request] /\ overlapped' \in SUBSET Handlers
          /\ RequestsOK'
      BY <1>4, DoneOK DEF BlockUser, UnblockUser
    <2> QED
      BY <1>4, <2>1 DEF BlockUser, UnblockUser, IInv, TypeOK
  <1>5. CASE StartOpenThread(h, u)
    <2> DEFINE r == [Idle EXCEPT !.pc = "blockCheck", !.actor = u]
    <2>1. r \in Request /\ RequestOK(r, usedThreads)
      BY DEF Idle, Request, Pcs, RequestOK
    <2> QED
      BY <1>5, <2>1, BeginOK DEF StartOpenThread
  <1>6. CASE StartSendMessage(h, u)
    <2> DEFINE r == [Idle EXCEPT !.pc = "insertMessage", !.actor = u, !.thread = thread]
    <2>1. thread \in usedThreads /\ thread \in ThreadIds
      BY <1>6 DEF StartSendMessage, IInv, TypeOK
    <2>2. r \in Request /\ RequestOK(r, usedThreads)
      BY <2>1 DEF Idle, Request, Pcs, RequestOK
    <2> QED
      BY <1>6, <2>2, BeginOK DEF StartSendMessage
  <1> QED
    BY <1>1, <1>2, <1>3, <1>4, <1>5, <1>6 DEF StartAccept, StartDecline

\* A request goes on: one step of the proof for each query.
LEMMA ProceedOK ==
    ASSUME IInv, NEW h \in Handlers, Proceed(h)
    PROVE  IInv'
  <1> DEFINE u == req[h].actor
             Freed == /\ req' \in [Handlers -> Request] /\ overlapped' \in SUBSET Handlers
                      /\ RequestsOK'
  <1>1. u \in Pair /\ Other(u) \in Pair
    <2>1. req[h].pc # "idle"
      BY DEF Proceed, At, CheckNotFriends, CreateRequest, Accept, Decline, DropThread,
             CheckNotBlocked, FindThread, CreateThread, InsertMessage
    <2> QED
      BY <2>1, TheOther DEF IInv, RequestsOK, RequestOK
  <1>2. CASE Abort(h)
    BY <1>2, AbortOK
  <1>3. CASE CheckNotFriends(h) \/ CheckNotBlocked(h) \/ FindThread(h)
    BY <1>3, AbortOK, GotoOK DEF CheckNotFriends, CheckNotBlocked, FindThread, At
  <1>4. CASE CreateRequest(h) /\ ~Abort(h)
    <2>1. Freed
      BY <1>4, DoneOK DEF CreateRequest
    <2> QED
      BY <1>1, <1>4, <2>1 DEF CreateRequest, IInv, TypeOK
  <1>5. CASE (Accept(h) \/ Decline(h)) /\ ~Abort(h)
    <2>1. Freed
      BY <1>5, DoneOK DEF Accept, Decline
    <2> QED
      BY <1>1, <1>5, <2>1 DEF Accept, Decline, DropRequest, IInv, TypeOK
  <1>6. CASE DropThread(h)
    <2>1. Freed
      BY <1>6, DoneOK DEF DropThread
    <2> QED
      BY <1>6, <2>1 DEF DropThread, IInv, TypeOK
  <1>7. CASE CreateThread(h) /\ ~Abort(h)
    <2>1. Freed
      BY <1>7, DoneOK DEF CreateThread
    <2> QED
      BY <1>7, <2>1 DEF CreateThread, IInv, TypeOK
  <1>8. CASE InsertMessage(h) /\ ~Abort(h)
    <2>1. Freed
      BY <1>8, DoneOK DEF InsertMessage
    <2>2. thread \in usedThreads
      BY <1>8 DEF InsertMessage, At, IInv, RequestsOK, RequestOK
    <2> QED
      BY <1>1, <1>8, <2>1, <2>2 DEF InsertMessage, IInv, TypeOK
  <1> QED
    BY <1>2, <1>3, <1>4, <1>5, <1>6, <1>7, <1>8 DEF Proceed

LEMMA StepOK == IInv /\ [Next]_vars => IInv'
  <1>1. IInv /\ UNCHANGED vars => IInv'
    BY DEF IInv, TypeOK, RequestsOK, vars
  <1> QED
    BY <1>1, ArriveOK, ProceedOK DEF Next

LEMMA Invariance == Spec => []IInv
  BY InitOK, StepOK, PTL DEF Spec

\* Every request keeps the shape the services give it, and every row refers to
\* users of the pair and to ids that were given out.
THEOREM TypeCorrect == Spec => []TypeOK
  <1>1. IInv => TypeOK
    BY DEF IInv
  <1> QED
    BY <1>1, Invariance, PTL

--------------------------------------------------------------------------------
(* Messages and friendships *)

LEMMA MessagesInit == Init => MessagesDieWithThread
  BY DEF Init, MessagesDieWithThread

\* A thread is created only where none is, and so where no message is; the
\* cascade takes the messages with their thread.
LEMMA MessagesStep == IInv /\ MessagesDieWithThread /\ [Next]_vars => MessagesDieWithThread'
  <1> SUFFICES ASSUME IInv, MessagesDieWithThread, [Next]_vars
               PROVE  MessagesDieWithThread'
    OBVIOUS
  <1>1. CASE UNCHANGED <<thread, posted>>
    BY <1>1 DEF MessagesDieWithThread
  <1>2. ASSUME NEW h \in Handlers, CreateThread(h), thread = None
        PROVE  MessagesDieWithThread'
    <2>1. posted = {}
      BY <1>2, NoneAssumption DEF IInv, TypeOK, MessagesDieWithThread
    <2> QED
      BY <1>2, <2>1 DEF CreateThread, Abort, tables, MessagesDieWithThread
  <1>3. ASSUME NEW h \in Handlers, DropThread(h) \/ InsertMessage(h)
        PROVE  MessagesDieWithThread'
    BY <1>3 DEF DropThread, InsertMessage, Abort, tables, MessagesDieWithThread
  <1>4. ASSUME NEW h \in Handlers, Arrive(h)
        PROVE  UNCHANGED <<thread, posted>>
    BY <1>4 DEF Arrive, Begin, StartSendRequest, StartAccept, StartDecline, StartAnswer,
                StartRemoveFriend, BlockUser, UnblockUser, StartOpenThread,
                StartSendMessage, tables
  <1>5. ASSUME NEW h \in Handlers,
               CheckNotFriends(h) \/ CreateRequest(h) \/ Accept(h) \/ Decline(h)
               \/ CheckNotBlocked(h) \/ FindThread(h) \/ Abort(h)
        PROVE  UNCHANGED <<thread, posted>>
    BY <1>5 DEF CheckNotFriends, CreateRequest, Accept, Decline, CheckNotBlocked,
                FindThread, Abort, Goto, tables
  <1>6. CASE UNCHANGED vars
    BY <1>1, <1>6 DEF vars
  <1>7. ASSUME NEW h \in Handlers, CreateThread(h), thread # None
        PROVE  Abort(h)
    BY <1>7 DEF CreateThread
  <1> QED
    BY <1>1, <1>2, <1>3, <1>4, <1>5, <1>6, <1>7 DEF Next, Proceed

\* removeFriend takes the conversation with it, whatever was being sent.
THEOREM MessagesDieWithThreadAlways == Spec => []MessagesDieWithThread
  BY MessagesInit, MessagesStep, Invariance, PTL DEF Spec

\* Only Accept makes friends, and the request it uses up is the one it was given.
LEMMA OnlyAcceptBefriends ==
    ASSUME IInv, NEW h \in Handlers, Arrive(h) \/ Proceed(h), ~friends, friends'
    PROVE  /\ At(h, "accept")
           /\ requests[Other(req[h].actor)] # None
           /\ requests' = [requests EXCEPT ![Other(req[h].actor)] = None]
  <1>1. ~Arrive(h)
    BY DEF Arrive, Begin, StartSendRequest, StartAccept, StartDecline, StartAnswer,
           StartRemoveFriend, BlockUser, UnblockUser, StartOpenThread, StartSendMessage,
           tables
  <1>2. ~Abort(h)
    BY DEF Abort, tables
  <1>3. Accept(h)
    BY <1>1, <1>2 DEF Proceed, CheckNotFriends, CreateRequest, Decline, DropThread,
                      CheckNotBlocked, FindThread, CreateThread, InsertMessage, Goto, tables
  <1> QED
    BY <1>2, <1>3, NoneAssumption
       DEF Accept, CanAccept, RequestStillThere, DropRequest, At, IInv, RequestsOK, RequestOK

\* A friendship is made only from a request that is still pending, and uses it up.
THEOREM FriendshipTakesRequestAlways == Spec => FriendshipTakesRequest
  <1> DEFINE A == ~friends /\ friends' =>
                    \E u \in Pair : requests[u] # None /\ requests'[u] = None
  <1>1. IInv /\ [Next]_vars => [A]_vars
    <2> SUFFICES ASSUME IInv, NEW h \in Handlers, Arrive(h) \/ Proceed(h), ~friends, friends'
                 PROVE  \E u \in Pair : requests[u] # None /\ requests'[u] = None
      BY DEF Next
    <2> DEFINE u == Other(req[h].actor)
    <2>1. /\ At(h, "accept") /\ requests[u] # None
          /\ requests' = [requests EXCEPT ![u] = None]
      BY OnlyAcceptBefriends
    <2>2. u \in Pair
      BY <2>1, TheOther DEF At, IInv, RequestsOK, RequestOK
    <2> QED
      BY <2>1, <2>2 DEF IInv, TypeOK
  <1> QED
    BY <1>1, Invariance, PTL DEF Spec, FriendshipTakesRequest

--------------------------------------------------------------------------------
(* Requests that are alone *)

\* If a handler is busy and unmarked after a step, the step was its own, the
\* handler was unmarked before it and all others rest.
LEMMA ServeAlone ==
    ASSUME IInv, NEW h \in Handlers, NEW STATE r, Serve(h, r),
           NEW k \in Handlers, req'[k] # Idle, k \notin overlapped'
    PROVE  /\ k = h /\ req'[h] = r /\ h \notin overlapped
           /\ \A g \in Handlers \ {h} : req'[g] = Idle
  <1> DEFINE others == {g \in Handlers \ {h} : req[g] # Idle}
             shared == IF others = {} THEN overlapped ELSE overlapped \cup others \cup {h}
  <1>1. /\ req' = [req EXCEPT ![h] = r]
        /\ overlapped' = IF r = Idle THEN shared \ {h} ELSE shared
    BY DEF Serve
  <1>2. req'[h] = r /\ \A g \in Handlers \ {h} : req'[g] = req[g]
    BY <1>1 DEF IInv, TypeOK
  <1>3. k = h
    <2> SUFFICES ASSUME k # h PROVE FALSE
      OBVIOUS
    <2>1. k \in others
      BY <1>2
    <2>2. k \in shared
      BY <2>1
    <2> QED
      BY <1>1, <2>2
  <1>4. r # Idle /\ h \notin shared
    BY <1>1, <1>2, <1>3
  <1>5. others = {} /\ h \notin overlapped
    BY <1>4
  <1> QED
    BY <1>2, <1>3, <1>5

\* A step of h keeps AloneOK if what h relies on afterwards holds, given that h
\* relied on its checks before.
LEMMA AloneStep ==
    ASSUME IInv, AloneOK, NEW h \in Handlers, NEW STATE r, Serve(h, r),
           \/ r = Idle
           \/ h \in overlapped
           \/ StillTrue(r, requests', friends', blocks')
    PROVE  AloneOK'
  <1> SUFFICES ASSUME NEW k \in Handlers, k \notin overlapped', req'[k] # Idle
               PROVE  /\ \A g \in Handlers \ {k} : req'[g] = Idle
                      /\ StillTrue(req'[k], requests', friends', blocks')
    BY DEF AloneOK
  <1>1. /\ k = h /\ req'[h] = r /\ h \notin overlapped
        /\ \A g \in Handlers \ {h} : req'[g] = Idle
    BY ServeAlone
  <1> QED
    BY <1>1

LEMMA AloneGoto ==
    ASSUME IInv, AloneOK, NEW h \in Handlers, NEW pc, Goto(h, pc),
           \/ h \in overlapped
           \/ StillTrue([req[h] EXCEPT !.pc = pc], requests, friends, blocks)
    PROVE  AloneOK'
  <1> DEFINE r == [req[h] EXCEPT !.pc = pc]
  <1>1. Serve(h, r) /\ UNCHANGED <<requests, friends, blocks>>
    BY DEF Goto, tables
  <1> QED
    BY <1>1, AloneStep

LEMMA AloneDone ==
    ASSUME IInv, AloneOK, NEW h \in Handlers, Done(h)
    PROVE  AloneOK'
  BY AloneStep DEF Done

\* What an unmarked busy handler has checked is still so.
LEMMA ChecksHold ==
    ASSUME IInv, AloneOK, NEW h \in Handlers, h \notin overlapped, req[h].pc # "idle"
    PROVE  StillTrue(req[h], requests, friends, blocks)
  BY DEF AloneOK, Idle

LEMMA AloneArrive ==
    ASSUME IInv, AloneOK, NEW h \in Handlers, Arrive(h)
    PROVE  AloneOK'
  <1> PICK u \in Pair :
        \/ usedRequests # RequestIds /\ StartSendRequest(h, u)
        \/ StartAccept(h, u) \/ StartDecline(h, u)
        \/ StartRemoveFriend(h, u) \/ BlockUser(h, u) \/ UnblockUser(h, u)
        \/ usedThreads # ThreadIds /\ StartOpenThread(h, u)
        \/ StartSendMessage(h, u)
    BY DEF Arrive
  <1>1. CASE StartSendRequest(h, u)
    <2> DEFINE r == [Idle EXCEPT !.pc = "friendship", !.actor = u]
    <2>1. Serve(h, r) /\ UNCHANGED <<requests, friends, blocks>>
      BY <1>1 DEF StartSendRequest, Begin, tables
    <2>2. StillTrue(r, requests', friends', blocks')
      BY <1>1, <2>1 DEF StartSendRequest, NonePending, StillTrue, Idle
    <2> QED
      BY <2>1, <2>2, AloneStep
  <1>2. ASSUME NEW pc \in {"accept", "decline"}, StartAnswer(h, u, pc)
        PROVE  AloneOK'
    <2> DEFINE r == [Idle EXCEPT !.pc = pc, !.actor = u, !.request = requests[Other(u)]]
    <2>1. Serve(h, r) /\ StillTrue(r, requests', friends', blocks')
      BY <1>2 DEF StartAnswer, Begin, StillTrue, Idle
    <2> QED
      BY <2>1, AloneStep
  <1>3. CASE StartRemoveFriend(h, u)
    <2> DEFINE r == [Idle EXCEPT !.pc = "dropThread", !.actor = u]
    <2>1. Serve(h, r) /\ StillTrue(r, requests', friends', blocks')
      BY <1>3 DEF StartRemoveFriend, StillTrue, Idle
    <2> QED
      BY <2>1, AloneStep
  <1>4. CASE BlockUser(h, u) \/ UnblockUser(h, u)
    BY <1>4, AloneDone DEF BlockUser, UnblockUser
  <1>5. CASE StartOpenThread(h, u)
    <2> DEFINE r == [Idle EXCEPT !.pc = "blockCheck", !.actor = u]
    <2>1. Serve(h, r) /\ UNCHANGED <<requests, friends, blocks>>
      BY <1>5 DEF StartOpenThread, Begin, tables
    <2>2. StillTrue(r, requests', friends', blocks')
      BY <1>5, <2>1 DEF StartOpenThread, StillTrue, Idle
    <2> QED
      BY <2>1, <2>2, AloneStep
  <1>6. CASE StartSendMessage(h, u)
    <2> DEFINE r == [Idle EXCEPT !.pc = "insertMessage", !.actor = u, !.thread = thread]
    <2>1. Serve(h, r) /\ StillTrue(r, requests', friends', blocks')
      BY <1>6 DEF StartSendMessage, Begin, StillTrue, Idle
    <2> QED
      BY <2>1, AloneStep
  <1> QED
    BY <1>1, <1>2, <1>3, <1>4, <1>5, <1>6 DEF StartAccept, StartDecline

LEMMA AloneProceed ==
    ASSUME IInv, AloneOK, NEW h \in Handlers, Proceed(h)
    PROVE  AloneOK'
  <1> DEFINE u == req[h].actor
  <1>1. CASE Done(h)
    BY <1>1, AloneDone
  <1>2. CASE CheckNotFriends(h) /\ ~friends /\ Goto(h, "createRequest")
    <2>1. h \notin overlapped => requests[u] = None /\ requests[Other(u)] = None
      BY <1>2, ChecksHold DEF CheckNotFriends, At, StillTrue
    <2> QED
      BY <1>2, <2>1, AloneGoto DEF StillTrue, IInv, TypeOK, Request
  <1>3. CASE CheckNotBlocked(h) /\ NotBlocked(u) /\ Goto(h, "findThread")
    <2>1. h \notin overlapped => friends
      BY <1>3, ChecksHold DEF CheckNotBlocked, At, StillTrue
    <2> QED
      BY <1>3, <2>1, AloneGoto DEF NotBlocked, StillTrue, IInv, TypeOK, Request
  <1>4. CASE FindThread(h) /\ Goto(h, "createThread")
    <2>1. h \notin overlapped => friends /\ u \notin blocks /\ Other(u) \notin blocks
      BY <1>4, ChecksHold DEF FindThread, At, StillTrue
    <2> QED
      BY <1>4, <2>1, AloneGoto DEF StillTrue, IInv, TypeOK, Request
  <1> QED
    BY <1>1, <1>2, <1>3, <1>4
       DEF Proceed, Abort, CheckNotFriends, CreateRequest, Accept, Decline, DropThread,
           CheckNotBlocked, FindThread, CreateThread, InsertMessage

LEMMA AloneInvariance == Spec => []AloneOK
  <1>1. Init => AloneOK
    BY DEF Init, AloneOK
  <1>2. IInv /\ AloneOK /\ [Next]_vars => AloneOK'
    <2>1. AloneOK /\ UNCHANGED vars => AloneOK'
      BY DEF AloneOK, StillTrue, vars
    <2> QED
      BY <2>1, AloneArrive, AloneProceed DEF Next
  <1> QED
    BY <1>1, <1>2, Invariance, PTL DEF Spec

--------------------------------------------------------------------------------
(* Only races *)

\* A request that is served alone from a clear state leaves a clear state.
THEOREM OnlyRacesConfuseRequestsAlways == Spec => OnlyRacesConfuseRequests
  <1> DEFINE A == Alone /\ RequestsClear => RequestsClear'
  <1>1. IInv /\ AloneOK /\ [Next]_vars => [A]_vars
    <2> SUFFICES ASSUME IInv, AloneOK, NEW h \in Handlers, Arrive(h) \/ Proceed(h),
                        Alone, RequestsClear
                 PROVE  RequestsClear'
      BY DEF Next
    <2> DEFINE u == req[h].actor
    <2>1. h \notin overlapped
      BY DEF Alone
    <2>2. CASE ~friends /\ friends'
      <3> DEFINE v == Other(u)
      <3>1. requests[v] # None /\ requests' = [requests EXCEPT ![v] = None] /\ v \in Pair
        BY <2>2, OnlyAcceptBefriends, TheOther DEF At, IInv, RequestsOK, RequestOK
      <3>2. \A w \in Pair : requests[w] # None => w = v
        BY <3>1 DEF RequestsClear, OneRequestPerPair
      <3>3. \A w \in Pair : requests'[w] = None
        BY <3>1, <3>2 DEF IInv, TypeOK
      <3> QED
        BY <3>3 DEF RequestsClear, OneRequestPerPair, PendingMeansStrangers
    <2>3. CASE CreateRequest(h) /\ ~Abort(h)
      <3>1. u \in Pair /\ requests[u] = None /\ requests[Other(u)] = None /\ ~friends
        BY <2>1, <2>3, ChecksHold
           DEF CreateRequest, At, StillTrue, IInv, RequestsOK, RequestOK
      <3>2. \A w \in Pair \ {u} : requests'[w] = None
        BY <2>3, <3>1, TheOther DEF CreateRequest, IInv, TypeOK
      <3>3. ~friends'
        BY <2>3, <3>1 DEF CreateRequest
      <3> QED
        BY <3>2, <3>3 DEF RequestsClear, OneRequestPerPair, PendingMeansStrangers
    <2>4. CASE /\ friends' => friends
               /\ \A w \in Pair : requests'[w] # None => requests[w] # None
      BY <2>4 DEF RequestsClear, OneRequestPerPair, PendingMeansStrangers
    <2>5. CASE Arrive(h)
      <3>1. UNCHANGED requests /\ friends' \in {friends, FALSE}
        BY <2>5 DEF Arrive, Begin, StartSendRequest, StartAccept, StartDecline, StartAnswer,
                StartRemoveFriend, BlockUser, UnblockUser, StartOpenThread,
                StartSendMessage, tables
      <3>2. friends' => friends
        BY <3>1
      <3> QED
        BY <2>4, <3>1, <3>2
    <2>6. CASE UNCHANGED <<requests, friends>>
      BY <2>4, <2>6
    <2>7. CASE (Accept(h) \/ Decline(h)) /\ ~Abort(h) /\ (friends' => friends)
      <3>1. requests' = [requests EXCEPT ![Other(u)] = None]
        BY <2>7 DEF Accept, Decline, DropRequest
      <3>2. \A w \in Pair : requests'[w] # None => requests[w] # None
        BY <3>1 DEF IInv, TypeOK
      <3> QED
        BY <2>4, <2>7, <3>2
    <2>8. CASE Abort(h)
      BY <2>6, <2>8 DEF Abort, tables
    <2> QED
      BY <2>2, <2>3, <2>5, <2>6, <2>7, <2>8
         DEF Proceed, CheckNotFriends, CreateRequest, DropThread, CheckNotBlocked,
             FindThread, CreateThread, InsertMessage, Goto, tables
  <1> QED
    BY <1>1, Invariance, AloneInvariance, PTL DEF Spec, OnlyRacesConfuseRequests

\* A request that is served alone opens a thread only between friends of whom
\* neither has blocked the other.
THEOREM OnlyRacesOpenThreadsAlways == Spec => OnlyRacesOpenThreads
  <1> DEFINE A == Alone /\ thread' \notin {thread, None} => friends /\ blocks = {}
  <1>1. IInv /\ AloneOK /\ [Next]_vars => [A]_vars
    <2> SUFFICES ASSUME IInv, AloneOK, NEW h \in Handlers, Arrive(h) \/ Proceed(h),
                        Alone, thread' \notin {thread, None}
                 PROVE  friends /\ blocks = {}
      BY DEF Next
    <2> DEFINE u == req[h].actor
    <2>1. ~Arrive(h)
      BY DEF Arrive, Begin, StartSendRequest, StartAccept, StartDecline, StartAnswer,
             StartRemoveFriend, BlockUser, UnblockUser, StartOpenThread,
             StartSendMessage, tables
    <2>2. ~Abort(h)
      BY DEF Abort, tables
    <2>3. CreateThread(h)
      BY <2>1, <2>2 DEF Proceed, CheckNotFriends, CreateRequest, Accept, Decline,
         DropThread, CheckNotBlocked, FindThread, InsertMessage, Goto, tables
    <2>4. friends /\ u \notin blocks /\ Other(u) \notin blocks
      BY <2>3, ChecksHold DEF Alone, CreateThread, At, StillTrue
    <2>5. u \in Pair /\ blocks \subseteq Pair
      BY <2>3 DEF CreateThread, At, IInv, TypeOK, RequestsOK, RequestOK
    <2> QED
      BY <2>4, <2>5, TheOther
  <1> QED
    BY <1>1, Invariance, AloneInvariance, PTL DEF Spec, OnlyRacesOpenThreads

--------------------------------------------------------------------------------
(* FriendsClient: the dialogs and caches of a client *)

Data == Nat \cup BOOLEAN

Statuses == {"friend", "pending_sent", "pending_received", "none"}
Results == [status : Statuses, id : Nat]

Rows == [sent : BOOLEAN, received : Nat]
Searches == [friends : BOOLEAN \cup {Nothing}, request : Rows \cup {Nothing}]

Ops == {"send", "accept", "decline", "start"}

CallRecords ==
    [op : Ops, from : {"dialog", "panel"}, id : Nat, pending : BOOLEAN, step : 1..3,
     answer : {Nothing, "ok", "refused"}, query : Queries \cup {"search"}, offer : Data \cup Results]

EventRecords == [type : {"received", "accepted", "declined"}, id : Nat]

Types ==
    /\ uses \subseteq {"dialog", "panel"}
    /\ incoming \in Nat /\ lastId \in Nat
    /\ outgoing \in BOOLEAN /\ befriended \in BOOLEAN /\ hasThread \in BOOLEAN
    /\ events \in Seq(EventRecords)
    /\ cache \in [Queries -> Data \cup {Nothing}]
    /\ fetch \in [Queries -> Data \cup {Asked, Nothing}]
    /\ search \in Results \cup {Nothing, Failed}
    /\ searching \in Searches \cup {Nothing}
    /\ calls \subseteq CallRecords
    /\ invite \in Nat
    /\ notified \subseteq Nat

\* A query that no pane of the user's shows is never there.
Unwatched == \A q \in Queries \ Watched : cache[q] = Nothing /\ fetch[q] = Nothing

\* An event, or a request that was granted, will invalidate the query.
Coming(q) ==
    \/ \E i \in DOMAIN events : q \in InvalidatedBy(events[i])
    \/ \E c \in calls : c.answer = "ok" /\ q \in Effect(c.op)

\* The query has what the server has, or will ask for it.
UpToDate(q) ==
    \/ fetch[q] = Asked
    \/ fetch[q] = Relation[q]
    \/ fetch[q] = Nothing /\ cache[q] \in {Nothing, Relation[q]}

Followed(q) == UpToDate(q) \/ Coming(q) \/ q \in excused

Fresh == \A q \in Queries : Followed(q)

\* What the button of an offer asks.
Matches(c) ==
    /\ c.op = "start" => c.query = "friends" /\ c.offer = TRUE
    /\ c.op = "send" => c.query = "search" /\ c.offer.status = "none"
    /\ c.op = "decline" => c.query = "requests" /\ c.offer = c.id
    /\ c.op = "accept" =>
           \/ c.query = "requests" /\ c.offer = c.id
           \/ c.query = "search" /\ c.offer.status = "pending_received" /\ c.offer.id = c.id

Offered == \A c \in calls : c.answer = Nothing => Matches(c)

ClientInv == Types /\ Unwatched /\ Fresh /\ Offered /\ OnlyStaleOffersRefused

--------------------------------------------------------------------------------
(* Facts about values *)

LEMMA QueryNames == Queries = {"requests", "friends", "threads"}
  BY DEF Queries

LEMMA DataValues ==
    /\ Asked \notin Data /\ Nothing \notin Data /\ Asked # Nothing
    /\ Nothing \notin {"pending", "accept", "add", "ok", "refused"}
  BY ValueAssumption DEF Data

\* What the server answers is data.
LEMMA RelationType ==
    Types => /\ \A q \in Queries : Relation[q] \in Data
             /\ Relation["requests"] = incoming
             /\ Relation["friends"] = befriended
             /\ Relation["threads"] = hasThread
  BY QueryNames DEF Types, Relation, Data

LEMMA ResultType ==
    ASSUME NEW f \in BOOLEAN, NEW r \in Rows
    PROVE  /\ Result(f, r) \subseteq Results
           /\ \A x \in Result(f, r) :
                 /\ x.status = "none" => ~f /\ ~r.sent /\ r.received = 0
                 /\ x.status = "pending_received" => x.id = r.received
<1>1. Pending(r) \subseteq Results /\ \A x \in Pending(r) :
          \/ x = Sent
          \/ x = Received(r.received)
  BY DEF Pending, Sent, Received, Results, Statuses, Rows
<1>2. Pending(r) = {} => ~r.sent /\ r.received = 0
  <2>1. r.sent => Sent \in Pending(r)  BY DEF Pending
  <2>2. r.received # 0 => Received(r.received) \in Pending(r)  BY DEF Pending
  <2> QED BY <2>1, <2>2
<1> QED BY <1>1, <1>2 DEF Result, Sent, Received, Results, Statuses

\* What goes on elsewhere leaves the client alone.
LEMMA ElsewhereClient == Elsewhere => UNCHANGED client
  BY DEF Elsewhere, TheySend, TheyAreNoFriend, TheirRequestCreated, TheyAccept, TheyDecline,
         TheyStart, TheyFindNoThread, TheirThreadCreated, TheyRemove, TheirThreadDropped,
         TheyFail, AnswerElsewhere, GoesOn

\* What the client is told of it: by an event, by nothing, or there is nothing to tell.
LEMMA ElsewhereTells ==
    Elsewhere =>
        \/ TheirRequestCreated \/ TheyAccept \/ TheyDecline
        \/ Untold
        \/ UNCHANGED <<incoming, befriended, hasThread, events, excused>>
  BY DEF Elsewhere, TheySend, TheyAreNoFriend, TheyStart, TheyFindNoThread, TheirThreadCreated,
         TheyRemove, TheirThreadDropped, TheyFail, AnswerElsewhere, GoesOn

\* Without one event the others are still there.
LEMMA OthersStay ==
    ASSUME NEW S, NEW s \in Seq(S), NEW i \in DOMAIN s
    PROVE  /\ RemoveAt(s, i) \in Seq(S)
           /\ \A j \in DOMAIN s \ {i} : \E k \in DOMAIN RemoveAt(s, i) : RemoveAt(s, i)[k] = s[j]
<1> DEFINE before == SubSeq(s, 1, i - 1)
           after == SubSeq(s, i + 1, Len(s))
<1>1. i \in 1..Len(s) /\ Len(s) \in Nat /\ \A j \in 1..Len(s) : s[j] \in S  OBVIOUS
<1>2. /\ before \in Seq(S) /\ Len(before) = i - 1 /\ \A j \in 1..(i - 1) : before[j] = s[j]
  BY <1>1
<1>3. /\ after \in Seq(S) /\ Len(after) = Len(s) - i
      /\ \A j \in 1..(Len(s) - i) : after[j] = s[i + j]
  BY <1>1
<1>4. RemoveAt(s, i) = before \o after  BY DEF RemoveAt
<1> HIDE DEF before, after
<1>5. /\ before \o after \in Seq(S) /\ Len(before \o after) = Len(s) - 1
      /\ \A k \in 1..(Len(s) - 1) :
             (before \o after)[k] = IF k < i THEN before[k] ELSE after[k - (i - 1)]
  <2>0. before \in Seq(S) /\ after \in Seq(S)  BY <1>2, <1>3
  <2>1. before \o after \in Seq(S) /\ Len(before \o after) = Len(before) + Len(after)
    BY ONLY <2>0, ConcatProperties
  <2>2. \A k \in 1..(Len(before) + Len(after)) :
           (before \o after)[k] = IF k <= Len(before) THEN before[k] ELSE after[k - Len(before)]
    BY ONLY <2>0, ConcatProperties
  <2>3. i \in Nat /\ Len(s) \in Nat /\ Len(before) = i - 1 /\ Len(before) + Len(after) = Len(s) - 1
    BY <1>1, <1>2, <1>3
  <2>4. \A k \in 1..(Len(s) - 1) : k <= i - 1 <=> k < i  BY <2>3
  <2> QED BY ONLY <2>1, <2>2, <2>3, <2>4
<1>6. ASSUME NEW j \in DOMAIN s \ {i}
      PROVE  \E k \in DOMAIN (before \o after) : (before \o after)[k] = s[j]
  <2>1. CASE j < i
    <3>1. j \in 1..(Len(s) - 1) /\ j \in 1..(i - 1)  BY <1>1, <2>1
    <3>2. (before \o after)[j] = s[j]  BY <1>2, <1>5, <2>1, <3>1
    <3> QED BY <1>1, <1>5, <3>1, <3>2
  <2>2. CASE j > i
    <3>1. j - 1 \in 1..(Len(s) - 1) /\ ~(j - 1 < i) /\ (j - 1) - (i - 1) \in 1..(Len(s) - i)
          /\ i + ((j - 1) - (i - 1)) = j
      BY <1>1, <2>2
    <3>2. (before \o after)[j - 1] = s[j]  BY <1>3, <1>5, <3>1
    <3> QED BY <1>1, <1>5, <3>1, <3>2
  <2> QED BY <1>1, <2>1, <2>2
<1> QED BY <1>4, <1>5, <1>6

--------------------------------------------------------------------------------

LEMMA InitInv == ClientInit => ClientInv
<1> SUFFICES ASSUME ClientInit PROVE ClientInv  OBVIOUS
<1>1. Types
  <2>1. uses \subseteq {"dialog", "panel"}  BY BoundAssumption DEF ClientInit
  <2>2. cache \in [Queries -> Data \cup {Nothing}] /\ fetch \in [Queries -> Data \cup {Asked, Nothing}]
    BY DEF ClientInit
  <2>3. events \in Seq(EventRecords)  BY DEF ClientInit
  <2> QED BY <2>1, <2>2, <2>3 DEF ClientInit, Types
<1>2. Unwatched
  BY DEF ClientInit, Unwatched
<1>3. Fresh
  BY QueryNames DEF ClientInit, Fresh, Followed, UpToDate
<1>4. Offered /\ OnlyStaleOffersRefused
  BY DEF ClientInit, Offered, OnlyStaleOffersRefused
<1> QED BY <1>1, <1>2, <1>3, <1>4 DEF ClientInv

--------------------------------------------------------------------------------
(* Calls keep what they are about when a dialog or the panel goes *)

Same(c, d) ==
    /\ c.op = d.op /\ c.id = d.id /\ c.query = d.query /\ c.offer = d.offer
    /\ c.answer = d.answer

\* The calls of ds are those of cs, but for who waits for them.
SameCalls(cs, ds) ==
    /\ ds \subseteq CallRecords
    /\ \A d \in ds : \E c \in cs : Same(c, d)
    /\ \A c \in cs : \E d \in ds : Same(c, d)

LEMMA PendingOnly ==
    ASSUME NEW c \in CallRecords, NEW b \in BOOLEAN
    PROVE  [c EXCEPT !.pending = b] \in CallRecords /\ Same(c, [c EXCEPT !.pending = b])
  BY DEF CallRecords, Same

LEMMA SameItself == ASSUME NEW cs \in SUBSET CallRecords PROVE SameCalls(cs, cs)
  BY DEF SameCalls, Same

LEMMA MountedCalls == ASSUME NEW cs \in SUBSET CallRecords PROVE SameCalls(cs, Mounted(cs))
<1>1. CASE PanelShown'
  BY <1>1, SameItself DEF Mounted
<1>2. CASE ~PanelShown'
  <2> DEFINE after(c) == [c EXCEPT !.pending = c.pending /\ c.from # "panel"]
  <2>1. \A c \in cs : after(c) \in CallRecords /\ Same(c, after(c))
    BY PendingOnly
  <2>2. Mounted(cs) = {after(c) : c \in cs}
    BY <1>2 DEF Mounted
  <2> HIDE DEF after
  <2> QED BY <2>1, <2>2 DEF SameCalls
<1> QED BY <1>1, <1>2

\* What Close makes of the calls.
Closed(cs) ==
    {[c EXCEPT !.pending = c.pending /\ ~(c.from = "dialog" /\ c.op = "start")] : c \in cs}

LEMMA ClosedCalls == ASSUME NEW cs \in SUBSET CallRecords PROVE SameCalls(cs, Closed(cs))
<1> DEFINE after(c) == [c EXCEPT !.pending = c.pending /\ ~(c.from = "dialog" /\ c.op = "start")]
<1>1. \A c \in cs : after(c) \in CallRecords /\ Same(c, after(c))
  BY PendingOnly
<1>2. Closed(cs) = {after(c) : c \in cs}
  BY DEF Closed
<1> HIDE DEF after
<1> QED BY <1>1, <1>2 DEF SameCalls

--------------------------------------------------------------------------------
(* Which action does what to the calls *)

\* Effects, by name.
LEMMA Effects ==
    /\ Effect("send") = {} /\ Effect("start") = {"threads"}
    /\ Effect("accept") = {"friends", "requests"} /\ Effect("decline") = {"requests"}
  BY DEF Effect

LEMMA EffectsInvalidated == \A op \in Ops : Effect(op) \subseteq InvalidatedOnSuccess(op)
  BY DEF Effect, InvalidatedOnSuccess, Ops

\* A new call is unanswered, and asks what its button shows.
LEMMA NewCall ==
    ASSUME Types,
           NEW op \in Ops, NEW from \in {"dialog", "panel"}, NEW id \in Nat,
           NEW query \in Queries \cup {"search"},
           (IF query = "search" THEN search ELSE cache[query]) \in Data \cup Results
    PROVE  /\ Call(op, from, id, query) \in CallRecords
           /\ Call(op, from, id, query).answer = Nothing
  BY DEF Call, CallRecords

Sends ==
    \/ ClickAdd \/ ClickAcceptFound \/ ClickFriend
    \/ \E op \in {"accept", "decline"} : ClickPanel(op)

LEMMA SendsCall ==
    ASSUME Types, Sends
    PROVE  \E call \in CallRecords :
              call.answer = Nothing /\ Matches(call) /\ calls' = calls \cup {call}
<1>0. "search" \notin Queries /\ {"requests", "friends"} \subseteq Queries
  BY QueryNames
<1>1. CASE ClickAdd
  <2> DEFINE call == Call("send", "dialog", 0, "search")
  <2>1. search \in Results /\ search.status = "none"
    BY <1>1, DataValues DEF ClickAdd, StrangerButton, ResultListed, Types, Results, Statuses
  <2>2. call \in CallRecords /\ call.answer = Nothing
    BY <2>1, NewCall DEF Ops
  <2>3. Matches(call)
    BY <2>1 DEF Matches, Call
  <2> QED BY <1>1, <2>2, <2>3 DEF ClickAdd, Send
<1>2. CASE ClickAcceptFound
  <2> DEFINE call == Call("accept", "dialog", search.id, "search")
  <2>1. search \in Results /\ search.status = "pending_received"
    BY <1>2, DataValues DEF ClickAcceptFound, StrangerButton, ResultListed, Types, Results, Statuses
  <2>2. call \in CallRecords /\ call.answer = Nothing
    BY <2>1, NewCall DEF Ops, Results
  <2>3. Matches(call)
    BY <2>1 DEF Matches, Call
  <2> QED BY <1>2, <2>2, <2>3 DEF ClickAcceptFound, Send
<1>3. CASE ClickFriend
  <2> DEFINE call == Call("start", "dialog", 0, "friends")
  <2>1. cache["friends"] = TRUE
    BY <1>3 DEF ClickFriend, FriendRow
  <2>2. call \in CallRecords /\ call.answer = Nothing
    BY <1>0, <2>1, NewCall DEF Ops, Data
  <2>3. Matches(call)
    BY <2>1 DEF Matches, Call
  <2> QED BY <1>3, <2>2, <2>3 DEF ClickFriend, Send
<1>4. ASSUME NEW op \in {"accept", "decline"}, ClickPanel(op)
      PROVE  \E call \in CallRecords :
                call.answer = Nothing /\ Matches(call) /\ calls' = calls \cup {call}
  <2> DEFINE call == Call(op, "panel", invite, "requests")
  <2>1. invite \in Nat /\ cache["requests"] = invite
    BY <1>4 DEF ClickPanel, PanelShown, Types
  <2>2. call \in CallRecords /\ call.answer = Nothing
    BY <1>0, <2>1, NewCall DEF Ops, Data
  <2>3. Matches(call)
    BY <2>1 DEF Matches, Call
  <2> QED BY <1>4, <2>2, <2>3 DEF ClickPanel, Send
<1> QED BY <1>1, <1>2, <1>3, <1>4 DEF Sends

\* Nothing but a click, an answer or a failure changes what the calls are about.
Bystanders ==
    \/ Elsewhere
    \/ \E q \in Queries : Refetch(q) \/ ReadFetch(q) \/ ReceiveFetch(q) \/ FetchFails(q)
    \/ LoseEvents \/ \E i \in DOMAIN events : ReceiveEvent(i)
    \/ Type \/ Erase \/ RefetchSearch \/ ReadSearch \/ ReceiveSearch \/ SearchFails
    \/ \E id \in 1..MaxRequests : OpenInvite(id)
    \/ OpenChat \/ OpenDialog \/ CloseDialog

LEMMA BystandersKeepCalls == ASSUME Types, Bystanders PROVE SameCalls(calls, calls')
<1>0. calls \in SUBSET CallRecords  BY DEF Types
<1>1. CASE UNCHANGED calls
  BY <1>0, <1>1, SameItself
<1>2. CASE calls' = Mounted(calls)
  BY <1>0, <1>2, MountedCalls
<1>3. CASE CloseDialog
  <2>1. calls' = Closed(calls)  BY <1>3 DEF CloseDialog, Close, Closed
  <2> QED BY <1>0, <2>1, ClosedCalls
<1>4. CASE Elsewhere
  BY <1>1, <1>4, ElsewhereClient DEF client
<1>5. ASSUME NEW q \in Queries, Refetch(q) \/ ReadFetch(q) \/ ReceiveFetch(q) \/ FetchFails(q)
      PROVE  SameCalls(calls, calls')
  BY <1>1, <1>2, <1>5 DEF Refetch, ReadFetch, ReceiveFetch, FetchFails
<1>6. CASE LoseEvents \/ \E i \in DOMAIN events : ReceiveEvent(i)
  BY <1>1, <1>6 DEF ReceiveEvent, LoseEvents
<1>7. CASE Type \/ Erase \/ RefetchSearch \/ ReadSearch \/ ReceiveSearch \/ SearchFails
  BY <1>1, <1>7 DEF Type, Erase, RefetchSearch, ReadSearch, ReceiveSearch, SearchFails
<1>8. CASE OpenChat \/ OpenDialog \/ \E id \in 1..MaxRequests : OpenInvite(id)
  BY <1>1, <1>2, <1>8 DEF OpenChat, OpenDialog, OpenInvite
<1> QED BY <1>3, <1>4, <1>5, <1>6, <1>7, <1>8 DEF Bystanders

\* The request comes a step further, or becomes the answer to it.
LEMMA ProcessCalls ==
    ASSUME Types, NEW c \in calls, Process(c)
    PROVE  \E d \in CallRecords :
              /\ calls' = (calls \ {c}) \cup {d}
              /\ d.op = c.op
              /\ GoOn(c) => d.answer = Nothing /\ (Matches(c) => Matches(d))
              /\ Grant(c) => d.answer = "ok"
              /\ Refuse(c) => d.answer = "refused"
<1>1. c \in CallRecords /\ c.answer = Nothing  BY DEF Types, Process
<1>2. CASE GoOn(c)
  <2> DEFINE d == [c EXCEPT !.step = c.step + 1]
  <2>1. c.step # 3
    <3>1. c.op \in {"send", "start"} /\ ~LastStep(c)  BY <1>1, <1>2 DEF GoOn, LastStep, CallRecords, Ops
    <3> QED BY <3>1 DEF LastStep
  <2>2. d \in CallRecords /\ d.op = c.op /\ d.answer = Nothing /\ (Matches(c) => Matches(d))
    BY <1>1, <2>1 DEF CallRecords, Matches
  <2>3. calls' = (calls \ {c}) \cup {d} /\ ~Grant(c) /\ ~Refuse(c)
    BY <1>2 DEF GoOn, Grant, Refuse
  <2> QED BY <2>2, <2>3
<1>3. ASSUME NEW answer \in {"ok", "refused"}, Answered(c, answer)
      PROVE  \E d \in CallRecords :
                calls' = (calls \ {c}) \cup {d} /\ d.op = c.op /\ d.answer = answer
  <2> DEFINE d == [c EXCEPT !.step = 1, !.answer = answer]
  <2>1. 1 \in 1..3 /\ answer \in {Nothing, "ok", "refused"}  OBVIOUS
  <2>2. d \in CallRecords /\ d.op = c.op /\ d.answer = answer
    BY <1>1, <2>1 DEF CallRecords
  <2> QED BY <1>3, <2>2 DEF Answered
<1>4. CASE Grant(c)
  BY <1>3, <1>4 DEF GoOn, Grant, Refuse
<1>5. CASE Refuse(c)
  BY <1>3, <1>5 DEF GoOn, Grant, Refuse
<1> QED BY <1>2, <1>4, <1>5 DEF Process

LEMMA ThenStartCall ==
    ASSUME NEW c \in CallRecords
    PROVE  ThenStart(c) \in CallRecords /\ ThenStart(c).answer = Nothing /\ Matches(ThenStart(c))
  BY QueryNames DEF ThenStart, CallRecords, Ops, Data, Matches

\* The answer goes; after an accept in the panel the start follows.
LEMMA SucceedsCalls ==
    ASSUME Types, NEW c \in calls, CallSucceeds(c)
    PROVE  \E cs \in SUBSET CallRecords :
              /\ SameCalls(cs, calls')
              /\ calls \ {c} \subseteq cs
              /\ \A d \in cs : d \in calls \/ (d.answer = Nothing /\ Matches(d))
<1>0. calls \in SUBSET CallRecords  BY DEF Types
<1>1. CASE c.op = "start" /\ c.from = "dialog"
  <2>1. calls' = Closed(calls \ {c})  BY <1>1 DEF CallSucceeds, Close, Closed
  <2>2. SameCalls(calls \ {c}, calls')  BY <1>0, <2>1, ClosedCalls
  <2> QED BY <1>0, <2>2
<1>2. CASE ~(c.op = "start" /\ c.from = "dialog")
  <2> DEFINE cs == (calls \ {c}) \cup
                       (IF c.op = "accept" /\ c.from = "panel" THEN {ThenStart(c)} ELSE {})
  <2>1. calls' = Mounted(cs)  BY <1>2 DEF CallSucceeds
  <2>2. cs \in SUBSET CallRecords  BY <1>0, ThenStartCall
  <2>3. SameCalls(cs, calls')  BY <2>1, <2>2, MountedCalls
  <2>4. \A d \in cs : d \in calls \/ (d.answer = Nothing /\ Matches(d))
    BY <1>0, ThenStartCall
  <2>5. calls \ {c} \subseteq cs  OBVIOUS
  <2> QED BY <2>2, <2>3, <2>4, <2>5
<1> QED BY <1>1, <1>2

\* No step makes a call something it is not.
LEMMA CallsTyped == ASSUME Types, [ClientNext]_clientVars PROVE calls' \subseteq CallRecords
<1>0. calls \in SUBSET CallRecords  BY DEF Types
<1>1. CASE Bystanders
  BY <1>1, BystandersKeepCalls DEF SameCalls
<1>2. CASE Sends
  BY <1>0, <1>2, SendsCall
<1>3. ASSUME NEW c \in calls, Process(c) PROVE calls' \subseteq CallRecords
  BY <1>0, <1>3, ProcessCalls
<1>4. ASSUME NEW c \in calls, CallSucceeds(c) PROVE calls' \subseteq CallRecords
  BY <1>4, SucceedsCalls DEF SameCalls
<1>5. ASSUME NEW c \in calls, CallFails(c) PROVE calls' \subseteq CallRecords
  BY <1>0, <1>5 DEF CallFails
<1>6. CASE UNCHANGED clientVars
  BY <1>0, <1>6 DEF clientVars
<1> QED BY <1>1, <1>2, <1>3, <1>4, <1>5, <1>6 DEF ClientNext, Bystanders, Sends

--------------------------------------------------------------------------------
(* The types *)

Server == incoming \in Nat /\ lastId \in Nat /\ outgoing \in BOOLEAN /\ befriended \in BOOLEAN /\ hasThread \in BOOLEAN

LEMMA ServerTyped == ASSUME Types, [ClientNext]_clientVars PROVE Server'
<1>0. Server  BY DEF Types, Server
<1> USE <1>0 DEF Server
<1>1. CASE TheirRequestCreated
  BY <1>1 DEF TheirRequestCreated
<1>2. CASE \/ TheySend \/ TheyAreNoFriend \/ TheyStart \/ TheyFindNoThread \/ TheyFail
           \/ TheyAccept \/ TheyDecline \/ TheirThreadCreated \/ TheyRemove \/ TheirThreadDropped
  BY <1>2 DEF TheySend, TheyAreNoFriend, TheyStart, TheyFindNoThread, TheyFail, GoesOn,
              TheyAccept, TheyDecline, TheirThreadCreated, TheyRemove, TheirThreadDropped
<1>2a. ASSUME NEW accept \in BOOLEAN, AnswerElsewhere(accept) PROVE Server'
  BY <1>2a DEF AnswerElsewhere
<1>3. CASE UNCHANGED server
  BY <1>3 DEF server
<1>4. ASSUME NEW c \in calls, Process(c) PROVE Server'
  <2>1. CASE GoOn(c) \/ Refuse(c)  BY <1>3, <2>1 DEF GoOn, Refuse
  <2>2. CASE Grant(c)  BY <2>2 DEF Grant
  <2> QED BY <1>4, <2>1, <2>2 DEF Process
<1>5. ASSUME NEW q \in Queries, Refetch(q) \/ ReadFetch(q) \/ ReceiveFetch(q) \/ FetchFails(q)
      PROVE  Server'
  BY <1>3, <1>5 DEF Refetch, ReadFetch, ReceiveFetch, FetchFails
<1>6. CASE LoseEvents \/ \E i \in DOMAIN events : ReceiveEvent(i)
  BY <1>3, <1>6 DEF ReceiveEvent, LoseEvents
<1>7. CASE Type \/ Erase \/ RefetchSearch \/ ReadSearch \/ ReceiveSearch \/ SearchFails
  BY <1>3, <1>7 DEF Type, Erase, RefetchSearch, ReadSearch, ReceiveSearch, SearchFails
<1>8. CASE Sends
  BY <1>3, <1>8 DEF Sends, ClickAdd, ClickAcceptFound, ClickFriend, ClickPanel, unclicked
<1>9. CASE OpenChat \/ OpenDialog \/ CloseDialog \/ \E id \in 1..MaxRequests : OpenInvite(id)
  BY <1>3, <1>9 DEF OpenChat, OpenDialog, CloseDialog, OpenInvite, unclicked
<1>10. ASSUME NEW c \in calls, CallSucceeds(c) \/ CallFails(c) PROVE Server'
  BY <1>3, <1>10 DEF CallSucceeds, CallFails
<1>11. CASE UNCHANGED clientVars
  BY <1>3, <1>11 DEF clientVars
<1> QED BY <1>1, <1>2, <1>4, <1>5, <1>6, <1>7, <1>8, <1>9, <1>10, <1>11, <1>2a DEF ClientNext, Elsewhere, Sends

QueryTypes ==
    /\ uses \subseteq {"dialog", "panel"}
    /\ cache \in [Queries -> Data \cup {Nothing}]
    /\ fetch \in [Queries -> Data \cup {Asked, Nothing}]
    /\ Unwatched

\* Only what is shown is asked for, and answered with data.
LEMMA QueriesTyped == ASSUME Types, Unwatched, [ClientNext]_clientVars PROVE QueryTypes'
<1>0. QueryTypes  BY DEF Types, QueryTypes
<1> USE <1>0 DEF QueryTypes
<1>1. CASE UNCHANGED <<uses, cache, fetch>>
  BY <1>1 DEF Unwatched, Watched
<1>2. ASSUME NEW q \in Queries, Refetch(q) PROVE QueryTypes'
  BY <1>2 DEF Refetch, ui, Unwatched, Watched
<1>3. ASSUME NEW q \in Queries, ReadFetch(q) PROVE QueryTypes'
  <2>1. Relation[q] \in Data  BY RelationType
  <2> QED BY <1>3, <2>1, DataValues DEF ReadFetch, ui, Unwatched, Watched
<1>4. ASSUME NEW q \in Queries, ReceiveFetch(q) PROVE QueryTypes'
  BY <1>4 DEF ReceiveFetch, ui, Unwatched, Watched
<1>5. ASSUME NEW q \in Queries, FetchFails(q) PROVE QueryTypes'
  BY <1>5 DEF FetchFails, ui, Unwatched, Watched
<1>6. ASSUME NEW queries, Invalidate(queries), UNCHANGED <<uses, cache>> PROVE QueryTypes'
  BY <1>6 DEF Invalidate, Unwatched, Watched
<1>7. ASSUME NEW i \in DOMAIN events, ReceiveEvent(i) PROVE QueryTypes'
  BY <1>6, <1>7 DEF ReceiveEvent
<1>8. ASSUME NEW c \in calls, CallSucceeds(c) PROVE QueryTypes'
  BY <1>6, <1>8 DEF CallSucceeds
<1>9. CASE Elsewhere
  BY <1>1, <1>9, ElsewhereClient DEF client, ui
<1>10. CASE LoseEvents
  BY <1>1, <1>10 DEF LoseEvents, ui
<1>11. CASE Type \/ Erase \/ RefetchSearch \/ ReadSearch \/ ReceiveSearch \/ SearchFails
  BY <1>1, <1>11 DEF Type, Erase, RefetchSearch, ReadSearch, ReceiveSearch, SearchFails, ui
<1>12. CASE Sends
  BY <1>1, <1>12 DEF Sends, ClickAdd, ClickAcceptFound, ClickFriend, ClickPanel, unclicked
<1>13. CASE OpenChat \/ OpenDialog \/ CloseDialog \/ \E id \in 1..MaxRequests : OpenInvite(id)
  BY <1>1, <1>13 DEF OpenChat, OpenDialog, CloseDialog, OpenInvite, unclicked
<1>14. ASSUME NEW c \in calls, Process(c) \/ CallFails(c) PROVE QueryTypes'
  BY <1>1, <1>14 DEF Process, CallFails, ui
<1>15. CASE UNCHANGED clientVars
  BY <1>1, <1>15 DEF clientVars, ui
<1> QED BY <1>2, <1>3, <1>4, <1>5, <1>7, <1>8, <1>9, <1>10, <1>11, <1>12, <1>13, <1>14, <1>15
        DEF ClientNext, Sends

LEMMA EventsTyped == ASSUME Types, [ClientNext]_clientVars PROVE events' \in Seq(EventRecords)
<1>0. events \in Seq(EventRecords) /\ lastId \in Nat  BY DEF Types
<1>1. CASE UNCHANGED events
  BY <1>0, <1>1
<1>2. CASE TheirRequestCreated
  <2>1. [type |-> "received", id |-> lastId'] \in EventRecords
    BY <1>0, <1>2 DEF TheirRequestCreated, EventRecords
  <2> QED BY <1>0, <1>2, <2>1 DEF TheirRequestCreated, Told
<1>3. CASE TheyAccept
  <2>1. [type |-> "accepted", id |-> 0] \in EventRecords  BY DEF EventRecords
  <2> QED BY <1>0, <1>3, <2>1 DEF TheyAccept, Told
<1>4. CASE TheyDecline
  <2>1. [type |-> "declined", id |-> 0] \in EventRecords  BY DEF EventRecords
  <2> QED BY <1>0, <1>4, <2>1 DEF TheyDecline, Told
<1>5. CASE Elsewhere
  BY <1>1, <1>2, <1>3, <1>4, <1>5, ElsewhereTells DEF Untold
<1>6. ASSUME NEW q \in Queries, Refetch(q) \/ ReadFetch(q) \/ ReceiveFetch(q) \/ FetchFails(q)
      PROVE  events' \in Seq(EventRecords)
  BY <1>1, <1>6 DEF Refetch, ReadFetch, ReceiveFetch, FetchFails
<1>7. CASE LoseEvents \/ \E i \in DOMAIN events : ReceiveEvent(i)
  <2>1. CASE events' = <<>>  BY <2>1
  <2>2. ASSUME NEW i \in DOMAIN events, events' = RemoveAt(events, i)
        PROVE  events' \in Seq(EventRecords)
    BY <1>0, <2>2, OthersStay
  <2> QED BY <1>7, <2>1, <2>2 DEF ReceiveEvent, LoseEvents
<1>8. CASE Type \/ Erase \/ RefetchSearch \/ ReadSearch \/ ReceiveSearch \/ SearchFails
  BY <1>1, <1>8 DEF Type, Erase, RefetchSearch, ReadSearch, ReceiveSearch, SearchFails
<1>9. CASE Sends
  BY <1>1, <1>9 DEF Sends, ClickAdd, ClickAcceptFound, ClickFriend, ClickPanel, unclicked
<1>10. CASE OpenChat \/ OpenDialog \/ CloseDialog \/ \E id \in 1..MaxRequests : OpenInvite(id)
  BY <1>1, <1>10 DEF OpenChat, OpenDialog, CloseDialog, OpenInvite, unclicked
<1>11. ASSUME NEW c \in calls, Process(c) \/ CallSucceeds(c) \/ CallFails(c)
       PROVE  events' \in Seq(EventRecords)
  BY <1>1, <1>11 DEF Process, CallSucceeds, CallFails
<1>12. CASE UNCHANGED clientVars
  BY <1>1, <1>12 DEF clientVars
<1> QED BY <1>5, <1>6, <1>7, <1>8, <1>9, <1>10, <1>11, <1>12 DEF ClientNext, Sends

SearchTypes == search \in Results \cup {Nothing, Failed} /\ searching \in Searches \cup {Nothing}

LEMMA StartSearchTyped == SearchTypes /\ StartSearch => SearchTypes'
  BY DEF SearchTypes, StartSearch, NewSearch, Searches

LEMMA SearchTyped == ASSUME Types, [ClientNext]_clientVars PROVE SearchTypes'
<1>0. SearchTypes /\ befriended \in BOOLEAN /\ RequestRow \in Rows
  BY DEF Types, SearchTypes, RequestRow, Rows
<1>1. CASE UNCHANGED searchVars
  BY <1>0, <1>1 DEF searchVars, SearchTypes
<1>2. CASE StartSearch
  BY <1>0, <1>2, StartSearchTyped
<1>3. CASE Type \/ Erase \/ RefetchSearch
  BY <1>1, <1>2, <1>3 DEF Type, Erase, RefetchSearch
<1>4. CASE ReadSearch
  BY <1>0, <1>4 DEF ReadSearch, SearchTypes, Searches
<1>5. CASE ReceiveSearch
  <2>1. searching.friends \in BOOLEAN /\ searching.request \in Rows
    BY <1>0, <1>5 DEF ReceiveSearch, SearchTypes, Searches
  <2>2. Result(searching.friends, searching.request) \subseteq Results  BY <2>1, ResultType
  <2> QED BY <1>5, <2>2 DEF ReceiveSearch, SearchTypes
<1>6. CASE SearchFails
  BY <1>6 DEF SearchFails, SearchTypes
<1>7. ASSUME NEW c \in calls, CallSucceeds(c) PROVE SearchTypes'
  BY <1>1, <1>2, <1>7 DEF CallSucceeds, InvalidateSearch
<1>8. CASE Elsewhere
  BY <1>1, <1>8, ElsewhereClient DEF client
<1>9. ASSUME NEW q \in Queries, Refetch(q) \/ ReadFetch(q) \/ ReceiveFetch(q) \/ FetchFails(q)
      PROVE  SearchTypes'
  BY <1>1, <1>9 DEF Refetch, ReadFetch, ReceiveFetch, FetchFails
<1>10. CASE LoseEvents \/ \E i \in DOMAIN events : ReceiveEvent(i)
  BY <1>1, <1>10 DEF ReceiveEvent, LoseEvents
<1>11. CASE Sends
  BY <1>1, <1>11 DEF Sends, ClickAdd, ClickAcceptFound, ClickFriend, ClickPanel, unclicked
<1>12. CASE OpenChat \/ OpenDialog \/ CloseDialog \/ \E id \in 1..MaxRequests : OpenInvite(id)
  BY <1>1, <1>12 DEF OpenChat, OpenDialog, CloseDialog, OpenInvite, unclicked
<1>13. ASSUME NEW c \in calls, Process(c) \/ CallFails(c) PROVE SearchTypes'
  BY <1>1, <1>13 DEF Process, CallFails
<1>14. CASE UNCHANGED clientVars
  BY <1>1, <1>14 DEF clientVars
<1> QED BY <1>3, <1>4, <1>5, <1>6, <1>7, <1>8, <1>9, <1>10, <1>11, <1>12, <1>13, <1>14
        DEF ClientNext, Sends

InviteTypes == invite \in Nat /\ notified \subseteq Nat

LEMMA InviteTyped == ASSUME Types, [ClientNext]_clientVars PROVE InviteTypes'
<1>0. InviteTypes /\ events \in Seq(EventRecords)  BY DEF Types, InviteTypes
<1> USE DEF InviteTypes
<1>1. CASE UNCHANGED <<invite, notified>>
  BY <1>0, <1>1
<1>2. ASSUME NEW id \in 1..MaxRequests, OpenInvite(id) PROVE InviteTypes'
  BY <1>0, <1>2, BoundAssumption DEF OpenInvite, unclicked
<1>3. CASE OpenChat
  BY <1>0, <1>3 DEF OpenChat, unclicked
<1>3a. CASE OpenDialog \/ CloseDialog
  BY <1>1, <1>3a DEF OpenDialog, CloseDialog, unclicked
<1>4. ASSUME NEW c \in calls, CallSucceeds(c) PROVE InviteTypes'
  BY <1>0, <1>4 DEF CallSucceeds
<1>5. ASSUME NEW i \in DOMAIN events, ReceiveEvent(i) PROVE InviteTypes'
  <2>1. events[i] \in EventRecords  BY <1>0
  <2>2. events[i].id \in Nat  BY <2>1 DEF EventRecords
  <2> QED BY <1>0, <1>5, <2>2 DEF ReceiveEvent
<1>6. CASE LoseEvents
  BY <1>1, <1>6 DEF LoseEvents, ui
<1>7. CASE Elsewhere
  BY <1>1, <1>7, ElsewhereClient DEF client, ui
<1>8. ASSUME NEW q \in Queries, Refetch(q) \/ ReadFetch(q) \/ ReceiveFetch(q) \/ FetchFails(q)
      PROVE  InviteTypes'
  BY <1>1, <1>8 DEF Refetch, ReadFetch, ReceiveFetch, FetchFails, ui
<1>9. CASE Type \/ Erase \/ RefetchSearch \/ ReadSearch \/ ReceiveSearch \/ SearchFails
  BY <1>1, <1>9 DEF Type, Erase, RefetchSearch, ReadSearch, ReceiveSearch, SearchFails, ui
<1>10. CASE Sends
  BY <1>1, <1>10 DEF Sends, ClickAdd, ClickAcceptFound, ClickFriend, ClickPanel, unclicked
<1>11. ASSUME NEW c \in calls, Process(c) \/ CallFails(c) PROVE InviteTypes'
  BY <1>1, <1>11 DEF Process, CallFails, ui
<1>12. CASE UNCHANGED clientVars
  BY <1>1, <1>12 DEF clientVars, ui
<1> QED BY <1>2, <1>3, <1>4, <1>5, <1>6, <1>7, <1>8, <1>9, <1>10, <1>11, <1>12, <1>3a
        DEF ClientNext, Sends

LEMMA TypesStep == ASSUME Types, Unwatched, [ClientNext]_clientVars PROVE Types' /\ Unwatched'
  BY ServerTyped, QueriesTyped, EventsTyped, SearchTyped, InviteTyped, CallsTyped
     DEF Types, Server, QueryTypes, SearchTypes, InviteTypes

--------------------------------------------------------------------------------
(* What a refused call was drawn from *)

\* A call that asks what its button showed passes if that is still so, or collides.
LEMMA MatchingPasses ==
    ASSUME Types, NEW c \in CallRecords, Matches(c), StillOffered(c)
    PROVE  Passes(c) \/ Collides(c)
<1>0. "search" \notin Queries /\ {"requests", "friends"} \subseteq Queries /\ c.step \in {1, 2, 3}
  BY QueryNames DEF CallRecords
<1>1. RequestRow \in Rows /\ befriended \in BOOLEAN /\ RequestRow.sent = outgoing
      /\ RequestRow.received = incoming
  BY DEF Types, RequestRow, Rows
<1>2. CASE c.op = "start"
  <2>1. befriended  BY <1>0, <1>2, RelationType DEF Matches, StillOffered
  <2>2. CASE c.step = 3 /\ hasThread  BY <1>2, <2>2 DEF Collides
  <2>3. CASE c.step = 3 /\ ~hasThread  BY <1>2, <2>3 DEF Passes
  <2>4. CASE c.step \in {1, 2}  BY <1>2, <2>1, <2>4 DEF Passes
  <2> QED BY <1>0, <2>2, <2>3, <2>4
<1>3. CASE c.op = "send"
  <2>1. c.offer \in Result(befriended, RequestRow) /\ c.offer.status = "none"
    BY <1>3 DEF Matches, StillOffered
  <2>2. ~befriended /\ ~outgoing /\ incoming = 0  BY <1>1, <2>1, ResultType
  <2> QED BY <1>0, <1>3, <2>2 DEF Passes
<1>4. CASE c.op \in {"accept", "decline"} /\ c.query = "requests" /\ c.offer = c.id
  <2>1. c.id = incoming  BY <1>0, <1>4, RelationType DEF StillOffered
  <2> QED BY <1>4, <2>1 DEF Passes, Collides
<1>5. CASE c.op = "accept" /\ c.query = "search" /\ c.offer.status = "pending_received"
           /\ c.offer.id = c.id
  <2>1. c.offer \in Result(befriended, RequestRow)  BY <1>5 DEF StillOffered
  <2>2. c.id = incoming  BY <1>1, <1>5, <2>1, ResultType
  <2> QED BY <1>5, <2>2 DEF Passes, Collides
<1> QED BY <1>2, <1>3, <1>4, <1>5 DEF Matches, CallRecords, Ops

LEMMA SameOffers ==
    ASSUME NEW cs, SameCalls(cs, calls'), \A c \in cs : c.answer = Nothing => Matches(c)
    PROVE  Offered'
<1>1. ASSUME NEW c, NEW d, Same(c, d), d.answer = Nothing, c.answer = Nothing => Matches(c)
      PROVE  Matches(d)
  <2>1. c.answer = Nothing  BY <1>1 DEF Same
  <2>2. Matches(c)  BY <1>1, <2>1
  <2> QED BY <1>1, <2>2 DEF Same, Matches
<1>2. ASSUME NEW d \in calls', d.answer = Nothing PROVE Matches(d)
  <2>1. PICK c \in cs : Same(c, d)  BY DEF SameCalls
  <2> QED BY <1>1, <1>2, <2>1
<1> QED BY <1>2 DEF Offered

\* misled is written by Process alone.
LEMMA MisledKept ==
    ASSUME [ClientNext]_clientVars, ~\E c \in calls : Process(c)
    PROVE  misled' = misled
<1>1. CASE Elsewhere
  BY <1>1, ElsewhereClient DEF client
<1>2. ASSUME NEW q \in Queries, Refetch(q) \/ ReadFetch(q) \/ ReceiveFetch(q) \/ FetchFails(q)
      PROVE  misled' = misled
  BY <1>2 DEF Refetch, ReadFetch, ReceiveFetch, FetchFails
<1>3. CASE LoseEvents \/ \E i \in DOMAIN events : ReceiveEvent(i)
  BY <1>3 DEF ReceiveEvent, LoseEvents
<1>4. CASE Type \/ Erase \/ RefetchSearch \/ ReadSearch \/ ReceiveSearch \/ SearchFails
  BY <1>4 DEF Type, Erase, RefetchSearch, ReadSearch, ReceiveSearch, SearchFails
<1>5. CASE Sends
  BY <1>5 DEF Sends, ClickAdd, ClickAcceptFound, ClickFriend, ClickPanel, unclicked
<1>6. CASE OpenChat \/ OpenDialog \/ CloseDialog \/ \E id \in 1..MaxRequests : OpenInvite(id)
  BY <1>6 DEF OpenChat, OpenDialog, CloseDialog, OpenInvite, unclicked
<1>7. ASSUME NEW c \in calls, CallSucceeds(c) \/ CallFails(c) PROVE misled' = misled
  BY <1>7 DEF CallSucceeds, CallFails
<1>8. CASE UNCHANGED clientVars
  BY <1>8 DEF clientVars
<1> QED BY <1>1, <1>2, <1>3, <1>4, <1>5, <1>6, <1>7, <1>8 DEF ClientNext, Sends

LEMMA OfferedStep ==
    ASSUME Types, Offered, OnlyStaleOffersRefused, [ClientNext]_clientVars
    PROVE  Offered' /\ OnlyStaleOffersRefused'
<1>0. calls \subseteq CallRecords  BY DEF Types
<1> USE DEF OnlyStaleOffersRefused
<1>1. ASSUME NEW c \in calls, Process(c) PROVE Offered' /\ ~misled'
  <2>1. c.answer = Nothing /\ Matches(c)  BY <1>1 DEF Process, Offered
  <2>2. PICK d \in CallRecords : /\ calls' = (calls \ {c}) \cup {d}
                                 /\ GoOn(c) => Matches(d)
                                 /\ Grant(c) => d.answer = "ok"
                                 /\ Refuse(c) => d.answer = "refused"
    BY <1>1, <2>1, ProcessCalls
  <2>3. d.answer = Nothing => Matches(d)  BY <1>1, <2>2, DataValues DEF Process
  <2>4. Offered'  BY <2>2, <2>3 DEF Offered, Matches
  <2>5. ~Passes(c) => Collides(c) \/ ~StillOffered(c)  BY <1>0, <2>1, MatchingPasses
  <2>6. ~misled'
    BY <1>1, <2>5 DEF Process, GoOn, Grant, Refuse
  <2> QED BY <2>4, <2>6
<1>2. ASSUME ~\E c \in calls : Process(c) PROVE ~misled'
  BY <1>2, MisledKept
<1>3. ASSUME Bystanders PROVE Offered'
  <2>1. SameCalls(calls, calls')  BY <1>3, BystandersKeepCalls
  <2>2. \A c \in calls : c.answer = Nothing => Matches(c)  BY DEF Offered
  <2> QED BY <2>1, <2>2, SameOffers
<1>4. ASSUME Sends PROVE Offered'
  <2>1. PICK call \in CallRecords : Matches(call) /\ calls' = calls \cup {call}
    BY <1>4, SendsCall
  <2>2. \A c \in calls : c.answer = Nothing => Matches(c)  BY DEF Offered
  <2>3. \A c \in calls' : c.answer = Nothing => Matches(c)  BY <2>1, <2>2
  <2> QED BY <2>3 DEF Offered, Matches
<1>5. ASSUME NEW c \in calls, CallSucceeds(c) PROVE Offered'
  <2>1. PICK cs \in SUBSET CallRecords :
             /\ SameCalls(cs, calls')
             /\ \A d \in cs : d \in calls \/ (d.answer = Nothing /\ Matches(d))
    BY <1>5, SucceedsCalls
  <2> QED BY <2>1, SameOffers DEF Offered
<1>6. ASSUME NEW c \in calls, CallFails(c) PROVE Offered'
  BY <1>6 DEF CallFails, Offered, Matches
<1>7. ASSUME UNCHANGED clientVars PROVE Offered' /\ ~misled'
  BY <1>7 DEF clientVars, Offered, Matches
<1> QED BY <1>1, <1>2, <1>3, <1>4, <1>5, <1>6, <1>7 DEF ClientNext, Bystanders, Sends

--------------------------------------------------------------------------------
(* How a query hears of a change *)

LEMMA UnwatchedUpToDate ==
    ASSUME Unwatched, NEW q \in Queries, q \notin Watched PROVE UpToDate(q)
  BY DEF Unwatched, UpToDate

LEMMA UpToDateKept ==
    ASSUME NEW q \in Queries, UpToDate(q), UNCHANGED <<cache, fetch>>, Relation'[q] = Relation[q]
    PROVE  UpToDate(q)'
  BY DEF UpToDate

LEMMA RelationKept == UNCHANGED server => \A q \in Queries : Relation'[q] = Relation[q]
  BY QueryNames DEF server, Relation

\* What a call that stays will invalidate.
LEMMA ComingKept ==
    ASSUME NEW q \in Queries, NEW cs, SameCalls(cs, calls'), UNCHANGED events,
           Coming(q), \A c \in calls : c.answer = "ok" /\ q \in Effect(c.op) => c \in cs
    PROVE  Coming(q)'
<1>1. CASE \E i \in DOMAIN events : q \in InvalidatedBy(events[i])
  BY <1>1 DEF Coming, InvalidatedBy
<1>2. ASSUME NEW c \in calls, c.answer = "ok", q \in Effect(c.op) PROVE Coming(q)'
  <2>1. PICK d \in calls' : Same(c, d)  BY <1>2 DEF SameCalls
  <2>2. d.answer = "ok" /\ q \in Effect(d.op)  BY <1>2, <2>1 DEF Same
  <2> QED BY <2>2 DEF Coming, Effect
<1> QED BY <1>1, <1>2 DEF Coming

\* An event behind those on their way.
LEMMA ComingAppended ==
    ASSUME Types, NEW event \in EventRecords, events' = Append(events, event), UNCHANGED calls,
           NEW q \in Queries, Coming(q) \/ q \in InvalidatedBy(event)
    PROVE  Coming(q)'
<1>0. events \in Seq(EventRecords)  BY DEF Types
<1>1. /\ DOMAIN events \subseteq DOMAIN events' /\ \A i \in DOMAIN events : events'[i] = events[i]
      /\ Len(events) + 1 \in DOMAIN events' /\ events'[Len(events) + 1] = event
  BY <1>0
<1>2. ASSUME NEW i \in DOMAIN events, q \in InvalidatedBy(events[i]) PROVE Coming(q)'
  <2>1. i \in DOMAIN events' /\ q \in InvalidatedBy(events'[i])  BY <1>1, <1>2
  <2> QED BY <2>1 DEF Coming, InvalidatedBy
<1>3. CASE q \in InvalidatedBy(event)
  <2>1. q \in InvalidatedBy(events'[Len(events) + 1])  BY <1>1, <1>3
  <2> QED BY <1>1, <2>1 DEF Coming, InvalidatedBy
<1>4. CASE \E c \in calls : c.answer = "ok" /\ q \in Effect(c.op)
  BY <1>4 DEF Coming, Effect
<1> QED BY <1>2, <1>3, <1>4 DEF Coming

\* A query that is invalidated is asked for again, or excused.
LEMMA Invalidated ==
    ASSUME Types, Unwatched, NEW queries, Invalidate(queries), UNCHANGED <<cache, server>>,
           NEW q \in Queries, UpToDate(q) \/ q \in queries
    PROVE  UpToDate(q)' \/ q \in excused'
<1>1. fetch' = [p \in Queries |-> IF p \in (queries \cap Watched) \ Joined(queries) THEN Asked ELSE fetch[p]]
      /\ excused' = excused \cup {p \in Joined(queries) : fetch[p] # Asked}
  BY DEF Invalidate
<1>2. CASE q \in (queries \cap Watched) \ Joined(queries)
  BY <1>1, <1>2 DEF UpToDate
<1>3. CASE q \in Joined(queries)
  BY <1>1, <1>3 DEF UpToDate
<1>4. CASE q \notin (queries \cap Watched) \/ q \in Joined(queries)
  <2>1. fetch'[q] = fetch[q]  BY <1>1, <1>4
  <2>2. Relation'[q] = Relation[q]  BY RelationKept
  <2>3. UpToDate(q) => UpToDate(q)'  BY <2>1, <2>2 DEF UpToDate
  <2> QED BY <1>3, <1>4, <2>3, UnwatchedUpToDate
<1> QED BY <1>2, <1>4

--------------------------------------------------------------------------------
(* Each action leaves every query followed *)

\* Actions of the other: a change is told by an event, or excused.
LEMMA ToldFollowed ==
    ASSUME Types, Fresh, UNCHANGED client, NEW event \in EventRecords, Told(event),
           \A q \in Queries : Relation'[q] = Relation[q] \/ q \in InvalidatedBy(event)
    PROVE  Fresh'
<1> SUFFICES ASSUME NEW q \in Queries PROVE Followed(q)'  BY DEF Fresh
<1>1. UNCHANGED <<cache, fetch, calls, excused>> /\ events' = Append(events, event)
  BY DEF client, Told
<1>2. CASE q \in InvalidatedBy(event) \/ Coming(q)
  BY <1>1, <1>2, ComingAppended DEF Followed
<1>3. CASE Relation'[q] = Relation[q] /\ UpToDate(q)
  BY <1>1, <1>3, UpToDateKept DEF Followed
<1>4. CASE q \in excused
  BY <1>1, <1>4 DEF Followed
<1> QED BY <1>2, <1>3, <1>4 DEF Fresh, Followed

LEMMA UntoldFollowed ==
    ASSUME Types, Unwatched, Fresh, UNCHANGED client, Untold PROVE Fresh'
<1> SUFFICES ASSUME NEW q \in Queries PROVE Followed(q)'  BY DEF Fresh
<1>1. UNCHANGED <<uses, cache, fetch, calls, events>> /\ excused' = excused \cup Changed
  BY DEF client, ui, Untold
<1>2. CASE Relation'[q] = Relation[q] /\ UpToDate(q)
  BY <1>1, <1>2, UpToDateKept DEF Followed
<1>3. CASE Relation'[q] # Relation[q] /\ q \in Watched
  BY <1>1, <1>3 DEF Followed, Changed
<1>4. CASE q \notin Watched
  BY <1>1, <1>4 DEF Followed, UpToDate, Unwatched
<1>5. CASE Coming(q)
  <2>1. SameCalls(calls, calls')  BY <1>1, SameItself DEF Types
  <2> QED BY <1>1, <1>5, <2>1, ComingKept DEF Followed
<1>6. CASE q \in excused
  BY <1>1, <1>6 DEF Followed
<1> QED BY <1>2, <1>3, <1>4, <1>5, <1>6 DEF Fresh, Followed

\* Nothing that the queries are about.
LEMMA NothingFollowed ==
    ASSUME Fresh, UNCHANGED <<cache, fetch, calls, events, excused>>,
           \A q \in Queries : Relation'[q] = Relation[q]
    PROVE  Fresh'
<1> SUFFICES ASSUME NEW q \in Queries PROVE Followed(q)'  BY DEF Fresh
<1>1. CASE UpToDate(q)  BY <1>1, UpToDateKept DEF Followed
<1>2. CASE Coming(q)  BY <1>2 DEF Followed, Coming, InvalidatedBy, Effect
<1>3. CASE q \in excused  BY <1>3 DEF Followed
<1> QED BY <1>1, <1>2, <1>3 DEF Fresh, Followed

LEMMA OtherFollowed ==
    ASSUME Types, Types', Unwatched, Fresh,
           Elsewhere
    PROVE  Fresh'
<1>0. /\ \A q \in Queries : q \in {"requests", "friends", "threads"}
      /\ Relation["requests"] = incoming /\ Relation["friends"] = befriended
      /\ Relation["threads"] = hasThread
      /\ Relation'["requests"] = incoming' /\ Relation'["friends"] = befriended'
      /\ Relation'["threads"] = hasThread'
  BY QueryNames DEF Relation
<1>1. CASE TheirRequestCreated
  <2> DEFINE event == [type |-> "received", id |-> lastId']
  <2>1. event \in EventRecords  BY DEF EventRecords, Types
  <2>2. Told(event) /\ UNCHANGED <<befriended, hasThread, client>>  BY <1>1 DEF TheirRequestCreated
  <2>3. InvalidatedBy(event) = {"requests"}  BY DEF InvalidatedBy
  <2> HIDE DEF event
  <2>4. \A q \in Queries : Relation'[q] = Relation[q] \/ q \in InvalidatedBy(event)
    BY <1>0, <2>2, <2>3
  <2> QED BY <2>1, <2>2, <2>4, ToldFollowed
<1>2. CASE TheyAccept
  <2> DEFINE event == [type |-> "accepted", id |-> 0]
  <2>1. event \in EventRecords  BY DEF EventRecords
  <2>2. Told(event) /\ UNCHANGED <<incoming, hasThread, client>>  BY <1>2 DEF TheyAccept
  <2>3. InvalidatedBy(event) = {"friends", "threads"}  BY DEF InvalidatedBy
  <2> HIDE DEF event
  <2>4. \A q \in Queries : Relation'[q] = Relation[q] \/ q \in InvalidatedBy(event)
    BY <1>0, <2>2, <2>3
  <2> QED BY <2>1, <2>2, <2>4, ToldFollowed
<1>3. CASE TheyDecline
  <2> DEFINE event == [type |-> "declined", id |-> 0]
  <2>1. event \in EventRecords  BY DEF EventRecords
  <2>2. Told(event) /\ UNCHANGED <<incoming, befriended, hasThread, client>>  BY <1>3 DEF TheyDecline
  <2> HIDE DEF event
  <2>4. \A q \in Queries : Relation'[q] = Relation[q] \/ q \in InvalidatedBy(event)
    BY <1>0, <2>2
  <2> QED BY <2>1, <2>2, <2>4, ToldFollowed
<1>4. CASE Untold
  BY <1>4, UntoldFollowed, ElsewhereClient
<1>5. CASE UNCHANGED <<incoming, befriended, hasThread, events, excused>>
  <2>1. \A q \in Queries : Relation'[q] = Relation[q]  BY <1>0, <1>5
  <2>2. UNCHANGED <<cache, fetch, calls, events, excused>>
    BY <1>5, ElsewhereClient DEF client
  <2> QED BY <2>1, <2>2, NothingFollowed
<1> QED BY <1>1, <1>2, <1>3, <1>4, <1>5, ElsewhereTells

LEMMA FetchFollowed ==
    ASSUME Types, Fresh, NEW p \in Queries,
           Refetch(p) \/ ReadFetch(p) \/ ReceiveFetch(p) \/ FetchFails(p)
    PROVE  Fresh'
<1> SUFFICES ASSUME NEW q \in Queries PROVE Followed(q)'  BY DEF Fresh
<1>0. fetch \in [Queries -> Data \cup {Asked, Nothing}] /\ cache \in [Queries -> Data \cup {Nothing}]
      /\ calls \in SUBSET CallRecords
  BY DEF Types
<1>1. UNCHANGED <<events, server>> /\ SameCalls(calls, calls')
  BY BystandersKeepCalls DEF Bystanders, Refetch, ReadFetch, ReceiveFetch, FetchFails
<1>2. Relation'[q] = Relation[q] /\ Relation[q] \in Data  BY <1>1, RelationKept, RelationType
<1>3. CASE Coming(q)
  BY <1>1, <1>3, ComingKept DEF Followed
<1>4. CASE q \in excused /\ ~(ReadFetch(p) /\ p = q)
  BY <1>4 DEF Refetch, ReadFetch, ReceiveFetch, FetchFails, Followed
<1>5. CASE UpToDate(q) /\ p # q
  <2>1. fetch'[q] = fetch[q] /\ cache'[q] = cache[q]
    BY <1>0, <1>5 DEF Refetch, ReadFetch, ReceiveFetch, FetchFails
  <2> QED BY <1>2, <1>5, <2>1 DEF UpToDate, Followed
<1>6. CASE p = q /\ Refetch(p)
  BY <1>0, <1>6 DEF Refetch, UpToDate, Followed
<1>7. CASE p = q /\ ReadFetch(p)
  BY <1>0, <1>2, <1>7 DEF ReadFetch, UpToDate, Followed
<1>8. CASE p = q /\ ReceiveFetch(p) /\ UpToDate(q)
  <2>1. fetch[q] = Relation[q]  BY <1>8 DEF ReceiveFetch, UpToDate
  <2>2. fetch'[q] = Nothing /\ cache'[q] = Relation[q]  BY <1>0, <1>8, <2>1 DEF ReceiveFetch
  <2> QED BY <1>2, <2>2 DEF UpToDate, Followed
<1>9. CASE p = q /\ FetchFails(p)
  BY <1>9 DEF FetchFails, Followed
<1> QED BY <1>3, <1>4, <1>5, <1>6, <1>7, <1>8, <1>9 DEF Fresh, Followed

LEMMA EventFollowed ==
    ASSUME Types, Unwatched, Fresh, LoseEvents \/ \E i \in DOMAIN events : ReceiveEvent(i)
    PROVE  Fresh'
<1> SUFFICES ASSUME NEW q \in Queries PROVE Followed(q)'  BY DEF Fresh
<1>0. events \in Seq(EventRecords) /\ calls \in SUBSET CallRecords  BY DEF Types
<1>1. UNCHANGED <<cache, calls, server>>  BY DEF ReceiveEvent, LoseEvents
<1>2. CASE \E c \in calls : c.answer = "ok" /\ q \in Effect(c.op)
  BY <1>1, <1>2 DEF Followed, Coming, Effect
<1>3. ASSUME NEW i \in DOMAIN events, ReceiveEvent(i),
             NEW j \in DOMAIN events, q \in InvalidatedBy(events[j])
      PROVE  Followed(q)'
  <2>1. CASE j = i
    <3>1. q \in InvalidatedBy(events[i]) /\ Invalidate(InvalidatedBy(events[i]))
      BY <1>3, <2>1 DEF ReceiveEvent
    <3> QED BY <1>1, <3>1, Invalidated DEF Followed
  <2>2. CASE j # i
    <3>1. events' = RemoveAt(events, i)  BY <1>3 DEF ReceiveEvent
    <3>2. PICK k \in DOMAIN events' : events'[k] = events[j]  BY <1>0, <2>2, <3>1, OthersStay
    <3>3. q \in InvalidatedBy(events'[k])  BY <1>3, <3>2
    <3> QED BY <3>3 DEF Followed, Coming, InvalidatedBy
  <2> QED BY <2>1, <2>2
<1>4. ASSUME NEW i \in DOMAIN events, ReceiveEvent(i), UpToDate(q) PROVE Followed(q)'
  <2>1. Invalidate(InvalidatedBy(events[i]))  BY <1>4 DEF ReceiveEvent
  <2> QED BY <1>1, <1>4, <2>1, Invalidated DEF Followed
<1>5. CASE LoseEvents /\ \E i \in DOMAIN events : q \in InvalidatedBy(events[i])
  <2>1. q \in Watched => q \in excused'  BY <1>5 DEF LoseEvents
  <2>2. UNCHANGED <<fetch, cache>>  BY <1>5 DEF LoseEvents
  <2>3. Relation'[q] = Relation[q]  BY <1>1, RelationKept
  <2>4. q \notin Watched => UpToDate(q)'  BY <2>2, <2>3, UnwatchedUpToDate, UpToDateKept
  <2> QED BY <2>1, <2>4 DEF Followed
<1>6. CASE LoseEvents /\ UpToDate(q)
  <2>1. UNCHANGED <<fetch, cache>>  BY <1>6 DEF LoseEvents
  <2>2. Relation'[q] = Relation[q]  BY <1>1, RelationKept
  <2> QED BY <1>6, <2>1, <2>2, UpToDateKept DEF Followed
<1>7. CASE q \in excused
  BY <1>7 DEF ReceiveEvent, LoseEvents, Invalidate, Followed
<1> QED BY <1>2, <1>3, <1>4, <1>5, <1>6, <1>7 DEF Fresh, Followed, Coming

\* Actions that leave server and queries alone, and every granted call.
LEMMA ElsewhereFollowed ==
    ASSUME Types, Fresh, UNCHANGED <<server, cache, fetch, excused, events>>,
           \A c \in calls : \E d \in calls' : Same(c, d)
    PROVE  Fresh'
<1> SUFFICES ASSUME NEW q \in Queries PROVE Followed(q)'  BY DEF Fresh
<1>1. CASE UpToDate(q)
  <2>1. Relation'[q] = Relation[q]  BY RelationKept
  <2> QED BY <1>1, <2>1, UpToDateKept DEF Followed
<1>2. CASE \E i \in DOMAIN events : q \in InvalidatedBy(events[i])
  BY <1>2 DEF Followed, Coming, InvalidatedBy
<1>3. ASSUME NEW c \in calls, c.answer = "ok", q \in Effect(c.op) PROVE Followed(q)'
  <2>1. PICK d \in calls' : Same(c, d)  OBVIOUS
  <2>2. d.answer = "ok" /\ q \in Effect(d.op)  BY <1>3, <2>1 DEF Same
  <2> QED BY <2>2 DEF Followed, Coming, Effect
<1>4. CASE q \in excused
  BY <1>4 DEF Followed
<1> QED BY <1>1, <1>2, <1>3, <1>4 DEF Fresh, Followed, Coming

\* What a granted request changes, its answer will invalidate.
LEMMA ProcessFollowed ==
    ASSUME Types, Types', Fresh, NEW c \in calls, Process(c) PROVE Fresh'
<1> SUFFICES ASSUME NEW q \in Queries PROVE Followed(q)'  BY DEF Fresh
<1>0. UNCHANGED <<events, cache, fetch, excused>> /\ c.answer = Nothing /\ c.op \in Ops
  BY DEF Process, Types, CallRecords
<1>1. PICK d \in CallRecords : /\ calls' = (calls \ {c}) \cup {d} /\ d.op = c.op
                               /\ Grant(c) => d.answer = "ok"
  BY ProcessCalls
<1>2. CASE Coming(q)
  <2>1. CASE \E i \in DOMAIN events : q \in InvalidatedBy(events[i])
    BY <1>0, <2>1 DEF Followed, Coming, InvalidatedBy
  <2>2. ASSUME NEW e \in calls, e.answer = "ok", q \in Effect(e.op) PROVE Followed(q)'
    <3>1. e \in calls'  BY <1>0, <1>1, <2>2, DataValues
    <3> QED BY <2>2, <3>1 DEF Followed, Coming, Effect
  <2> QED BY <1>2, <2>1, <2>2 DEF Coming
<1>3. CASE q \in excused
  BY <1>0, <1>3 DEF Followed
<1>4. CASE UpToDate(q) /\ Relation'[q] = Relation[q]
  BY <1>0, <1>4, UpToDateKept DEF Followed
<1>5. CASE Relation'[q] # Relation[q]
  <2>1. Grant(c)  BY <1>5, RelationKept DEF Process, GoOn, Refuse
  <2>2. /\ Relation["requests"] = incoming /\ Relation["friends"] = befriended
        /\ Relation["threads"] = hasThread
        /\ Relation'["requests"] = incoming' /\ Relation'["friends"] = befriended'
        /\ Relation'["threads"] = hasThread'
        /\ befriended \in BOOLEAN /\ befriended' \in BOOLEAN /\ hasThread \in BOOLEAN /\ hasThread' \in BOOLEAN
        /\ q \in {"requests", "friends", "threads"}
    BY QueryNames DEF Relation, Types
  <2>3. CASE q = "requests"
    <3>1. c.op \in {"accept", "decline"}  BY <1>5, <2>1, <2>2, <2>3 DEF Grant
    <3> QED BY <2>3, <3>1, <1>1, <2>1, Effects DEF Followed, Coming
  <2>4. CASE q = "friends"
    <3>1. c.op = "accept"  BY <1>5, <2>1, <2>2, <2>4 DEF Grant
    <3> QED BY <2>4, <3>1, <1>1, <2>1, Effects DEF Followed, Coming
  <2>5. CASE q = "threads"
    <3>1. c.op = "start"  BY <1>5, <2>1, <2>2, <2>5 DEF Grant
    <3> QED BY <2>5, <3>1, <1>1, <2>1, Effects DEF Followed, Coming
  <2> QED BY <2>2, <2>3, <2>4, <2>5
<1> QED BY <1>2, <1>3, <1>4, <1>5 DEF Fresh, Followed

LEMMA SuccessFollowed ==
    ASSUME Types, Unwatched, Fresh, NEW c \in calls, CallSucceeds(c) PROVE Fresh'
<1> SUFFICES ASSUME NEW q \in Queries PROVE Followed(q)'  BY DEF Fresh
<1>0. /\ UNCHANGED <<events, cache, server>> /\ Invalidate(InvalidatedOnSuccess(c.op))
      /\ c.op \in Ops /\ excused \subseteq excused'
  BY DEF CallSucceeds, Invalidate, Types, CallRecords
<1>1. CASE UpToDate(q) \/ q \in Effect(c.op)
  <2>1. UpToDate(q) \/ q \in InvalidatedOnSuccess(c.op)  BY <1>0, <1>1, EffectsInvalidated
  <2> QED BY <1>0, <2>1, Invalidated DEF Followed
<1>2. CASE Coming(q) /\ q \notin Effect(c.op)
  <2>1. PICK cs \in SUBSET CallRecords : SameCalls(cs, calls') /\ calls \ {c} \subseteq cs
    BY SucceedsCalls
  <2>2. \A e \in calls : e.answer = "ok" /\ q \in Effect(e.op) => e \in cs
    BY <1>2, <2>1
  <2> QED BY <1>0, <1>2, <2>1, <2>2, ComingKept DEF Followed
<1>3. CASE q \in excused
  BY <1>0, <1>3 DEF Followed
<1> QED BY <1>1, <1>2, <1>3 DEF Fresh, Followed

LEMMA FailureFollowed ==
    ASSUME Types, Unwatched, Fresh, NEW c \in calls, CallFails(c) PROVE Fresh'
<1> SUFFICES ASSUME NEW q \in Queries PROVE Followed(q)'  BY DEF Fresh
<1>0. /\ UNCHANGED <<events, cache, fetch, server>> /\ excused \subseteq excused'
      /\ calls' = calls \ {c} /\ calls \ {c} \in SUBSET CallRecords
  BY DEF CallFails, Types
<1>1. UpToDate(q) => UpToDate(q)'  BY <1>0, RelationKept, UpToDateKept
<1>2. CASE UpToDate(q) \/ q \in excused
  BY <1>0, <1>1, <1>2 DEF Followed
<1>3. CASE c.answer = "ok" /\ q \in Effect(c.op)
  <2>1. q \in Watched => q \in excused'  BY <1>3 DEF CallFails
  <2> QED BY <1>1, <2>1, UnwatchedUpToDate DEF Followed
<1>4. CASE Coming(q) /\ ~(c.answer = "ok" /\ q \in Effect(c.op))
  <2>1. SameCalls(calls \ {c}, calls')  BY <1>0, SameItself
  <2>2. \A e \in calls : e.answer = "ok" /\ q \in Effect(e.op) => e \in calls \ {c}
    BY <1>4
  <2> QED BY <1>0, <1>4, <2>1, <2>2, ComingKept DEF Followed
<1> QED BY <1>2, <1>3, <1>4 DEF Fresh, Followed

LEMMA FreshStep == ASSUME Types, Types', Unwatched, Fresh, [ClientNext]_clientVars PROVE Fresh'
<1>0. calls \in SUBSET CallRecords  BY DEF Types
<1>1. CASE Elsewhere
  BY <1>1, OtherFollowed
<1>2. ASSUME NEW q \in Queries, Refetch(q) \/ ReadFetch(q) \/ ReceiveFetch(q) \/ FetchFails(q)
      PROVE  Fresh'
  BY <1>2, FetchFollowed
<1>3. CASE LoseEvents \/ \E i \in DOMAIN events : ReceiveEvent(i)
  BY <1>3, EventFollowed
<1>4. CASE Type \/ Erase \/ RefetchSearch \/ ReadSearch \/ ReceiveSearch \/ SearchFails
  <2>1. UNCHANGED <<server, cache, fetch, excused, events, calls>>
    BY <1>4 DEF Type, Erase, RefetchSearch, ReadSearch, ReceiveSearch, SearchFails
  <2> QED BY <2>1, ElsewhereFollowed DEF Same
<1>5. CASE Sends
  <2>1. UNCHANGED <<server, cache, fetch, excused, events>>
    BY <1>5 DEF Sends, ClickAdd, ClickAcceptFound, ClickFriend, ClickPanel, unclicked
  <2>2. calls \subseteq calls'  BY <1>5, SendsCall
  <2> QED BY <2>1, <2>2, ElsewhereFollowed DEF Same
<1>6. CASE OpenChat \/ OpenDialog \/ CloseDialog \/ \E id \in 1..MaxRequests : OpenInvite(id)
  <2>1. UNCHANGED <<server, cache, fetch, excused, events>>
    BY <1>6 DEF OpenChat, OpenDialog, CloseDialog, OpenInvite, unclicked
  <2>2. SameCalls(calls, calls')  BY <1>6, BystandersKeepCalls DEF Bystanders
  <2> QED BY <2>1, <2>2, ElsewhereFollowed DEF SameCalls
<1>7. ASSUME NEW c \in calls, Process(c) \/ CallSucceeds(c) \/ CallFails(c) PROVE Fresh'
  BY <1>7, ProcessFollowed, SuccessFollowed, FailureFollowed
<1>8. CASE UNCHANGED clientVars
  <2>1. UNCHANGED <<server, cache, fetch, excused, events, calls>>  BY <1>8 DEF clientVars
  <2> QED BY <2>1, ElsewhereFollowed DEF Same
<1> QED BY <1>1, <1>2, <1>3, <1>4, <1>5, <1>6, <1>7, <1>8 DEF ClientNext, Sends

--------------------------------------------------------------------------------

LEMMA InductiveInv == ClientSpec => []ClientInv
<1>1. ClientInv /\ [ClientNext]_clientVars => ClientInv'
  BY TypesStep, FreshStep, OfferedStep DEF ClientInv
<1> QED BY InitInv, <1>1, PTL DEF ClientSpec

\* Any requests, calls, events and fetches may be on their way, in any panes:
\* once calls and events are in, a query that is not being fetched shows what
\* the server has, but for changes that nothing told of or whose event, answer
\* or fetch was lost or came into the query's first fetch.
THEOREM OnlyUntoldChangesStaleAlways == ClientSpec => []OnlyUntoldChangesStale
<1>1. ClientInv => OnlyUntoldChangesStale
  <2> SUFFICES ASSUME ClientInv, NEW q \in Queries,
                      calls = {}, events = <<>>, fetch[q] = Nothing, cache[q] # Nothing
               PROVE  cache[q] = Relation[q] \/ q \in excused
    BY DEF OnlyUntoldChangesStale
  <2>1. ~Coming(q)  BY DEF Coming
  <2>2. Relation[q] # Nothing /\ Nothing # Asked
    BY RelationType, DataValues DEF ClientInv
  <2> QED BY <2>1, <2>2 DEF ClientInv, Fresh, Followed, UpToDate
<1> QED BY InductiveInv, <1>1, PTL

\* A button asks only what the server will grant while what the button was
\* drawn from is still what the server has, also when the call is sent on by
\* an accept in a panel that is gone, and whatever else is on its way.
THEOREM OnlyStaleOffersRefusedAlways == ClientSpec => []OnlyStaleOffersRefused
<1>1. ClientInv => OnlyStaleOffersRefused
  BY DEF ClientInv
<1> QED BY InductiveInv, <1>1, PTL

================================================================================
