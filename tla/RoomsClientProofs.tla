----------------------------- MODULE RoomsClientProofs -----------------------------
(***************************************************************************)
(* What the dialogs and caches of a room keep in one client, for any       *)
(* number of calls, events and fetches on their way, and any pane.         *)
(*                                                                         *)
(* A query that is not what the server has is about to hear of it: it is   *)
(* asked for, or a member event or the answer to a call that will          *)
(* invalidate it is on its way, or it is excused.  And a call that the     *)
(* server has not yet answered is about what the button of its offer named.*)
(***************************************************************************)
EXTENDS RoomsClient, TLAPS

RoomData == [list |-> Roles, public |-> BOOLEAN, detail |-> Details, bans |-> Nat]

RoomOps == {"create", "join", "update", "delete", "role", "kick", "ban", "unban", "invite"}

RoomOffers == BOOLEAN \cup Details \cup (Details \X Nat) \cup {None}

RoomCalls ==
    {c \in [op : RoomOps, arg : BOOLEAN \cup {"MEMBER", "ADMIN", None}, offer : RoomOffers,
            pending : BOOLEAN, answer : {None, "ok", "refused"}, effect : SUBSET Queries] :
        /\ c.op \in {"create", "update"} => c.arg \in BOOLEAN
        /\ c.op = "role" => c.arg \in {"MEMBER", "ADMIN"}
        /\ c.op = "create" => uses = "discover"}

\* Only a room that is there has members.
RoomServer ==
    /\ uses \in {"discover", "info", "members", "bans"}
    /\ room \in {"new", "yes", "gone"} /\ private \in BOOLEAN
    /\ mine \in Roles /\ theirs \in Roles /\ bans \in Nat
    /\ mine # "NONE" \/ theirs # "NONE" => room = "yes"

RoomQueries ==
    /\ cache = [q \in Queries |-> cache[q]]
    /\ fetch = [q \in Queries |-> fetch[q]]
    /\ \A q \in Queries : cache[q] \in RoomData[q] \cup {None}
                          /\ fetch[q] \in RoomData[q] \cup {Asked, None}

RoomTypes ==
    /\ RoomServer /\ RoomQueries
    /\ events \in Nat
    /\ calls \subseteq RoomCalls

\* A member event, or a request that was granted, will invalidate the query.
RoomComing(q) ==
    \/ events > 0 /\ q \in InvalidatedByEvent
    \/ \E c \in calls : /\ c.answer = "ok" /\ q \in c.effect
                        /\ q \in InvalidatedOnSuccess(c.op)

\* Nothing shows the query: before anything does, it is asked for.
RoomIdle(q) == ~Active(q) \/ (q = "detail" /\ failed)

RoomUpToDate(q) ==
    \/ fetch[q] = Asked
    \/ fetch[q] = Relation[q]
    \/ fetch[q] = None /\ (cache[q] \in {None, Relation[q]} \/ RoomIdle(q))

RoomFollowed(q) == RoomUpToDate(q) \/ RoomComing(q) \/ q \in excused

RoomFresh == \A q \in PaneQueries[uses] : RoomFollowed(q)

\* What the button of an offer asks.
RoomMatches(c) ==
    /\ c.op \in {"create", "invite"} => c.offer = None
    /\ c.op = "join" => c.offer = TRUE
    /\ c.op \in {"update", "delete", "role"} => c.offer \in Details /\ c.offer.mine = "OWNER"
    /\ c.op \in {"role", "kick", "ban"} => c.offer \in Details /\ c.offer.theirs # "NONE"
    /\ c.op \in {"kick", "ban"} =>
           /\ c.offer.mine \in {"ADMIN", "OWNER"}
           /\ ROLE_RANK[c.offer.mine] > ROLE_RANK[c.offer.theirs]
    /\ c.op = "unban" =>
           /\ c.offer \in Details \X Nat
           /\ c.offer[1].mine \in {"ADMIN", "OWNER"} /\ c.offer[2] # 0

RoomOffered == \A c \in calls : c.answer = None => RoomMatches(c)

RoomInv == RoomTypes /\ RoomFresh /\ RoomOffered /\ OnlyStaleOffersRefused

--------------------------------------------------------------------------------
(* Facts about values *)

LEMMA RoomNames ==
    /\ Queries = {"list", "public", "detail", "bans"}
    /\ RoomData["list"] = Roles /\ RoomData["public"] = BOOLEAN
    /\ RoomData["detail"] = Details /\ RoomData["bans"] = Nat
  BY DEF Queries, RoomData

LEMMA RoomPanes ==
    RoomServer => PaneQueries[uses] \subseteq Queries
  BY DEF RoomServer, PaneQueries, Queries

LEMMA RoomRanks ==
    /\ Roles = {"NONE", "MEMBER", "ADMIN", "OWNER"}
    /\ ROLE_RANK["NONE"] = -1 /\ ROLE_RANK["MEMBER"] = 0
    /\ ROLE_RANK["ADMIN"] = 1 /\ ROLE_RANK["OWNER"] = 2
  BY DEF ROLE_RANK, Roles

LEMMA RoomValues ==
    /\ Asked # None /\ Refused # None /\ Asked # Refused
    /\ None \notin {"ok", "refused"}
    /\ \A v \in {Asked, Refused, None} : /\ v \notin BOOLEAN /\ v \notin Nat
                                         /\ v \notin Roles /\ v \notin Details
  BY ValueAssumption

LEMMA RoomDetailType ==
    ASSUME RoomServer
    PROVE  \/ Detail = Refused
           \/ /\ Detail \in Details
              /\ Detail.mine = mine /\ Detail.theirs = theirs
  BY DEF Detail, RoomServer, Details

LEMMA RoomRelations ==
    /\ Relation["list"] = mine /\ Relation["public"] = Public
    /\ Relation["detail"] = Detail /\ Relation["bans"] = ActiveBans
  BY DEF Relation

\* What the server answers is data of the query, or a refusal.
LEMMA RoomRelationType ==
    ASSUME RoomServer, NEW q \in Queries
    PROVE  Relation[q] \in RoomData[q] \cup {Refused}
<1>1. Public \in BOOLEAN  BY DEF Public
<1>2. ActiveBans \in Nat \cup {Refused}  BY DEF ActiveBans, RoomServer
<1>3. mine \in Roles  BY DEF RoomServer
<1> QED BY <1>1, <1>2, <1>3, RoomDetailType, RoomNames, RoomRelations

LEMMA RoomRelationIs ==
    ASSUME RoomTypes, NEW q \in Queries
    PROVE  Relation[q] # None /\ Relation[q] # Asked
<1>1. Relation[q] \in RoomData[q] \cup {Refused}  BY RoomRelationType DEF RoomTypes
<1>2. None \notin RoomData[q] /\ Asked \notin RoomData[q]
  BY RoomValues, RoomNames DEF RoomTypes
<1> QED BY <1>1, <1>2, RoomValues DEF RoomTypes

LEMMA RoomRelationKept ==
    ASSUME UNCHANGED <<room, private, mine, theirs, bans>>
    PROVE  Relation' = Relation
  BY DEF Relation, Public, Detail, ActiveBans

--------------------------------------------------------------------------------

LEMMA RoomInitInv == ASSUME Init PROVE RoomInv
<1>1. RoomServer
  BY RoomRanks, BoundAssumption DEF Init, TheirRoles, RoomServer
<1>2. RoomQueries
  <2>1. \A q \in Queries : cache[q] = None /\ fetch[q] \in {Asked, None}
    BY DEF Init
  <2>2. cache = [q \in Queries |-> cache[q]] /\ fetch = [q \in Queries |-> fetch[q]]
    BY DEF Init
  <2> QED BY <2>1, <2>2 DEF RoomQueries
<1>3. RoomTypes
  BY <1>1, <1>2 DEF Init, RoomTypes
<1>4. RoomFresh
  <2> SUFFICES ASSUME NEW q \in PaneQueries[uses] PROVE RoomFollowed(q)  BY DEF RoomFresh
  <2>1. q \in Queries  BY <1>1, RoomPanes
  <2>2. cache[q] = None /\ fetch[q] \in {Asked, None}  BY <2>1 DEF Init
  <2> QED BY <2>2 DEF RoomFollowed, RoomUpToDate
<1>5. RoomOffered /\ OnlyStaleOffersRefused
  BY DEF Init, RoomOffered, OnlyStaleOffersRefused
<1> QED BY <1>3, <1>4, <1>5 DEF RoomInv

--------------------------------------------------------------------------------
(* Calls keep what they are about when their dialog goes *)

RoomSame(c, d) ==
    /\ c.op = d.op /\ c.arg = d.arg /\ c.offer = d.offer
    /\ c.answer = d.answer /\ c.effect = d.effect

\* The calls of ds are those of cs, but for who waits for them.
RoomSameCalls(cs, ds) ==
    /\ ds \subseteq RoomCalls
    /\ \A d \in ds : \E c \in cs : RoomSame(c, d)
    /\ \A c \in cs : \E d \in ds : RoomSame(c, d)

LEMMA RoomPendingOnly ==
    ASSUME NEW c \in RoomCalls, NEW b \in BOOLEAN
    PROVE  [c EXCEPT !.pending = b] \in RoomCalls /\ RoomSame(c, [c EXCEPT !.pending = b])
  BY DEF RoomCalls, RoomSame

LEMMA RoomSameItself ==
    ASSUME NEW cs \in SUBSET RoomCalls PROVE RoomSameCalls(cs, cs)
  BY DEF RoomSameCalls, RoomSame

LEMMA RoomMountedCalls ==
    ASSUME NEW cs \in SUBSET RoomCalls PROVE RoomSameCalls(cs, Mounted(cs))
<1>1. CASE HeaderShown'
  BY <1>1, RoomSameItself DEF Mounted
<1>2. CASE ~HeaderShown'
  <2> DEFINE after(c) == [c EXCEPT !.pending = c.pending /\ c.op \in {"create", "join"}]
  <2>1. \A c \in cs : after(c) \in RoomCalls /\ RoomSame(c, after(c))
    BY RoomPendingOnly
  <2>2. Mounted(cs) = {after(c) : c \in cs}
    BY <1>2 DEF Mounted
  <2> HIDE DEF after
  <2> QED BY <2>1, <2>2 DEF RoomSameCalls
<1> QED BY <1>1, <1>2

LEMMA RoomClosedCalls ==
    ASSUME RoomTypes, NEW op, CloseDialog(op) PROVE RoomSameCalls(calls, calls')
<1> DEFINE after(c) == [c EXCEPT !.pending = c.pending /\ c.op # op]
<1>1. \A c \in calls : after(c) \in RoomCalls /\ RoomSame(c, after(c))
  BY RoomPendingOnly DEF RoomTypes
<1>2. calls' = {after(c) : c \in calls}
  BY DEF CloseDialog
<1> HIDE DEF after
<1> QED BY <1>1, <1>2 DEF RoomSameCalls

\* What others do, the client and its socket, without a click or an answer.
RoomOthers ==
    \/ MemberJoins \/ MemberGoes \/ MemberBanned
    \/ Unbanned \/ RoleSet \/ RoomUpdated \/ RoomDeleted

RoomFetches ==
    \E q \in Queries : Refetch(q) \/ ReadFetch(q) \/ ReceiveFetch(q) \/ FetchFails(q)

RoomVisits == CollectRoom \/ OpenRoom \/ CloseRoom

RoomSocket == ReceiveEvent \/ Disconnect \/ Reconnect

RoomCloses == \E op \in {"create", "invite"} : CloseDialog(op)

RoomSends ==
    \/ ClickCreate \/ ClickJoin \/ ClickSave \/ ClickDelete \/ ClickRole
    \/ ClickKick \/ ClickBan \/ ClickUnban \/ ClickInvite

LEMMA RoomSteps ==
    ASSUME [Next]_vars
    PROVE  \/ RoomOthers \/ RoomFetches \/ RoomVisits \/ RoomSocket \/ RoomCloses \/ RoomSends
           \/ \E c \in calls : Process(c) \/ CallSucceeds(c) \/ CallFails(c)
           \/ UNCHANGED vars
  BY DEF Next, RoomOthers, RoomFetches, RoomVisits, RoomSocket, RoomCloses, RoomSends

\* A new call is unanswered.
LEMMA RoomNewCall ==
    ASSUME NEW op \in RoomOps, NEW arg \in BOOLEAN \cup {"MEMBER", "ADMIN", None}, NEW offer \in RoomOffers,
           op \in {"create", "update"} => arg \in BOOLEAN,
           op = "role" => arg \in {"MEMBER", "ADMIN"},
           op = "create" => uses = "discover"
    PROVE  /\ Call(op, arg, offer) \in RoomCalls
           /\ Call(op, arg, offer).op = op /\ Call(op, arg, offer).answer = None
           /\ Call(op, arg, offer).offer = offer
  BY DEF Call, RoomCalls, Awaited, Queries

\* What the header and the settings are drawn from.
LEMMA RoomHeader ==
    ASSUME RoomTypes, HeaderShown
    PROVE  /\ cache["detail"] \in Details
           /\ MyRole # "MEMBER" => cache["detail"].mine = MyRole
  BY RoomNames DEF RoomTypes, RoomQueries, HeaderShown, MyRole, Details

LEMMA RoomSendsCall ==
    ASSUME RoomTypes, RoomSends
    PROVE  \E call \in RoomCalls :
              call.answer = None /\ RoomMatches(call) /\ calls' = calls \cup {call}
<1> DEFINE Sent(call) == calls' = calls \cup {call}
           Goal == \E call \in RoomCalls : call.answer = None /\ RoomMatches(call) /\ Sent(call)
<1>0. {TRUE, None} \subseteq RoomOffers /\ Details \subseteq RoomOffers
  BY DEF RoomOffers
<1>1. CASE ClickCreate
  <2>1. PICK isPrivate \in BOOLEAN : Sent(Call("create", isPrivate, None)) /\ uses = "discover"
    BY <1>1 DEF ClickCreate, Send
  <2> DEFINE call == Call("create", isPrivate, None)
  <2>2. call \in RoomCalls /\ call.op = "create" /\ call.answer = None /\ call.offer = None
    BY <1>0, <2>1, RoomNewCall DEF RoomOps
  <2> QED BY <2>1, <2>2 DEF RoomMatches
<1>2. CASE ClickInvite
  <2> DEFINE call == Call("invite", None, None)
  <2>1. call \in RoomCalls /\ call.op = "invite" /\ call.answer = None /\ call.offer = None
    BY <1>0, RoomNewCall DEF RoomOps
  <2>2. Sent(call)  BY <1>2 DEF ClickInvite, Send
  <2> QED BY <2>1, <2>2 DEF RoomMatches
<1>3. CASE ClickJoin
  <2> DEFINE call == Call("join", None, cache["public"])
  <2>1. cache["public"] = TRUE /\ cache["public"] \in RoomOffers
    BY <1>3 DEF ClickJoin, RoomOffers
  <2>2. call \in RoomCalls /\ call.op = "join" /\ call.answer = None /\ call.offer = cache["public"]
    BY <2>1, RoomNewCall DEF RoomOps
  <2>3. Sent(call)  BY <1>3 DEF ClickJoin, Send
  <2> QED BY <2>1, <2>2, <2>3 DEF RoomMatches
<1>4. CASE ClickSave
  <2>1. PICK isPrivate \in BOOLEAN : Sent(Call("update", isPrivate, cache["detail"]))
    BY <1>4 DEF ClickSave, Send
  <2> DEFINE call == Call("update", isPrivate, cache["detail"])
  <2>2. cache["detail"] \in Details /\ cache["detail"].mine = "OWNER"
    BY <1>4, RoomHeader DEF ClickSave
  <2>3. call \in RoomCalls /\ call.op = "update" /\ call.answer = None /\ call.offer = cache["detail"]
    BY <1>0, <2>2, RoomNewCall DEF RoomOps
  <2> QED BY <2>1, <2>2, <2>3 DEF RoomMatches
<1>5. CASE ClickDelete
  <2> DEFINE call == Call("delete", None, cache["detail"])
  <2>1. cache["detail"] \in Details /\ cache["detail"].mine = "OWNER" /\ Sent(call)
    BY <1>5, RoomHeader DEF ClickDelete, Send
  <2>2. call \in RoomCalls /\ call.op = "delete" /\ call.answer = None /\ call.offer = cache["detail"]
    BY <1>0, <2>1, RoomNewCall DEF RoomOps
  <2> QED BY <2>1, <2>2 DEF RoomMatches
<1>6. CASE ClickRole
  <2> DEFINE role == IF cache["detail"].theirs = "ADMIN" THEN "MEMBER" ELSE "ADMIN"
             call == Call("role", role, cache["detail"])
  <2>1. /\ cache["detail"] \in Details /\ cache["detail"].mine = "OWNER"
        /\ cache["detail"].theirs # "NONE" /\ Sent(call)
    BY <1>6, RoomHeader DEF ClickRole, Send, Listed
  <2>2. call \in RoomCalls /\ call.op = "role" /\ call.answer = None /\ call.offer = cache["detail"]
    BY <1>0, <2>1, RoomNewCall DEF RoomOps
  <2> QED BY <2>1, <2>2 DEF RoomMatches
<1>7. ASSUME NEW op \in {"kick", "ban"}, Listed, CanAct, Sent(Call(op, None, cache["detail"]))
      PROVE  Goal
  <2> DEFINE call == Call(op, None, cache["detail"])
  <2>1. /\ cache["detail"] \in Details /\ cache["detail"].mine \in {"ADMIN", "OWNER"}
        /\ ROLE_RANK[cache["detail"].mine] > ROLE_RANK[cache["detail"].theirs]
        /\ cache["detail"].theirs # "NONE"
    BY <1>7, RoomHeader DEF Listed, CanAct
  <2>2. call \in RoomCalls /\ call.op = op /\ call.answer = None /\ call.offer = cache["detail"]
    BY <1>0, <2>1, RoomNewCall DEF RoomOps
  <2> QED BY <1>7, <2>1, <2>2 DEF RoomMatches
<1>8. CASE ClickKick \/ ClickBan
  BY <1>7, <1>8 DEF ClickKick, ClickBan, Send
<1>9. CASE ClickUnban
  <2> DEFINE offer == <<cache["detail"], cache["bans"]>>
             call == Call("unban", None, offer)
  <2>1. /\ cache["detail"] \in Details /\ cache["detail"].mine \in {"ADMIN", "OWNER"}
    BY <1>9, RoomHeader DEF ClickUnban, BansShown
  <2>2. cache["bans"] \in Nat /\ cache["bans"] # 0 /\ Sent(call)
    BY <1>9, RoomNames DEF ClickUnban, Send, RoomTypes, RoomQueries
  <2>3. offer \in Details \X Nat /\ offer[1].mine \in {"ADMIN", "OWNER"} /\ offer[2] # 0
    BY <2>1, <2>2
  <2>4. offer \in RoomOffers
    BY <2>3 DEF RoomOffers
  <2> HIDE DEF offer
  <2>5. call \in RoomCalls /\ call.op = "unban" /\ call.answer = None /\ call.offer = offer
    BY <2>4, RoomNewCall DEF RoomOps
  <2> QED BY <2>2, <2>3, <2>5 DEF RoomMatches
<1> QED BY <1>1, <1>2, <1>3, <1>4, <1>5, <1>6, <1>8, <1>9 DEF RoomSends

LEMMA RoomBystandersKeepCalls ==
    ASSUME RoomTypes, RoomOthers \/ RoomFetches \/ RoomVisits \/ RoomSocket \/ RoomCloses
    PROVE  RoomSameCalls(calls, calls')
<1>0. calls \in SUBSET RoomCalls  BY DEF RoomTypes
<1>1. CASE UNCHANGED calls
  BY <1>0, <1>1, RoomSameItself
<1>2. CASE calls' = Mounted(calls)
  BY <1>0, <1>2, RoomMountedCalls
<1>3. CASE RoomOthers
  BY <1>1, <1>3 DEF RoomOthers, MemberJoins, MemberGoes, MemberBanned, Unbanned, RoleSet,
                    RoomUpdated, RoomDeleted, client
<1>4. CASE RoomFetches
  BY <1>1, <1>2, <1>4 DEF RoomFetches, Refetch, ReadFetch, ReceiveFetch, FetchFails
<1>5. CASE RoomVisits
  BY <1>1, <1>2, <1>5 DEF RoomVisits, CollectRoom, OpenRoom, CloseRoom
<1>6. CASE RoomSocket
  BY <1>1, <1>6 DEF RoomSocket, ReceiveEvent, Disconnect, Reconnect, client
<1>7. CASE RoomCloses
  BY <1>7, RoomClosedCalls DEF RoomCloses
<1> QED BY <1>3, <1>4, <1>5, <1>6, <1>7

\* The request becomes the answer to it, with what it has changed.
LEMMA RoomProcessCalls ==
    ASSUME RoomTypes, NEW c \in calls, Process(c)
    PROVE  \E d \in RoomCalls :
              /\ d.op = c.op /\ calls' = (calls \ {c}) \cup {d}
              /\ d.answer \in {"ok", "refused"}
              /\ Allowed(c.op) => d.answer = "ok" /\ d.effect = Changed
<1>0. c \in RoomCalls  BY DEF RoomTypes
<1>1. CASE Allowed(c.op)
  <2> DEFINE d == [c EXCEPT !.answer = "ok", !.effect = Changed]
  <2>1. Changed \in SUBSET Queries  BY RoomPanes DEF Changed, RoomTypes
  <2>2. d \in RoomCalls /\ d.op = c.op /\ d.answer = "ok" /\ d.effect = Changed
    BY <1>0, <2>1 DEF RoomCalls
  <2>3. calls' = (calls \ {c}) \cup {d}  BY <1>1 DEF Process, Grant
  <2> QED BY <2>2, <2>3
<1>2. CASE ~Allowed(c.op)
  <2> DEFINE d == [c EXCEPT !.answer = "refused"]
  <2>1. d \in RoomCalls /\ d.op = c.op /\ d.answer = "refused"
    BY <1>0 DEF RoomCalls
  <2>2. calls' = (calls \ {c}) \cup {d}  BY <1>2 DEF Process, Refuse
  <2> QED BY <1>2, <2>1, <2>2
<1> QED BY <1>1, <1>2

--------------------------------------------------------------------------------
(* The types *)

LEMMA RoomCallsTyped ==
    ASSUME RoomTypes, [Next]_vars PROVE calls' \subseteq RoomCalls
<1>0. calls \in SUBSET RoomCalls  BY DEF RoomTypes
<1>1. CASE RoomOthers \/ RoomFetches \/ RoomVisits \/ RoomSocket \/ RoomCloses
  BY <1>1, RoomBystandersKeepCalls DEF RoomSameCalls
<1>2. CASE RoomSends
  BY <1>0, <1>2, RoomSendsCall
<1>3. ASSUME NEW c \in calls, Process(c) PROVE calls' \subseteq RoomCalls
  BY <1>0, <1>3, RoomProcessCalls
<1>4. ASSUME NEW c \in calls, CallSucceeds(c) \/ CallFails(c)
      PROVE  calls' \subseteq RoomCalls
  BY <1>0, <1>4 DEF CallSucceeds, CallFails
<1>5. CASE UNCHANGED vars
  BY <1>0, <1>5 DEF vars, client
<1> QED BY <1>1, <1>2, <1>3, <1>4, <1>5, RoomSteps

\* Clicks and answers leave the server alone.
LEMMA RoomServerKept ==
    ASSUME \/ RoomFetches \/ RoomVisits \/ RoomSocket \/ RoomCloses \/ RoomSends
           \/ \E c \in calls : CallSucceeds(c) \/ CallFails(c)
           \/ UNCHANGED vars
    PROVE  UNCHANGED <<uses, server>>
<1>1. CASE RoomFetches
  BY <1>1 DEF RoomFetches, Refetch, ReadFetch, ReceiveFetch, FetchFails
<1>2. CASE RoomVisits
  BY <1>2 DEF RoomVisits, CollectRoom, OpenRoom, CloseRoom
<1>3. CASE RoomSocket
  BY <1>3 DEF RoomSocket, ReceiveEvent, Disconnect, Reconnect
<1>4. CASE RoomCloses
  BY <1>4 DEF RoomCloses, CloseDialog
<1>5. CASE RoomSends
  BY <1>5 DEF RoomSends, ClickCreate, ClickJoin, ClickSave, ClickDelete, ClickRole,
              ClickKick, ClickBan, ClickUnban, ClickInvite, Send
<1>6. ASSUME NEW c \in calls, CallSucceeds(c) \/ CallFails(c)
      PROVE  UNCHANGED <<uses, server>>
  BY <1>6 DEF CallSucceeds, CallFails
<1>7. CASE UNCHANGED vars
  BY <1>7 DEF vars
<1> QED BY <1>1, <1>2, <1>3, <1>4, <1>5, <1>6, <1>7

\* What a granted request does to the room.
LEMMA RoomPerformTyped ==
    ASSUME RoomTypes, NEW c \in calls, Allowed(c.op), Perform(c), UNCHANGED uses
    PROVE  RoomServer'
<1>0. c \in RoomCalls /\ RoomServer  BY DEF RoomTypes
<1>1. CASE c.op = "delete"
  BY <1>0, <1>1, RoomRanks DEF Perform, DropRoom, RoomServer
<1>2. CASE c.op \in {"create", "update"}
  BY <1>0, <1>2, RoomRanks DEF Perform, RoomServer, RoomCalls
<1>3. CASE c.op = "unban"
  BY <1>0, <1>3, RoomRanks DEF Perform, Allowed, RoomServer
<1>4. CASE c.op = "role"
  BY <1>0, <1>4, RoomRanks DEF Perform, RoomServer, RoomCalls
<1>5. CASE c.op \in {"join", "kick", "ban", "invite"}
  BY <1>0, <1>5, RoomRanks DEF Perform, RoomServer
<1> QED BY <1>0, <1>1, <1>2, <1>3, <1>4, <1>5 DEF RoomCalls, RoomOps

LEMMA RoomServerTyped ==
    ASSUME RoomTypes, [Next]_vars PROVE RoomServer' /\ uses' = uses
<1>0. RoomServer  BY DEF RoomTypes
<1>1. CASE RoomOthers
  <2>1. CASE MemberJoins \/ MemberGoes \/ MemberBanned
    BY <1>0, <2>1, RoomRanks DEF MemberJoins, MemberGoes, MemberBanned, RoomServer
  <2>2. CASE Unbanned
    BY <1>0, <2>2 DEF Unbanned, RoomServer
  <2>5. CASE RoomUpdated
    BY <1>0, <2>5 DEF RoomUpdated, RoomServer
  <2>3. CASE RoleSet
    BY <1>0, <2>3, RoomRanks DEF RoleSet, RoomServer
  <2>4. CASE RoomDeleted
    BY <1>0, <2>4, RoomRanks DEF RoomDeleted, DropRoom, RoomServer
  <2> QED BY <1>1, <2>1, <2>2, <2>3, <2>4, <2>5 DEF RoomOthers
<1>2. ASSUME NEW c \in calls, Process(c) PROVE RoomServer' /\ uses' = uses
  <2>1. CASE Allowed(c.op)
    BY <1>2, <2>1, RoomPerformTyped DEF Process, Grant
  <2>2. CASE ~Allowed(c.op)
    BY <1>0, <1>2, <2>2 DEF Process, Refuse, server, RoomServer
  <2> QED BY <2>1, <2>2
<1>3. CASE UNCHANGED <<uses, server>>
  BY <1>0, <1>3 DEF server, RoomServer
<1> QED BY <1>1, <1>2, <1>3, RoomServerKept, RoomSteps

LEMMA RoomArrivalsTyped ==
    ASSUME RoomTypes, [Next]_vars PROVE events' \in Nat
<1>0. events \in Nat  BY DEF RoomTypes
<1>1. CASE RoomOthers
  <2>1. Told \/ Untold
    BY <1>1 DEF RoomOthers, MemberJoins, MemberGoes, MemberBanned, Unbanned, RoleSet,
                RoomUpdated, RoomDeleted
  <2> QED BY <1>0, <2>1 DEF Told, Untold
<1>2. CASE RoomFetches
  BY <1>0, <1>2 DEF RoomFetches, Refetch, ReadFetch, ReceiveFetch, FetchFails
<1>3. CASE RoomVisits
  BY <1>0, <1>3 DEF RoomVisits, CollectRoom, OpenRoom, CloseRoom
<1>4. CASE RoomSocket
  BY <1>0, <1>4 DEF RoomSocket, ReceiveEvent, Disconnect, Reconnect
<1>5. CASE RoomCloses
  BY <1>0, <1>5 DEF RoomCloses, CloseDialog
<1>6. CASE RoomSends
  BY <1>0, <1>6 DEF RoomSends, ClickCreate, ClickJoin, ClickSave, ClickDelete, ClickRole,
                    ClickKick, ClickBan, ClickUnban, ClickInvite, Send
<1>7. ASSUME NEW c \in calls, Process(c) \/ CallSucceeds(c) \/ CallFails(c)
      PROVE  events' \in Nat
  BY <1>0, <1>7 DEF Process, Grant, Refuse, CallSucceeds, CallFails
<1>8. CASE UNCHANGED vars
  BY <1>0, <1>8 DEF vars
<1> QED BY <1>1, <1>2, <1>3, <1>4, <1>5, <1>6, <1>7, <1>8, RoomSteps

RoomCacheType(f) ==
    f = [q \in Queries |-> f[q]] /\ \A q \in Queries : f[q] \in RoomData[q] \cup {None}

RoomFetchType(f) ==
    f = [q \in Queries |-> f[q]] /\ \A q \in Queries : f[q] \in RoomData[q] \cup {Asked, None}

LEMMA RoomMount ==
    ASSUME NEW f, RoomFetchType(f), MountBans(f)
    PROVE  /\ RoomFetchType(fetch')
           /\ \A q \in Queries : \/ fetch'[q] = f[q]
                                 \/ q = "bans" /\ f[q] = None /\ fetch'[q] = Asked
           /\ Active("bans")' /\ ~Active("bans") /\ f["bans"] = None => fetch'["bans"] = Asked
  BY RoomNames DEF MountBans, RoomFetchType

LEMMA RoomQuerySet ==
    ASSUME NEW f, RoomFetchType(f), NEW q \in Queries, NEW v, v \in RoomData[q] \cup {Asked, None}
    PROVE  RoomFetchType([f EXCEPT ![q] = v])
  BY DEF RoomFetchType

LEMMA RoomInvalidateTyped ==
    ASSUME RoomFetchType(fetch), NEW queries, Invalidate(queries)
    PROVE  RoomFetchType(fetch')
<1>1. fetch' = [q \in Queries |-> IF q \in Refetched(queries) THEN Asked ELSE fetch[q]]
  BY DEF Invalidate
<1> QED BY <1>1 DEF RoomFetchType

LEMMA RoomQueriesTyped ==
    ASSUME RoomTypes, [Next]_vars PROVE RoomQueries'
<1> DEFINE C == RoomCacheType(cache)
           F == RoomFetchType(fetch)
<1>0. C /\ F /\ (C' /\ F' => RoomQueries')
  BY DEF RoomTypes, RoomQueries, RoomCacheType, RoomFetchType, RoomData
<1>1. CASE UNCHANGED <<cache, fetch>>
  BY <1>0, <1>1 DEF RoomCacheType, RoomFetchType, RoomData, Roles, Details
<1>2. ASSUME NEW q \in Queries, Refetch(q) PROVE C' /\ F'
  BY <1>0, <1>2, RoomQuerySet DEF Refetch
<1>3. ASSUME NEW q \in Queries, ReadFetch(q) PROVE C' /\ F'
  <2>1. Relation[q] \in RoomData[q]  BY <1>3, RoomRelationType DEF RoomTypes, ReadFetch
  <2> QED BY <1>0, <1>3, <2>1, RoomQuerySet DEF ReadFetch
<1>4. ASSUME NEW q \in Queries, ReceiveFetch(q) PROVE C' /\ F'
  <2>1. RoomFetchType([fetch EXCEPT ![q] = None])  BY <1>0, RoomQuerySet
  <2>2. F'  BY <1>4, <2>1, RoomMount DEF ReceiveFetch
  <2>3. fetch[q] \in RoomData[q]  BY <1>0, <1>4 DEF ReceiveFetch, RoomFetchType
  <2>4. C'  BY <1>0, <1>4, <2>3 DEF ReceiveFetch, RoomCacheType
  <2> QED BY <2>2, <2>4
<1>5. ASSUME NEW q \in Queries, FetchFails(q) PROVE C' /\ F'
  BY <1>0, <1>5, RoomQuerySet DEF FetchFails
<1>6. CASE CollectRoom
  BY <1>0, <1>6 DEF CollectRoom, RoomCacheType
<1>7. CASE OpenRoom
  <2>1. RoomFetchType([fetch EXCEPT !["detail"] = Asked])  BY <1>0, RoomQuerySet, RoomNames
  <2> QED BY <1>0, <1>7, <2>1, RoomMount DEF OpenRoom
<1>8. CASE ReceiveEvent
  BY <1>0, <1>8, RoomInvalidateTyped DEF ReceiveEvent
<1>9. ASSUME NEW c \in calls, CallSucceeds(c) PROVE C' /\ F'
  BY <1>0, <1>9, RoomInvalidateTyped DEF CallSucceeds
<1> HIDE DEF C, F
<1>10. CASE RoomOthers
  BY <1>1, <1>10 DEF RoomOthers, MemberJoins, MemberGoes, MemberBanned, Unbanned, RoleSet,
                     RoomUpdated, RoomDeleted, client
<1>11. CASE CloseRoom \/ Disconnect \/ Reconnect \/ RoomCloses
  BY <1>1, <1>11 DEF CloseRoom, Disconnect, Reconnect, client, RoomCloses, CloseDialog
<1>12. CASE RoomSends
  BY <1>1, <1>12 DEF RoomSends, ClickCreate, ClickJoin, ClickSave, ClickDelete, ClickRole,
                     ClickKick, ClickBan, ClickUnban, ClickInvite, Send
<1>13. ASSUME NEW c \in calls, Process(c) \/ CallFails(c) PROVE RoomQueries'
  BY <1>1, <1>13 DEF Process, Grant, Refuse, CallFails
<1>14. CASE UNCHANGED vars
  BY <1>1, <1>14 DEF vars, client
<1> QED BY <1>0, <1>2, <1>3, <1>4, <1>5, <1>6, <1>7, <1>8, <1>9, <1>10, <1>11, <1>12, <1>13, <1>14,
           RoomSteps DEF RoomFetches, RoomVisits, RoomSocket

LEMMA RoomTypesStep ==
    ASSUME RoomTypes, [Next]_vars PROVE RoomTypes'
<1>1. RoomServer' /\ uses' = uses /\ RoomQueries' /\ events' \in Nat
  BY RoomServerTyped, RoomQueriesTyped, RoomArrivalsTyped
<1>2. RoomCalls' = RoomCalls
  BY <1>1 DEF RoomCalls, RoomOps, RoomOffers, Details, Roles, Queries
<1>3. calls' \subseteq RoomCalls'
  BY <1>2, RoomCallsTyped
<1> QED BY <1>1, <1>3 DEF RoomTypes

--------------------------------------------------------------------------------
(* What a refused call was drawn from *)

\* A call that asks what its button showed is granted if that is still so.
LEMMA RoomMatchingGranted ==
    ASSUME RoomTypes, NEW c \in RoomCalls, RoomMatches(c), c.offer # None, Now(c.op) = c.offer
    PROVE  Allowed(c.op)
<1>0. c.op \in RoomOps /\ c.op \notin {"create", "invite"}  BY DEF RoomCalls, RoomMatches
<1>1. CASE c.op = "join"
  <2>1. Now("join") = TRUE  BY <1>1 DEF RoomMatches
  <2>2. ~barred /\ mine = "NONE" /\ Public  BY <2>1, RoomValues DEF Now, RoomTypes
  <2> QED BY <1>1, <2>2 DEF Allowed
<1>2. CASE c.op \in {"update", "delete", "role", "kick", "ban"}
  <2>1. Detail = c.offer /\ c.offer \in Details  BY <1>2 DEF Now, RoomMatches
  <2>2. Detail.mine = mine /\ Detail.theirs = theirs
    BY <2>1, RoomDetailType, RoomValues DEF RoomTypes
  <2>3. CASE c.op \in {"update", "delete", "role"}
    BY <2>1, <2>2, <2>3 DEF RoomMatches, Allowed
  <2>4. CASE c.op \in {"kick", "ban"}
    <3>1. /\ mine \in {"ADMIN", "OWNER"} /\ theirs # "NONE"
          /\ ROLE_RANK[mine] > ROLE_RANK[theirs]
      BY <2>1, <2>2, <2>4 DEF RoomMatches
    <3>2. Outranks /\ Staff  BY <3>1, RoomRanks DEF Outranks, Staff
    <3> QED BY <2>4, <3>1, <3>2 DEF Allowed
  <2> QED BY <1>2, <2>3, <2>4
<1>3. CASE c.op = "unban"
  <2>1. Detail = c.offer[1] /\ ActiveBans = c.offer[2] /\ c.offer \in Details \X Nat
        /\ c.offer[1].mine \in {"ADMIN", "OWNER"} /\ c.offer[2] # 0
    BY <1>3 DEF Now, RoomMatches
  <2>2. Detail \in Details /\ ActiveBans \in Nat /\ ActiveBans # 0  BY <2>1
  <2>3. mine \in {"ADMIN", "OWNER"}
    BY <2>1, <2>2, RoomDetailType, RoomValues DEF RoomTypes
  <2>4. Staff /\ bans > 0
    BY <2>2, <2>3, RoomRanks DEF Staff, ActiveBans, RoomTypes, RoomServer
  <2> QED BY <1>3, <2>4 DEF Allowed
<1> QED BY <1>0, <1>1, <1>2, <1>3 DEF RoomOps

LEMMA RoomSameOffers ==
    ASSUME NEW cs, RoomSameCalls(cs, calls'), \A c \in cs : c.answer = None => RoomMatches(c)
    PROVE  RoomOffered'
<1>1. ASSUME NEW c, NEW d, RoomSame(c, d), d.answer = None, c.answer = None => RoomMatches(c)
      PROVE  RoomMatches(d)
  <2>1. RoomMatches(c)  BY <1>1 DEF RoomSame
  <2> QED BY <1>1, <2>1 DEF RoomSame, RoomMatches
<1>2. ASSUME NEW d \in calls', d.answer = None PROVE RoomMatches(d)
  <2>1. PICK c \in cs : RoomSame(c, d)  BY DEF RoomSameCalls
  <2> QED BY <1>1, <1>2, <2>1
<1> QED BY <1>2 DEF RoomOffered, RoomMatches, Details, Roles, ROLE_RANK

\* misled is written by the server's answers alone.
LEMMA RoomMisledKept ==
    ASSUME [Next]_vars, ~\E c \in calls : Process(c)
    PROVE  misled' = misled
<1>1. CASE RoomOthers
  BY <1>1 DEF RoomOthers, MemberJoins, MemberGoes, MemberBanned, Unbanned, RoleSet,
              RoomUpdated, RoomDeleted, client
<1>2. CASE RoomFetches
  BY <1>2 DEF RoomFetches, Refetch, ReadFetch, ReceiveFetch, FetchFails
<1>3. CASE RoomVisits
  BY <1>3 DEF RoomVisits, CollectRoom, OpenRoom, CloseRoom
<1>4. CASE RoomSocket
  BY <1>4 DEF RoomSocket, ReceiveEvent, Disconnect, Reconnect, client
<1>5. CASE RoomCloses
  BY <1>5 DEF RoomCloses, CloseDialog
<1>6. CASE RoomSends
  BY <1>6 DEF RoomSends, ClickCreate, ClickJoin, ClickSave, ClickDelete, ClickRole,
              ClickKick, ClickBan, ClickUnban, ClickInvite, Send
<1>7. ASSUME NEW c \in calls, CallSucceeds(c) \/ CallFails(c) PROVE misled' = misled
  BY <1>7 DEF CallSucceeds, CallFails
<1>8. CASE UNCHANGED vars
  BY <1>8 DEF vars, client
<1> QED BY <1>1, <1>2, <1>3, <1>4, <1>5, <1>6, <1>7, <1>8, RoomSteps

LEMMA RoomOfferedStep ==
    ASSUME RoomTypes, RoomOffered, OnlyStaleOffersRefused, [Next]_vars
    PROVE  RoomOffered' /\ (OnlyStaleOffersRefused)'
<1> USE DEF OnlyStaleOffersRefused
<1>1. ASSUME NEW c \in calls, Process(c) PROVE RoomOffered' /\ ~misled'
  <2>1. c.answer = None /\ RoomMatches(c) /\ c \in RoomCalls
    BY <1>1 DEF Process, RoomOffered, RoomTypes
  <2>2. PICK d \in RoomCalls : /\ d.answer \in {"ok", "refused"}
                               /\ calls' = (calls \ {c}) \cup {d}
    BY <1>1, RoomProcessCalls
  <2>3. d.answer # None  BY <2>2, RoomValues DEF RoomTypes
  <2>4. \A e \in calls' : e.answer = None => RoomMatches(e)  BY <2>2, <2>3 DEF RoomOffered
  <2>5. RoomOffered'  BY <2>4 DEF RoomOffered, RoomMatches, Details, Roles, ROLE_RANK
  <2>6. ~Allowed(c.op) => c.offer = None \/ Now(c.op) # c.offer
    BY <2>1, RoomMatchingGranted
  <2>7. ~misled'
    BY <1>1, <2>6 DEF Process, Grant, Refuse
  <2> QED BY <2>5, <2>7
<1>2. ASSUME RoomOthers \/ RoomFetches \/ RoomVisits \/ RoomSocket \/ RoomCloses
      PROVE  RoomOffered'
  BY <1>2, RoomBystandersKeepCalls, RoomSameOffers DEF RoomOffered
<1>3. ASSUME RoomSends PROVE RoomOffered'
  <2>1. PICK call \in RoomCalls : RoomMatches(call) /\ calls' = calls \cup {call}
    BY <1>3, RoomSendsCall
  <2>2. \A e \in calls' : e.answer = None => RoomMatches(e)  BY <2>1 DEF RoomOffered
  <2> QED BY <2>2 DEF RoomOffered, RoomMatches, Details, Roles, ROLE_RANK
<1>4. ASSUME UNCHANGED calls \/ \E c \in calls : CallSucceeds(c) \/ CallFails(c)
      PROVE  RoomOffered'
  <2>1. calls' \subseteq calls  BY <1>4 DEF CallSucceeds, CallFails
  <2>2. \A e \in calls' : e.answer = None => RoomMatches(e)  BY <2>1 DEF RoomOffered
  <2> QED BY <2>2 DEF RoomOffered, RoomMatches, Details, Roles, ROLE_RANK
<1>5. UNCHANGED vars => UNCHANGED calls  BY DEF vars, client
<1>6. RoomOffered'  BY <1>1, <1>2, <1>3, <1>4, <1>5, RoomSteps
<1>7. ~misled'  BY <1>1, RoomMisledKept
<1> QED BY <1>6, <1>7

--------------------------------------------------------------------------------
(* Whatever changes, the client is about to hear of it *)

LEMMA RoomUpToDateKept ==
    ASSUME NEW q, fetch'[q] = fetch[q], cache'[q] = cache[q],
           Relation'[q] = Relation[q], RoomIdle(q) => RoomIdle(q)', RoomUpToDate(q)
    PROVE  RoomUpToDate(q)'
  BY DEF RoomUpToDate

LEMMA RoomIdleKept ==
    ASSUME NEW q, UNCHANGED <<uses, cache, failed, open>>
    PROVE  RoomIdle(q)' <=> RoomIdle(q)
  BY DEF RoomIdle, Active, BansShown, HeaderShown, MyRole, PaneQueries

LEMMA RoomComingKept ==
    ASSUME NEW q, RoomComing(q), events > 0 => events' > 0,
           \A c \in calls : c.answer = "ok" /\ q \in c.effect /\ q \in InvalidatedOnSuccess(c.op)
                            => \E d \in calls' : RoomSame(c, d)
    PROVE  RoomComing(q)'
<1>1. CASE events > 0 /\ q \in InvalidatedByEvent
  BY <1>1 DEF RoomComing, InvalidatedByEvent
<1>2. ASSUME NEW c \in calls,
             c.answer = "ok", q \in c.effect, q \in InvalidatedOnSuccess(c.op)
      PROVE  RoomComing(q)'
  <2>1. PICK d \in calls' : RoomSame(c, d)  BY <1>2
  <2>2. d.answer = "ok" /\ q \in d.effect /\ q \in InvalidatedOnSuccess(d.op)
    BY <1>2, <2>1 DEF RoomSame
  <2> QED BY <2>2 DEF RoomComing, InvalidatedOnSuccess
<1> QED BY <1>1, <1>2 DEF RoomComing

\* What is invalidated is asked for, unless nothing shows it.
LEMMA RoomInvalidated ==
    ASSUME RoomTypes, NEW queries, Invalidate(queries),
           UNCHANGED <<uses, server, cache, failed, open>>,
           NEW q \in Queries, RoomUpToDate(q) \/ q \in queries
    PROVE  RoomUpToDate(q)' \/ q \in excused'
<1>1. RoomIdle(q)' <=> RoomIdle(q)  BY RoomIdleKept
<1>2. Relation' = Relation  BY RoomRelationKept DEF server
<1>3. fetch'[q] = IF q \in Refetched(queries) THEN Asked ELSE fetch[q]
  BY DEF Invalidate
<1>4. CASE q \in Refetched(queries)
  BY <1>3, <1>4 DEF RoomUpToDate
<1>5. CASE q \notin Refetched(queries) /\ RoomUpToDate(q)
  BY <1>1, <1>2, <1>3, <1>5, RoomUpToDateKept
<1>6. CASE q \in queries \ Refetched(queries)
  <2>1. CASE fetch[q] \notin {None, Asked}
    BY <1>6, <2>1 DEF Invalidate
  <2>2. CASE fetch[q] = Asked
    BY <1>3, <1>6, <2>2 DEF RoomUpToDate
  <2>3. CASE fetch[q] = None
    <3>1. ~Active(q)  BY <1>6, <2>3 DEF Refetched
    <3> QED BY <1>1, <1>3, <1>6, <2>3, <3>1 DEF RoomUpToDate, RoomIdle
  <2> QED BY <2>1, <2>2, <2>3
<1> QED BY <1>4, <1>5, <1>6

LEMMA RoomOthersFollowed ==
    ASSUME RoomTypes, RoomFresh, RoomOthers PROVE RoomFresh'
<1>0. (Told \/ Untold) /\ UNCHANGED <<uses, cache, fetch, failed, open, calls>>
  BY DEF RoomOthers, MemberJoins, MemberGoes, MemberBanned, Unbanned, RoleSet,
         RoomUpdated, RoomDeleted, client
<1>1. PaneQueries[uses]' = PaneQueries[uses]  BY <1>0 DEF PaneQueries
<1> SUFFICES ASSUME NEW q \in PaneQueries[uses] PROVE RoomFollowed(q)'
  BY <1>1 DEF RoomFresh
<1>2. events \in Nat /\ (events > 0 => events' > 0) /\ excused \subseteq excused'
  BY <1>0 DEF RoomTypes, Told, Untold
<1>3. CASE RoomComing(q)
  BY <1>0, <1>2, <1>3, RoomComingKept DEF RoomFollowed, RoomSame
<1>4. CASE q \in excused
  BY <1>2, <1>4 DEF RoomFollowed
<1>5. CASE RoomUpToDate(q) /\ Relation'[q] = Relation[q]
  BY <1>0, <1>5, RoomIdleKept, RoomUpToDateKept DEF RoomFollowed
<1>6. CASE Relation'[q] # Relation[q]
  <2>1. q \in Changed  BY <1>6 DEF Changed
  <2>2. CASE Untold \/ (Told /\ ~hears') \/ q \notin {"list", "detail"}
    BY <1>0, <2>1, <2>2 DEF Told, Untold, RoomFollowed
  <2>3. CASE Told /\ hears' /\ q \in {"list", "detail"}
    BY <1>2, <2>3 DEF Told, RoomFollowed, RoomComing, InvalidatedByEvent
  <2> QED BY <1>0, <2>2, <2>3
<1> QED BY <1>3, <1>4, <1>5, <1>6 DEF RoomFresh, RoomFollowed

\* What is coming stays so while events and granted calls stay.
LEMMA RoomStillComing ==
    ASSUME RoomFresh, UNCHANGED <<uses, events>>,
           \A c \in calls : \E d \in calls' : RoomSame(c, d),
           \A q \in PaneQueries[uses] : RoomUpToDate(q) \/ q \in excused => RoomFollowed(q)'
    PROVE  RoomFresh'
<1>1. PaneQueries[uses]' = PaneQueries[uses]  BY DEF PaneQueries
<1>2. ASSUME NEW q \in PaneQueries[uses] PROVE RoomFollowed(q)'
  <2>1. CASE RoomComing(q)  BY <2>1, RoomComingKept DEF RoomFollowed
  <2> QED BY <1>2, <2>1 DEF RoomFresh, RoomFollowed
<1> QED BY <1>1, <1>2 DEF RoomFresh

LEMMA RoomFetchFollowed ==
    ASSUME RoomTypes, RoomFresh, NEW p \in Queries,
           Refetch(p) \/ ReadFetch(p) \/ ReceiveFetch(p) \/ FetchFails(p)
    PROVE  RoomFresh'
<1>0. RoomFetchType(fetch) /\ RoomCacheType(cache) /\ RoomServer
  BY DEF RoomTypes, RoomQueries, RoomFetchType, RoomCacheType
<1>1. UNCHANGED <<uses, events, open, server>>
  BY DEF Refetch, ReadFetch, ReceiveFetch, FetchFails
<1>2. \A c \in calls : \E d \in calls' : RoomSame(c, d)
  BY RoomBystandersKeepCalls DEF RoomSameCalls, RoomFetches
<1>3. Relation' = Relation  BY <1>1, RoomRelationKept DEF server
<1> SUFFICES ASSUME NEW q \in PaneQueries[uses], RoomUpToDate(q) \/ q \in excused
             PROVE  RoomFollowed(q)'
  BY <1>1, <1>2, RoomStillComing
<1>4. q \in Queries  BY <1>0, RoomPanes
<1>5. CASE q \in excused /\ ~(ReadFetch(p) /\ p = q)
  BY <1>5 DEF Refetch, ReadFetch, ReceiveFetch, FetchFails, RoomFollowed
<1>6. CASE Refetch(p) /\ RoomUpToDate(q)
  <2>1. fetch'[q] = Asked \/ fetch'[q] = fetch[q]
    BY <1>0, <1>4, <1>6 DEF Refetch, RoomFetchType
  <2>2. RoomIdle(q)' <=> RoomIdle(q)  BY <1>6, RoomIdleKept DEF Refetch
  <2> QED BY <1>3, <1>6, <2>1, <2>2 DEF Refetch, RoomUpToDate, RoomFollowed
<1>7. CASE ReadFetch(p) /\ p = q
  BY <1>0, <1>3, <1>4, <1>7 DEF ReadFetch, RoomUpToDate, RoomFollowed, RoomFetchType
<1>8. CASE ReadFetch(p) /\ p # q /\ RoomUpToDate(q)
  <2>1. fetch'[q] = fetch[q]  BY <1>0, <1>4, <1>8 DEF ReadFetch, RoomFetchType
  <2>2. RoomIdle(q)' <=> RoomIdle(q)  BY <1>8, RoomIdleKept DEF ReadFetch
  <2> QED BY <1>3, <1>8, <2>1, <2>2 DEF ReadFetch, RoomUpToDate, RoomFollowed
<1>9. CASE ReceiveFetch(p) /\ RoomUpToDate(q)
  <2> DEFINE f == [fetch EXCEPT ![p] = None]
  <2>0. RoomFetchType(f) /\ MountBans(f)  BY <1>0, <1>9, RoomQuerySet DEF ReceiveFetch
  <2>1. /\ fetch'[q] = f[q] \/ fetch'[q] = Asked
        /\ Active("bans")' /\ ~Active("bans") /\ f["bans"] = None => fetch'["bans"] = Asked
    BY <1>4, <2>0, RoomMount
  <2>2. CASE p = q
    <3>1. fetch[q] = Relation[q] /\ cache'[q] = Relation[q] /\ f[q] = None
      BY <1>0, <1>4, <1>9, <2>2 DEF ReceiveFetch, RoomUpToDate, RoomFetchType, RoomCacheType
    <3> QED BY <1>3, <2>1, <3>1 DEF RoomUpToDate, RoomFollowed
  <2>3. CASE p # q
    <3>1. f[q] = fetch[q] /\ cache'[q] = cache[q]
      BY <1>0, <1>4, <1>9, <2>3 DEF ReceiveFetch, RoomFetchType, RoomCacheType
    <3>2. CASE fetch'[q] = Asked
      BY <3>2 DEF RoomUpToDate, RoomFollowed
    <3>3. CASE q # "bans" /\ fetch'[q] = f[q]
      <4>1. Active(q)' <=> Active(q)  BY <1>1, <3>3 DEF Active, PaneQueries
      <4>2. q = "detail" => (failed' <=> failed)  BY <1>9, <2>3 DEF ReceiveFetch
      <4>3. RoomIdle(q)' <=> RoomIdle(q)  BY <4>1, <4>2 DEF RoomIdle
      <4> QED BY <1>3, <1>9, <3>1, <3>3, <4>3, RoomUpToDateKept DEF RoomFollowed
    <3>4. CASE q = "bans" /\ fetch'[q] = f[q] /\ fetch'[q] # Asked
      <4>1. f[q] = None => (Active(q)' => Active(q))  BY <2>1, <3>4
      <4> QED BY <1>3, <1>9, <3>1, <3>4, <4>1 DEF RoomUpToDate, RoomFollowed, RoomIdle
    <3> QED BY <2>1, <3>2, <3>3, <3>4
  <2> QED BY <2>2, <2>3
<1>10. CASE FetchFails(p) /\ p = q /\ RoomUpToDate(q)
  BY <1>0, <1>4, <1>10 DEF FetchFails, RoomUpToDate, RoomFollowed, RoomIdle, RoomFetchType
<1>11. CASE FetchFails(p) /\ p # q /\ RoomUpToDate(q)
  <2>1. fetch'[q] = fetch[q] /\ UNCHANGED cache /\ (failed => failed')
    BY <1>0, <1>4, <1>11 DEF FetchFails, RoomFetchType
  <2>2. RoomIdle(q) => RoomIdle(q)'
    BY <1>1, <2>1 DEF RoomIdle, Active, BansShown, HeaderShown, MyRole, PaneQueries
  <2> QED BY <1>3, <1>11, <2>1, <2>2, RoomUpToDateKept DEF RoomFollowed
<1> QED BY <1>5, <1>6, <1>7, <1>8, <1>9, <1>10, <1>11

LEMMA RoomVisitsFollowed ==
    ASSUME RoomTypes, RoomFresh, RoomVisits PROVE RoomFresh'
<1>0. RoomFetchType(fetch) /\ RoomCacheType(cache) /\ RoomServer
  BY DEF RoomTypes, RoomQueries, RoomFetchType, RoomCacheType
<1>1. UNCHANGED <<uses, events, server, excused>>
  BY DEF RoomVisits, CollectRoom, OpenRoom, CloseRoom
<1>2. \A c \in calls : \E d \in calls' : RoomSame(c, d)
  BY RoomBystandersKeepCalls DEF RoomSameCalls
<1>3. Relation' = Relation  BY <1>1, RoomRelationKept DEF server
<1> SUFFICES ASSUME NEW q \in PaneQueries[uses], RoomUpToDate(q)
             PROVE  RoomFollowed(q)'
  BY <1>1, <1>2, RoomStillComing DEF RoomFollowed
<1>4. q \in Queries  BY <1>0, RoomPanes
<1>5. CASE CollectRoom
  <2>1. CASE q \in {"detail", "bans"}
    <3>1. fetch'[q] = None /\ cache'[q] = None
      BY <1>0, <1>4, <1>5, <2>1 DEF CollectRoom, RoomCacheType
    <3> QED BY <3>1 DEF RoomUpToDate, RoomFollowed
  <2>2. CASE q \notin {"detail", "bans"}
    <3>1. fetch'[q] = fetch[q] /\ cache'[q] = cache[q]
      BY <1>0, <1>4, <1>5, <2>2 DEF CollectRoom, RoomCacheType
    <3>2. RoomIdle(q)' <=> RoomIdle(q)  BY <1>1, <2>2 DEF RoomIdle, Active, PaneQueries
    <3> QED BY <1>3, <3>1, <3>2, RoomUpToDateKept DEF RoomFollowed
  <2> QED BY <2>1, <2>2
<1>6. CASE CloseRoom
  <2>1. UNCHANGED <<fetch, cache, failed>> /\ open /\ ~open'
    BY <1>6 DEF CloseRoom
  <2>2. RoomIdle(q) => RoomIdle(q)'
    BY <1>1, <2>1 DEF RoomIdle, Active, BansShown, HeaderShown, PaneQueries
  <2> QED BY <1>3, <2>1, <2>2, RoomUpToDateKept DEF RoomFollowed
<1>7. CASE OpenRoom
  <2> DEFINE f == IF fetch["detail"] = None THEN [fetch EXCEPT !["detail"] = Asked] ELSE fetch
  <2>0. RoomFetchType(f) /\ MountBans(f) /\ UNCHANGED <<cache, failed>>
    BY <1>0, <1>7, RoomQuerySet, RoomNames DEF OpenRoom
  <2>1. /\ fetch'[q] = f[q] \/ fetch'[q] = Asked
        /\ Active("bans")' /\ ~Active("bans") /\ f["bans"] = None => fetch'["bans"] = Asked
    BY <1>4, <2>0, RoomMount
  <2>2. CASE fetch'[q] = Asked
    BY <2>2 DEF RoomUpToDate, RoomFollowed
  <2>3. CASE q = "detail" /\ fetch'[q] # Asked
    <3>1. fetch[q] # None /\ fetch'[q] = fetch[q]
      BY <1>0, <1>4, <2>1, <2>3 DEF RoomFetchType
    <3> QED BY <1>3, <3>1 DEF RoomUpToDate, RoomFollowed
  <2>4. CASE q = "bans" /\ fetch'[q] # Asked
    <3>1. f[q] = fetch[q]  BY <1>0, <1>4, <2>4 DEF RoomFetchType
    <3>2. f[q] = None => (Active(q)' => Active(q))  BY <2>1, <2>4
    <3> QED BY <1>3, <2>0, <2>1, <2>4, <3>1, <3>2 DEF RoomUpToDate, RoomFollowed, RoomIdle
  <2>5. CASE q \notin {"detail", "bans"} /\ fetch'[q] # Asked
    <3>1. fetch'[q] = fetch[q]  BY <1>0, <1>4, <2>1, <2>5 DEF RoomFetchType
    <3>2. RoomIdle(q)' <=> RoomIdle(q)  BY <1>1, <2>5 DEF RoomIdle, Active, PaneQueries
    <3> QED BY <1>3, <2>0, <3>1, <3>2, RoomUpToDateKept DEF RoomFollowed
  <2> QED BY <2>2, <2>3, <2>4, <2>5
<1> QED BY <1>5, <1>6, <1>7 DEF RoomVisits

LEMMA RoomSocketFollowed ==
    ASSUME RoomTypes, RoomFresh, RoomSocket PROVE RoomFresh'
<1>1. UNCHANGED <<uses, server, cache, failed, open, calls>> /\ excused \subseteq excused'
  BY DEF RoomSocket, ReceiveEvent, Disconnect, Reconnect, client, Invalidate
<1>2. PaneQueries[uses]' = PaneQueries[uses]  BY <1>1 DEF PaneQueries
<1> SUFFICES ASSUME NEW q \in PaneQueries[uses] PROVE RoomFollowed(q)'
  BY <1>2 DEF RoomFresh
<1>3. q \in Queries  BY RoomPanes DEF RoomTypes
<1>4. CASE q \in excused
  BY <1>1, <1>4 DEF RoomFollowed
<1>5. CASE \E c \in calls : c.answer = "ok" /\ q \in c.effect /\ q \in InvalidatedOnSuccess(c.op)
  BY <1>1, <1>5 DEF RoomFollowed, RoomComing, InvalidatedOnSuccess
<1>6. CASE ReceiveEvent /\ (RoomUpToDate(q) \/ q \in InvalidatedByEvent)
  BY <1>1, <1>3, <1>6, RoomInvalidated DEF ReceiveEvent, RoomFollowed
<1>7. CASE ~ReceiveEvent /\ RoomUpToDate(q)
  <2>1. UNCHANGED fetch  BY <1>7 DEF RoomSocket, Disconnect, Reconnect, client
  <2> QED BY <1>1, <1>7, <2>1, RoomIdleKept, RoomRelationKept, RoomUpToDateKept DEF server, RoomFollowed
<1>8. CASE Disconnect /\ events > 0 /\ q \in InvalidatedByEvent
  BY <1>8 DEF Disconnect, InvalidatedByEvent, RoomFollowed
<1>9. CASE Reconnect /\ events > 0 /\ q \in InvalidatedByEvent
  BY <1>9 DEF Reconnect, InvalidatedByEvent, RoomFollowed, RoomComing
<1> QED BY <1>4, <1>5, <1>6, <1>7, <1>8, <1>9 DEF RoomFresh, RoomFollowed, RoomComing, RoomSocket

\* Clicks, and nothing at all.
LEMMA RoomElsewhereFollowed ==
    ASSUME RoomFresh, UNCHANGED <<uses, events, server, cache, fetch, failed, open, excused>>,
           \A c \in calls : \E d \in calls' : RoomSame(c, d)
    PROVE  RoomFresh'
<1> SUFFICES ASSUME NEW q \in PaneQueries[uses], RoomUpToDate(q) \/ q \in excused
             PROVE  RoomFollowed(q)'
  BY RoomStillComing
<1>1. Relation' = Relation  BY RoomRelationKept DEF server
<1> QED BY <1>1, RoomIdleKept, RoomUpToDateKept DEF RoomFollowed

\* What a granted request changes, its answer or nothing will tell of.
LEMMA RoomEffects ==
    ASSUME RoomTypes, NEW c \in calls, Allowed(c.op), Perform(c),
           NEW q \in PaneQueries[uses], Relation'[q] # Relation[q]
    PROVE  q \in InvalidatedOnSuccess(c.op) \cup Forgotten(c.op)
<1>0. c \in RoomCalls /\ RoomServer /\ q \in Queries  BY RoomPanes DEF RoomTypes
<1>1. /\ Relation["list"] = mine /\ Relation'["list"] = mine'
      /\ Relation["public"] = Public /\ Relation'["public"] = Public'
      /\ Relation["bans"] = ActiveBans /\ Relation'["bans"] = ActiveBans'
      /\ q \in {"list", "public", "detail", "bans"}
  BY <1>0, RoomNames DEF Relation
<1>2. CASE c.op = "create"
  <2>1. q \in {"list", "public"}  BY <1>0, <1>2 DEF RoomCalls, PaneQueries
  <2> QED BY <1>2, <2>1 DEF InvalidatedOnSuccess, Forgotten
<1>3. CASE c.op = "delete"
  BY <1>1, <1>3 DEF InvalidatedOnSuccess, Forgotten
<1>4. c.op \notin {"create", "delete"} => room = "yes" /\ room' = "yes"
  <2>1. c.op \in {"create", "delete", "join"} \/ mine # "NONE" \/ theirs # "NONE"
    <3>1. Staff => mine # "NONE"  BY RoomRanks DEF Staff
    <3>2. c.op \in {"update", "role", "kick", "ban", "unban", "invite"} => mine # "NONE" \/ theirs # "NONE"
      BY <3>1 DEF Allowed
    <3> QED BY <1>0, <3>2 DEF RoomCalls, RoomOps
  <2>2. c.op = "join" => room = "yes"  BY DEF Allowed, Public
  <2>3. c.op # "delete" => room' = "yes"  BY DEF Perform
  <2> QED BY <1>0, <2>1, <2>2, <2>3 DEF RoomServer
<1>5. CASE c.op = "update"
  <2>1. mine' = mine /\ bans' = bans  BY <1>5 DEF Perform
  <2>2. q \in {"public", "detail"}  BY <1>1, <2>1 DEF ActiveBans
  <2> QED BY <1>5, <2>2 DEF InvalidatedOnSuccess, Forgotten
<1>6. CASE c.op = "join"
  <2>1. mine = "NONE" /\ mine' = "MEMBER" /\ private' = private
    BY <1>6 DEF Perform, Allowed
  <2>2. ActiveBans = Refused /\ ActiveBans' = Refused
    BY <2>1, RoomRanks DEF ActiveBans, ROLE_RANK
  <2>3. Public' = Public  BY <1>4, <1>6, <2>1 DEF Public
  <2> QED BY <1>1, <1>6, <2>2, <2>3 DEF InvalidatedOnSuccess
<1>7. CASE c.op = "unban"
  <2>1. mine' = mine /\ private' = private  BY <1>7 DEF Perform
  <2>2. Public' = Public  BY <1>4, <1>7, <2>1 DEF Public
  <2> QED BY <1>1, <1>7, <2>1, <2>2 DEF InvalidatedOnSuccess
<1>8. CASE c.op \in {"role", "kick", "ban", "invite"}
  <2>1. mine' = mine /\ private' = private /\ (c.op # "ban" => bans' = bans)
    BY <1>8 DEF Perform
  <2>2. Public' = Public  BY <1>4, <1>8, <2>1 DEF Public
  <2>3. c.op # "ban" => ActiveBans' = ActiveBans  BY <2>1 DEF ActiveBans
  <2> QED BY <1>1, <1>8, <2>1, <2>2, <2>3 DEF InvalidatedOnSuccess, Forgotten
<1> QED BY <1>0, <1>2, <1>3, <1>5, <1>6, <1>7, <1>8 DEF RoomCalls, RoomOps

LEMMA RoomProcessFollowed ==
    ASSUME RoomTypes, RoomFresh, NEW c \in calls, Process(c) PROVE RoomFresh'
<1>0. /\ UNCHANGED <<uses, cache, fetch, failed, open>> /\ c.answer = None
      /\ events \in Nat /\ (events > 0 => events' > 0) /\ excused \subseteq excused'
  BY DEF Process, Grant, Refuse, RoomTypes
<1>1. PaneQueries[uses]' = PaneQueries[uses]  BY <1>0 DEF PaneQueries
<1> SUFFICES ASSUME NEW q \in PaneQueries[uses] PROVE RoomFollowed(q)'
  BY <1>1 DEF RoomFresh
<1>2. PICK d \in RoomCalls : /\ d.op = c.op /\ calls' = (calls \ {c}) \cup {d}
                             /\ Allowed(c.op) => d.answer = "ok" /\ d.effect = Changed
  BY RoomProcessCalls
<1>3. CASE RoomComing(q)
  <2>1. \A e \in calls : e.answer = "ok" => e \in calls'
    BY <1>0, <1>2, RoomValues DEF RoomTypes
  <2> QED BY <1>0, <1>3, <2>1, RoomComingKept DEF RoomFollowed, RoomSame
<1>4. CASE q \in excused
  BY <1>0, <1>4 DEF RoomFollowed
<1>5. CASE RoomUpToDate(q) /\ Relation'[q] = Relation[q]
  BY <1>0, <1>5, RoomIdleKept, RoomUpToDateKept DEF RoomFollowed
<1>6. CASE Relation'[q] # Relation[q]
  <2>1. Allowed(c.op)
    <3>1. Refuse(c) => Relation' = Relation  BY RoomRelationKept DEF Refuse, server
    <3> QED BY <1>6, <3>1 DEF Process
  <2>2. Grant(c) /\ Perform(c)  BY <2>1 DEF Process, Grant
  <2>3. q \in Changed  BY <1>6 DEF Changed
  <2>4. CASE q \in Forgotten(c.op)
    BY <2>2, <2>3, <2>4 DEF Grant, RoomFollowed
  <2>5. CASE q \in InvalidatedOnSuccess(c.op)
    <3>1. d \in calls' /\ d.answer = "ok" /\ q \in d.effect /\ q \in InvalidatedOnSuccess(d.op)
      BY <1>2, <2>1, <2>3, <2>5
    <3> QED BY <3>1 DEF RoomFollowed, RoomComing, InvalidatedOnSuccess
  <2> QED BY <1>6, <2>1, <2>2, <2>4, <2>5, RoomEffects
<1> QED BY <1>3, <1>4, <1>5, <1>6 DEF RoomFresh, RoomFollowed

LEMMA RoomSuccessFollowed ==
    ASSUME RoomTypes, RoomFresh, NEW c \in calls, CallSucceeds(c) PROVE RoomFresh'
<1>0. /\ UNCHANGED <<uses, server, events, cache, failed, open>>
      /\ Invalidate(InvalidatedOnSuccess(c.op)) /\ calls' = calls \ {c}
      /\ excused \subseteq excused'
  BY DEF CallSucceeds, Invalidate
<1>1. PaneQueries[uses]' = PaneQueries[uses]  BY <1>0 DEF PaneQueries
<1> SUFFICES ASSUME NEW q \in PaneQueries[uses] PROVE RoomFollowed(q)'
  BY <1>1 DEF RoomFresh
<1>2. q \in Queries  BY RoomPanes DEF RoomTypes
<1>3. CASE RoomUpToDate(q) \/ q \in InvalidatedOnSuccess(c.op)
  BY <1>0, <1>2, <1>3, RoomInvalidated DEF RoomFollowed
<1>4. CASE RoomComing(q) /\ q \notin InvalidatedOnSuccess(c.op)
  <2>1. \A e \in calls : q \in InvalidatedOnSuccess(e.op) => e \in calls'
    BY <1>0, <1>4
  <2> QED BY <1>0, <1>4, <2>1, RoomComingKept DEF RoomFollowed, RoomSame
<1>5. CASE q \in excused
  BY <1>0, <1>5 DEF RoomFollowed
<1> QED BY <1>3, <1>4, <1>5 DEF RoomFresh, RoomFollowed

LEMMA RoomFailureFollowed ==
    ASSUME RoomTypes, RoomFresh, NEW c \in calls, CallFails(c) PROVE RoomFresh'
<1>0. /\ UNCHANGED <<uses, server, events, cache, fetch, failed, open>>
      /\ excused' = excused \cup c.effect /\ calls' = calls \ {c}
  BY DEF CallFails
<1>1. PaneQueries[uses]' = PaneQueries[uses]  BY <1>0 DEF PaneQueries
<1> SUFFICES ASSUME NEW q \in PaneQueries[uses] PROVE RoomFollowed(q)'
  BY <1>1 DEF RoomFresh
<1>2. CASE RoomUpToDate(q)
  BY <1>0, <1>2, RoomIdleKept, RoomRelationKept, RoomUpToDateKept DEF server, RoomFollowed
<1>3. CASE q \in excused \cup c.effect
  BY <1>0, <1>3 DEF RoomFollowed
<1>4. CASE RoomComing(q) /\ q \notin c.effect
  <2>1. \A e \in calls : q \in e.effect => e \in calls'
    BY <1>0, <1>4
  <2> QED BY <1>0, <1>4, <2>1, RoomComingKept DEF RoomFollowed, RoomSame
<1> QED BY <1>2, <1>3, <1>4 DEF RoomFresh, RoomFollowed

LEMMA RoomFreshStep ==
    ASSUME RoomTypes, RoomFresh, [Next]_vars PROVE RoomFresh'
<1>1. CASE RoomOthers
  BY <1>1, RoomOthersFollowed
<1>2. CASE RoomFetches
  BY <1>2, RoomFetchFollowed DEF RoomFetches
<1>3. CASE RoomVisits
  BY <1>3, RoomVisitsFollowed
<1>4. CASE RoomSocket
  BY <1>4, RoomSocketFollowed
<1>5. CASE RoomCloses
  <2>1. UNCHANGED <<uses, events, server, cache, fetch, failed, open, excused>>
    BY <1>5 DEF RoomCloses, CloseDialog
  <2>2. \A c \in calls : \E d \in calls' : RoomSame(c, d)
    BY <1>5, RoomBystandersKeepCalls DEF RoomSameCalls
  <2> QED BY <2>1, <2>2, RoomElsewhereFollowed
<1>6. CASE RoomSends
  <2>1. UNCHANGED <<uses, events, server, cache, fetch, failed, open, excused>>
    BY <1>6 DEF RoomSends, ClickCreate, ClickJoin, ClickSave, ClickDelete, ClickRole,
                ClickKick, ClickBan, ClickUnban, ClickInvite, Send
  <2>2. calls \subseteq calls'  BY <1>6, RoomSendsCall
  <2> QED BY <2>1, <2>2, RoomElsewhereFollowed DEF RoomSame
<1>7. ASSUME NEW c \in calls, Process(c) \/ CallSucceeds(c) \/ CallFails(c) PROVE RoomFresh'
  BY <1>7, RoomProcessFollowed, RoomSuccessFollowed, RoomFailureFollowed
<1>8. CASE UNCHANGED vars
  <2>1. UNCHANGED <<uses, events, server, cache, fetch, failed, open, excused, calls>>
    BY <1>8 DEF vars, client
  <2> QED BY <2>1, RoomElsewhereFollowed DEF RoomSame
<1> QED BY <1>1, <1>2, <1>3, <1>4, <1>5, <1>6, <1>7, <1>8, RoomSteps

--------------------------------------------------------------------------------

LEMMA RoomInductiveInv == Spec => []RoomInv
<1>1. RoomInv /\ [Next]_vars => RoomInv'
  BY RoomTypesStep, RoomFreshStep, RoomOfferedStep DEF RoomInv
<1> QED BY RoomInitInv, <1>1, PTL DEF Spec

\* In the dialogs of a room: once requests and events are in, a query that is
\* shown and not being fetched has what the server has, but for changes that
\* nothing told of or whose event, answer or fetch was lost or came too late;
\* for any number of bans, changes and requests, in any pane.
THEOREM OnlyUntoldChangesStaleAlways == Spec => []OnlyUntoldChangesStale
<1>1. RoomInv => OnlyUntoldChangesStale
  <2> SUFFICES ASSUME RoomInv, NEW q \in Queries, calls = {}, events = 0,
                      Active(q), fetch[q] = None, cache[q] # None,
                      q = "detail" => ~failed
               PROVE  cache[q] = Relation[q] \/ q \in excused
    BY DEF OnlyUntoldChangesStale
  <2>1. q \in PaneQueries[uses]  BY DEF Active
  <2>2. ~RoomComing(q) /\ ~RoomIdle(q)  BY DEF RoomComing, RoomIdle
  <2>3. Relation[q] # None /\ None # Asked
    BY RoomRelationIs, RoomValues DEF RoomInv, RoomTypes
  <2> QED BY <2>1, <2>2, <2>3 DEF RoomInv, RoomFresh, RoomFollowed, RoomUpToDate
<1> QED BY RoomInductiveInv, <1>1, PTL

\* A button of a room's dialogs is refused only when what it was drawn from is
\* no longer what the server has: the roles and ranks the client looks at are
\* those the server asks for.
THEOREM OnlyStaleOffersRefusedAlways == Spec => []OnlyStaleOffersRefused
<1>1. RoomInv => OnlyStaleOffersRefused
  BY DEF RoomInv
<1> QED BY RoomInductiveInv, <1>1, PTL

================================================================================
