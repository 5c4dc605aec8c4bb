------------------------------ MODULE RoomChannels ------------------------------
(***************************************************************************)
(* Who receives a room's events: the socket.io channels room:{id} and      *)
(* user:{id} (rooms/rooms.gateway.ts, dm/dm.gateway.ts), kept by the       *)
(* controller (rooms/rooms.controller.ts) on top of Rooms.                 *)
(*                                                                         *)
(* A connecting socket enters user:{id} at once, then reads the user's     *)
(* memberships and enters room:{id} for each.  A request that makes a      *)
(* membership ends by fetching the sockets of user:{id} and putting them   *)
(* into room:{id}.  Every room event is emitted to all of room:{id}.       *)
(***************************************************************************)
EXTENDS Rooms

CONSTANT Sockets    \* connections; the id of one is never used again

VARIABLES
    conn,       \* connection: [user, phase]
    channel,    \* the sockets in room:{id}
    fetched     \* per handler: the sockets joinRoomSockets has fetched

channelVars == <<conn, channel, fetched>>
allVars == <<vars, channelVars>>

Phases == {"new", "listing", "joining", "on", "gone"}
NotFetched == [done |-> FALSE, sockets |-> {}]

ChannelsTypeOK ==
    /\ TypeOK
    /\ conn \in [Sockets -> [user : Users \cup {NoUser}, phase : Phases]]
    /\ channel \in SUBSET Sockets
    /\ fetched \in [Handlers -> [done : BOOLEAN, sockets : SUBSET Sockets]]

ChannelsInit ==
    /\ Init
    /\ conn = [s \in Sockets |-> [user |-> NoUser, phase |-> "new"]]
    /\ channel = {}
    /\ fetched = [h \in Handlers |-> NotFetched]

\* The sockets in user:{u}.
UserChannel(u) ==
    {s \in Sockets : conn[s].user = u /\ conn[s].phase \in {"listing", "joining", "on"}}

SetPhase(s, phase) == conn' = [conn EXCEPT ![s].phase = phase]

--------------------------------------------------------------------------------
(* The gateway: one action per await of handleConnection *)

\* Both gateways see the connection in the same tick: the DM gateway enters
\* user:{id}, the rooms gateway sends the query of listMyRooms.
Connect(s, u) ==
    /\ conn[s].phase = "new"
    /\ conn' = [conn EXCEPT ![s] = [user |-> u, phase |-> "listing"]]
    /\ UNCHANGED <<vars, channel, fetched>>

\* listMyRooms has read the memberships.
ListMyRooms(s) ==
    /\ conn[s].phase = "listing"
    /\ SetPhase(s, IF IsMember(conn[s].user) THEN "joining" ELSE "on")
    /\ UNCHANGED <<vars, channel, fetched>>

JoinListed(s) ==
    /\ conn[s].phase = "joining"
    /\ SetPhase(s, "on")
    /\ channel' = channel \cup {s}
    /\ UNCHANGED <<vars, fetched>>

\* socket.io drops a closed connection from every channel.
Disconnect(s) ==
    /\ conn[s].phase \in {"listing", "joining", "on"}
    /\ SetPhase(s, "gone")
    /\ channel' = channel \ {s}
    /\ UNCHANGED <<vars, fetched>>

--------------------------------------------------------------------------------
(* The controller, after the service has committed *)

\* Mutant: an invited user's sockets are forgotten.
AddsMember_NotInvited(h) == At(h, "done") /\ req[h].op \in {"create", "join"}

AddsMember(h) == At(h, "done") /\ req[h].op \in {"create", "join", "invite"}

\* joinRoomSockets: fetchSockets of user:{id}.
FetchSockets(h) ==
    /\ AddsMember(h)
    /\ ~fetched[h].done
    /\ fetched' = [fetched EXCEPT ![h] =
                    [done |-> TRUE, sockets |-> UserChannel(req[h].target)]]
    /\ UNCHANGED <<vars, conn, channel>>

\* Those still connected enter room:{id}; then the event goes out.
JoinRoomSockets(h) ==
    /\ AddsMember(h)
    /\ fetched[h].done
    /\ channel' = channel \cup (fetched[h].sockets \cap UserChannel(req[h].target))
    /\ fetched' = [fetched EXCEPT ![h] = NotFetched]
    /\ Reply(h)
    /\ UNCHANGED conn

\* leave, kick and ban emit to room:{id}; nobody is taken out of it.
OtherReply(h) ==
    /\ ~AddsMember(h)
    /\ Reply(h)
    /\ UNCHANGED channelVars

ServiceStep(h) == (Arrive(h) \/ Proceed(h)) /\ UNCHANGED channelVars

ChannelsNext ==
    \/ \E h \in Handlers :
         ServiceStep(h) \/ FetchSockets(h) \/ JoinRoomSockets(h) \/ OtherReply(h)
    \/ \E s \in Sockets :
         \/ \E u \in Users : Connect(s, u)
         \/ ListMyRooms(s)
         \/ JoinListed(s)
         \/ Disconnect(s)

ChannelsSpec == ChannelsInit /\ [][ChannelsNext]_allVars

--------------------------------------------------------------------------------
(* Safety *)

\* A request that will still put s into room:{id}.
WillJoin(h, s) ==
    /\ AddsMember(h)
    /\ req[h].target = conn[s].user
    /\ fetched[h].done => s \in fetched[h].sockets

\* No member misses the room's events: a connected client whose connection
\* handler has finished is in room:{id} if its user is a member, unless the
\* request that made the membership is about to put it there - in whatever
\* order the connection, the membership and the fetch happened.
MembersHearRoom ==
    \A s \in Sockets :
        /\ conn[s].phase = "on"
        /\ IsMember(conn[s].user)
        => s \in channel \/ \E h \in Handlers : WillJoin(h, s)

\* "Losing access means losing access [...] AND socket event": while the room
\* exists, only members' sockets are in room:{id}.
OnlyMembersHearRoom ==
    room.status = "present" => \A s \in channel : IsMember(conn[s].user)
================================================================================
