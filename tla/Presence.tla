-------------------------------- MODULE Presence --------------------------------
(***************************************************************************)
(* Online status of one user: PresenceService (presence/presence.service.ts) *)
(* over Redis, behind PresenceGateway (presence/presence.gateway.ts), and   *)
(* what the user's friends are told.  No Redis key of one user is read or   *)
(* written for another, so one user is enough.                              *)
(*                                                                         *)
(* All Redis commands of the process go through one connection, which       *)
(* answers them in order, and a job sends its next command when it gets the *)
(* answer to the last: `queue` holds the jobs with a command outstanding,   *)
(* and only its head can take a step.  A job that waits for the friends     *)
(* query (Prisma), or a sweep busy with other users, is outside the queue   *)
(* for as long as that takes.                                               *)
(*                                                                         *)
(* Time is abstracted: an entry of a sorted set is past its limit or not.   *)
(***************************************************************************)
EXTENDS Naturals, Sequences

CONSTANTS
    Tabs,       \* browser tabs
    Jobs,       \* heartbeats and tab removals in progress at the same time
    Sweepers    \* sweeps in progress at the same time: setInterval awaits none

ASSUME SweepersAssumption == Sweepers \cap Jobs = {}

VARIABLES
    open,       \* tabs that are open in the browser
    tabs,       \* presence:user:{id}:tabs: absent, live, or expired (score < now)
    activity,   \* presence:user:{id}:activity: absent, recent (<= 60 s), or old
    tracked,    \* the user is in presence:tracked
    status,     \* presence:user:{id}:status
    told,       \* the status friends were last sent
    queue,      \* jobs with a Redis command outstanding, in order
    job,        \* what each job is doing
    collided    \* history: a heartbeat wrote while a job was taking the user offline

redis == <<tabs, activity, tracked, status>>
presenceVars == <<open, tabs, activity, tracked, status, told, queue, job, collided>>

--------------------------------------------------------------------------------

AllJobs == Jobs \cup Sweepers

\* tab and isActive are those of a heartbeat or removal, newStatus the derived one.
Idle(tab) == [pc |-> "idle", tab |-> tab, isActive |-> FALSE, newStatus |-> "none"]

SomeTab == CHOOSE t \in Tabs : TRUE

PresenceInit ==
    /\ open = {}
    /\ tabs = [t \in Tabs |-> "absent"]
    /\ activity = [t \in Tabs |-> "absent"]
    /\ tracked = FALSE
    /\ status = "none"
    /\ told = "none"
    /\ queue = <<>>
    /\ job = [j \in AllJobs |-> Idle(SomeTab)]
    /\ collided = FALSE

\* A new job sends its first command.
Send(j, record) ==
    /\ job[j].pc = "idle"
    /\ job' = [job EXCEPT ![j] = record]
    /\ queue' = Append(queue, j)

\* The head of the queue is answered and goes on at pc with another command ...
Answered(j, pc) == queue # <<>> /\ Head(queue) = j /\ job[j].pc = pc
Continue(j, pc) ==
    /\ job' = [job EXCEPT ![j].pc = pc]
    /\ queue' = Append(Tail(queue), j)
\* ... or leaves Redis alone, for good or to wait for something else.
Leave(j, pc) ==
    /\ job' = [job EXCEPT ![j] = IF pc = "idle" THEN Idle(SomeTab)
                                 ELSE [@ EXCEPT !.pc = pc]]
    /\ queue' = Tail(queue)

--------------------------------------------------------------------------------
(* The browser *)

\* handleConnection with a tabId records an active heartbeat.
Open(j, t) ==
    /\ t \notin open
    /\ open' = open \cup {t}
    /\ Send(j, [Idle(t) EXCEPT !.pc = "zaddTab", !.isActive = TRUE])
    /\ UNCHANGED <<redis, told, collided>>

\* isActive is what the tab says; the user may come and go between two heartbeats.
Heartbeat(j, t, isActive) ==
    /\ t \in open
    /\ Send(j, [Idle(t) EXCEPT !.pc = "zaddTab", !.isActive = isActive])
    /\ UNCHANGED <<open, redis, told, collided>>

\* handleDisconnect of a socket that gave its tabId.
Close(j, t) ==
    /\ t \in open
    /\ open' = open \ {t}
    /\ Send(j, [Idle(t) EXCEPT !.pc = "zremTab"])
    /\ UNCHANGED <<redis, told, collided>>

\* A socket that gave no tabId disconnects, or the server is not told.
Vanish(t) ==
    /\ t \in open
    /\ open' = open \ {t}
    /\ UNCHANGED <<redis, told, queue, job, collided>>

\* TAB_TTL_MS passes without a heartbeat.
ExpireTab(t) ==
    /\ tabs[t] = "live"
    /\ tabs' = [tabs EXCEPT ![t] = "expired"]
    /\ UNCHANGED <<open, activity, tracked, status, told, queue, job, collided>>

\* AFK_THRESHOLD_MS passes without activity.
AgeActivity(t) ==
    /\ activity[t] = "recent"
    /\ activity' = [activity EXCEPT ![t] = "old"]
    /\ UNCHANGED <<open, tabs, tracked, status, told, queue, job, collided>>

--------------------------------------------------------------------------------
(* recordHeartbeat *)

\* Some other job has derived "offline" and has not finished with it.
TakingOffline(j) == \E k \in AllJobs \ {j} : job[k].newStatus = "offline"
HeartbeatWrite(j) == collided' = (collided \/ TakingOffline(j))

ZaddTab(j) ==
    /\ Answered(j, "zaddTab") /\ HeartbeatWrite(j)
    /\ tabs' = [tabs EXCEPT ![job[j].tab] = "live"]
    /\ Continue(j, IF job[j].isActive THEN "zaddActivity" ELSE "sadd")
    /\ UNCHANGED <<open, activity, tracked, status, told>>

ZaddActivity(j) ==
    /\ Answered(j, "zaddActivity") /\ HeartbeatWrite(j)
    /\ activity' = [activity EXCEPT ![job[j].tab] = "recent"]
    /\ Continue(j, "sadd")
    /\ UNCHANGED <<open, tabs, tracked, status, told>>

Sadd(j) ==
    /\ Answered(j, "sadd") /\ HeartbeatWrite(j)
    /\ tracked' = TRUE
    /\ Leave(j, "idle")
    /\ UNCHANGED <<open, tabs, activity, status, told>>

--------------------------------------------------------------------------------
(* removeTab and runSweep, up to deriveStatus *)

ZremTab(j) ==
    /\ Answered(j, "zremTab")
    /\ tabs' = [tabs EXCEPT ![job[j].tab] = "absent"]
    /\ Continue(j, "zremActivity")
    /\ UNCHANGED <<open, activity, tracked, status, told, collided>>

ZremActivity(j) ==
    /\ Answered(j, "zremActivity")
    /\ activity' = [activity EXCEPT ![job[j].tab] = "absent"]
    /\ Continue(j, "purge")
    /\ UNCHANGED <<open, tabs, tracked, status, told, collided>>

\* The timer fires.
StartSweep(j) ==
    /\ Send(j, [Idle(SomeTab) EXCEPT !.pc = "smembers"])
    /\ UNCHANGED <<open, redis, told, collided>>

Smembers(j) ==
    /\ Answered(j, "smembers")
    /\ Leave(j, IF tracked THEN "otherUsers" ELSE "idle")
    /\ UNCHANGED <<open, redis, told, collided>>

\* The users before this one in the snapshot are done.
ReachUser(j) ==
    /\ job[j].pc = "otherUsers"
    /\ job' = [job EXCEPT ![j].pc = "purge"]
    /\ queue' = Append(queue, j)
    /\ UNCHANGED <<open, redis, told, collided>>

--------------------------------------------------------------------------------
(* deriveStatus *)

Purge(j) ==
    /\ Answered(j, "purge")
    /\ tabs' = [t \in Tabs |-> IF tabs[t] = "expired" THEN "absent" ELSE tabs[t]]
    /\ Continue(j, "zcard")
    /\ UNCHANGED <<open, activity, tracked, status, told, collided>>

Derived(j, newStatus) ==
    /\ job' = [job EXCEPT ![j].pc = "get", ![j].newStatus = newStatus]
    /\ queue' = Append(Tail(queue), j)

CountTabs(j) ==
    /\ Answered(j, "zcard")
    /\ IF \A t \in Tabs : tabs[t] = "absent"
       THEN Derived(j, "offline")
       ELSE Continue(j, "top")
    /\ UNCHANGED <<open, redis, told, collided>>

\* The latest activity of any tab, one that is gone included.
LatestActivity(j) ==
    /\ Answered(j, "top")
    /\ Derived(j, IF \E t \in Tabs : activity[t] = "recent" THEN "online" ELSE "afk")
    /\ UNCHANGED <<open, redis, told, collided>>

--------------------------------------------------------------------------------
(* maybeEmit *)

GetStatus(j) ==
    /\ Answered(j, "get")
    /\ IF status = job[j].newStatus THEN Leave(j, "idle") ELSE Continue(j, "set")
    /\ UNCHANGED <<open, redis, told, collided>>

SetStatus(j) ==
    /\ Answered(j, "set")
    /\ status' = job[j].newStatus
    /\ Leave(j, "friends")
    /\ UNCHANGED <<open, tabs, activity, tracked, told, collided>>

\* Mutant: an afk user is cleaned up too.
CleansUp_Afk(newStatus) == newStatus # "online"

CleansUp(newStatus) == newStatus = "offline"

\* The friends query is answered: emit, and clean up after an offline user.
EmitPresenceChanged(j) ==
    /\ job[j].pc = "friends"
    /\ told' = job[j].newStatus
    /\ IF CleansUp(job[j].newStatus)
       THEN /\ job' = [job EXCEPT ![j].pc = "delTabs"]
            /\ queue' = Append(queue, j)
       ELSE /\ job' = [job EXCEPT ![j] = Idle(SomeTab)]
            /\ UNCHANGED queue
    /\ UNCHANGED <<open, redis, collided>>

DelTabs(j) ==
    /\ Answered(j, "delTabs")
    /\ tabs' = [t \in Tabs |-> "absent"]
    /\ Continue(j, "delActivity")
    /\ UNCHANGED <<open, activity, tracked, status, told, collided>>

DelActivity(j) ==
    /\ Answered(j, "delActivity")
    /\ activity' = [t \in Tabs |-> "absent"]
    /\ Continue(j, "srem")
    /\ UNCHANGED <<open, tabs, tracked, status, told, collided>>

Srem(j) ==
    /\ Answered(j, "srem")
    /\ tracked' = FALSE
    /\ Leave(j, "idle")
    /\ UNCHANGED <<open, tabs, activity, status, told, collided>>

--------------------------------------------------------------------------------

Browser ==
    \/ \E j \in Jobs, t \in Tabs :
         \/ Open(j, t) \/ Close(j, t)
         \/ \E isActive \in BOOLEAN : Heartbeat(j, t, isActive)
    \/ \E t \in Tabs : Vanish(t)

\* The head of the Redis queue.
RedisStep ==
    \/ \E j \in AllJobs :
         \/ ZaddTab(j) \/ ZaddActivity(j) \/ Sadd(j)
         \/ ZremTab(j) \/ ZremActivity(j)
         \/ Purge(j) \/ CountTabs(j) \/ LatestActivity(j)
         \/ GetStatus(j) \/ SetStatus(j)
         \/ DelTabs(j) \/ DelActivity(j) \/ Srem(j)
         \/ Smembers(j)

PresenceNext ==
    \/ Browser
    \/ RedisStep
    \/ \E j \in Sweepers : StartSweep(j) \/ ReachUser(j)
    \/ \E j \in AllJobs : EmitPresenceChanged(j)
    \/ \E t \in Tabs : ExpireTab(t) \/ AgeActivity(t)

\* Redis and PostgreSQL answer, the timer goes on firing, time passes; nobody
\* has to open, close or touch a tab.
Fairness ==
    /\ WF_presenceVars(RedisStep)
    /\ WF_presenceVars(\E j \in Sweepers : StartSweep(j))
    /\ \A j \in Sweepers : WF_presenceVars(ReachUser(j))
    /\ \A j \in AllJobs : WF_presenceVars(EmitPresenceChanged(j))
    /\ \A t \in Tabs : WF_presenceVars(ExpireTab(t))

PresenceSpec == PresenceInit /\ [][PresenceNext]_presenceVars /\ Fairness

--------------------------------------------------------------------------------
(* Properties *)

AllClosed == open = {}

\* A user who is gone shows as offline: once the last tab is closed for good,
\* however it went, the status key settles at offline (or was never written).
GoneBecomesOffline == <>[]AllClosed => <>[](status \in {"none", "offline"})

\* Only a heartbeat that lands in the middle of an offline transition can spoil
\* that: whatever else overlaps - removals, sweeps, expiry, tabs that vanish -
\* the status settles.
OnlyCollisionsStickStatus ==
    [](~collided) => GoneBecomesOffline

\* Nobody is shown whom no sweep will find: with no command outstanding, a user
\* who is shown online or afk is tracked.  Redis does not see to that: an offline
\* transition drops the user from presence:tracked whatever the status has become
\* meanwhile, while jobs that had counted a tab before it went set it again.
NobodyForgotten ==
    ~collided /\ queue = <<>> => status \in {"none", "offline"} \/ tracked
================================================================================
