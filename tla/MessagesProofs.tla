----------------------------- MODULE MessagesProofs -----------------------------
(***************************************************************************)
(* What the messages of one chat keep, for any number of users, requests,  *)
(* messages and texts.                                                     *)
(*                                                                         *)
(* Two requests that work on one message put it into `raced' for good, so  *)
(* a message outside has one request at most (OneRequest).  AloneInv says  *)
(* what that request has found or written and may still rely on, ClientInv *)
(* what it still owes the clients; AlwaysInv holds of raced messages too.  *)
(***************************************************************************)
EXTENDS Messages, TLAPS

Ops == {"send", "edit", "delete", "react"}

Request == [op : Ops \cup {"idle"}, step : Nat, rest : BOOLEAN, actor : Users \cup {None},
            id : Ids \cup {None}, text : Texts \cup {None}, mod : BOOLEAN,
            found : BOOLEAN, payload : Payload \cup {None}]

\* The await a request is at.
Pc(r) == Path(r.op)[r.step]

Types ==
    /\ kind \in {"ROOM", "DM"}
    /\ rows \in [Ids -> Row \cup {None}]
    /\ seen \in [Ids -> Payload \cup {None}]
    /\ reactions \in SUBSET (Ids \X Users)
    /\ req \in [Handlers -> Request]

\* The shape of a request; only a send that has not inserted has no message.
ShapeInv(r) ==
    /\ r.op = "idle" => r.id = None
    /\ r.op # "idle" =>
         /\ r.step \in DOMAIN Path(r.op)
         /\ r.actor \in Users
         /\ r.op # "send" => r.id # None
         /\ r.op = "send" => (r.id = None <=> Pc(r) \in {"member", "ban", "insert"})
         /\ r.op \in {"send", "edit"} => r.text \in Texts
         /\ r.op = "send" => r.rest = FALSE
         /\ r.op \in {"edit", "react"} /\ Pc(r) = "emit" => r.payload # None
         /\ r.op = "send" /\ r.id # None => r.payload # None
    /\ r.id # None => rows[r.id] # None

\* What holds of a written message even when others work on it.
AlwaysInv(r) ==
    /\ r.op = "send" /\ r.id # None => seen[r.id] = None /\ r.payload.deleted = FALSE
    /\ r.op = "edit" /\ Pc(r) = "emit" /\ r.payload.deleted = TRUE =>
           rows[r.id].deleted = TRUE
    /\ r.op = "delete" /\ Pc(r) = "emit" => rows[r.id].deleted = TRUE

\* Payload p is what the tables hold of message i.
Current(p, i) ==
    /\ p.text = rows[i].text /\ p.deleted = rows[i].deleted
    /\ kind = "ROOM" => p.reactions = Reactors(i)

\* What the only request on a message may rely on.
AloneInv(r) ==
    r.id # None /\ r.id \notin raced =>
        /\ r.op = "edit" /\ kind = "DM" /\ Pc(r) = "update" => rows[r.id].deleted = FALSE
        /\ r.op = "send" => Current(r.payload, r.id)
        /\ r.op = "edit" /\ Pc(r) = "emit" => Current(r.payload, r.id)
        /\ r.op = "react" /\ Pc(r) = "emit" => r.payload.reactions = Reactors(r.id)

\* What the clients show while that request has still to tell them the rest.
ClientInv(r) ==
    r.id # None /\ r.id \notin raced /\ r.id \notin silent /\ Pc(r) \in {"list", "emit"} =>
        /\ r.op # "send" => seen[r.id] # None
        /\ r.op = "delete" => /\ seen[r.id].text = rows[r.id].text
                              /\ kind = "ROOM" => seen[r.id].reactions = Reactors(r.id)
        /\ r.op = "react" => /\ seen[r.id].text = rows[r.id].text
                             /\ seen[r.id].deleted = rows[r.id].deleted

ReqInv(r) == ShapeInv(r) /\ AlwaysInv(r) /\ AloneInv(r) /\ ClientInv(r)

RequestsInv == \A h \in Handlers : ReqInv(req[h])

OneRequest ==
    \A g, h \in Handlers : g # h /\ req[g].id = req[h].id /\ req[g].id # None =>
        /\ req[g].id \in raced
        /\ ~(req[g].op = "send" /\ req[h].op = "send")

\* The request has something to tell the clients.
Owes(r) == r.op = "send" \/ Pc(r) \in {"list", "emit"}

\* What is told of a message is what the tables hold, once everything is told;
\* a message that is not there has left no trace, and a deletion told is done.
ShownInv ==
    /\ \A i \in Ids : rows[i] = None =>
           seen[i] = None /\ Reactors(i) = {}
    /\ \A i \in Ids : seen[i] # None /\ seen[i].deleted = TRUE => rows[i].deleted = TRUE
    /\ \A i \in Ids \ (raced \cup silent) :
           rows[i] # None /\ (\A h \in Handlers : req[h].id = i => ~Owes(req[h])) =>
               seen[i] # None /\ Current(seen[i], i)

IInv == Types /\ RequestsInv /\ OneRequest /\ ShownInv /\ ReactionsCountToggles

USE NoneAssumption, RecordsAssumption

--------------------------------------------------------------------------------
(* The paths *)

\* What is known of a request of kind op at pc, whose next await is next.
Follows(op, pc, next) ==
    /\ pc \in {"member", "ban", "find", "lookup"} => next \notin {"username", "list", "emit"}
    /\ pc = "ban" => op \in {"send", "react"}
    /\ pc = "find" => op # "send"
    /\ op = "send" /\ pc \in {"member", "ban"} => next \in {"member", "ban", "insert"}
    /\ op = "edit" /\ pc # "emit" /\ next = "update" => pc = "find"
    /\ pc = "insert" => op = "send" /\ next \in {"username", "emit"}
    /\ pc = "username" => op = "send" /\ next = "emit"
    /\ pc = "update" => op = "edit" /\ next = "emit"
    /\ pc = "remove" => op = "delete" /\ next = "emit"
    /\ pc \in {"lookup", "toggle", "list"} => op = "react"
    /\ pc = "toggle" => next = "list"
    /\ pc = "list" => next = "emit"

LEMMA PathFacts ==
    ASSUME NEW STATE op, NEW STATE s, kind \in {"ROOM", "DM"}, op \in Ops,
           s \in DOMAIN Path(op)
    PROVE  /\ s \in Nat
           /\ Path(op)[s] # "emit" => s + 1 \in DOMAIN Path(op)
           /\ Follows(op, Path(op)[s], Path(op)[s + 1])
<1> USE DEF Follows
<1>1. CASE op = "send"
  <2>1. CASE kind = "ROOM"
    <3>1. Path(op) = <<"member", "ban", "insert", "emit">>
      BY <1>1, <2>1 DEF Path, RoomPath
    <3> QED BY <1>1, <3>1
  <2>2. CASE kind = "DM"
    <3>1. Path(op) = <<"member", "insert", "username", "emit">>
      BY <1>1, <2>2 DEF Path, DmPath
    <3> QED BY <1>1, <3>1
  <2> QED BY <2>1, <2>2
<1>2. CASE op = "edit"
  <2>1. CASE kind = "ROOM"
    <3>1. Path(op) = <<"member", "find", "update", "emit">>
      BY <1>2, <2>1 DEF Path, RoomPath
    <3> QED BY <1>2, <3>1
  <2>2. CASE kind = "DM"
    <3>1. Path(op) = <<"find", "update", "emit">>
      BY <1>2, <2>2 DEF Path, DmPath
    <3> QED BY <1>2, <3>1
  <2> QED BY <2>1, <2>2
<1>3. CASE op = "delete"
  <2>1. CASE kind = "ROOM"
    <3>1. Path(op) = <<"member", "find", "remove", "emit">>
      BY <1>3, <2>1 DEF Path, RoomPath
    <3> QED BY <1>3, <3>1
  <2>2. CASE kind = "DM"
    <3>1. Path(op) = <<"find", "remove", "emit">>
      BY <1>3, <2>2 DEF Path, DmPath
    <3> QED BY <1>3, <3>1
  <2> QED BY <2>1, <2>2
<1>4. CASE op = "react"
  <2>1. CASE kind = "ROOM"
    <3>1. Path(op) = <<"member", "ban", "find", "lookup", "toggle", "list", "emit">>
      BY <1>4, <2>1 DEF Path, RoomPath
    <3> QED BY <1>4, <3>1
  <2>2. CASE kind = "DM"
    <3>1. Path(op) = <<"member", "lookup", "toggle", "list", "emit">>
      BY <1>4, <2>2 DEF Path, DmPath
    <3> QED BY <1>4, <3>1
  <2> QED BY <2>1, <2>2
<1> QED BY <1>1, <1>2, <1>3, <1>4 DEF Ops

--------------------------------------------------------------------------------
(* The initial states, and steps that touch nothing *)

LEMMA IdleInv == Idle \in Request /\ Idle.op = "idle" /\ Idle.id = None
  BY DEF Idle, Request

LEMMA InitInv == Init => IInv
<1> SUFFICES ASSUME Init PROVE IInv  OBVIOUS
<1> USE DEF Init
<1>1. Types  BY IdleInv DEF Types
<1>2. RequestsInv
  BY IdleInv DEF RequestsInv, ReqInv, ShapeInv, AlwaysInv, AloneInv, ClientInv
<1>3. OneRequest  BY IdleInv DEF OneRequest
<1>4. ShownInv /\ ReactionsCountToggles
  BY DEF ShownInv, Reactors, ReactionsCountToggles
<1> QED BY <1>1, <1>2, <1>3, <1>4 DEF IInv

LEMMA UntouchedInv ==
    ASSUME IInv, UNCHANGED <<kind, rows, reactions, seen, req, history>>
    PROVE  IInv'
<1> USE DEF history
<1>1. Types'  BY DEF IInv, Types
<1>2. RequestsInv'
  <2>1. ASSUME NEW g \in Handlers PROVE ReqInv(req[g])'
    <3>1. req'[g] = req[g] /\ (Path(req[g].op))' = Path(req[g].op)
          /\ Pc(req[g])' = Pc(req[g])
      BY DEF Pc, Path
    <3>2. ReqInv(req[g])  BY DEF IInv, RequestsInv
    <3>3. ShapeInv(req[g])'  BY <3>1, <3>2 DEF ReqInv, ShapeInv
    <3>4. AlwaysInv(req[g])'  BY <3>1, <3>2 DEF ReqInv, AlwaysInv
    <3>5. AloneInv(req[g])'  BY <3>1, <3>2 DEF ReqInv, AloneInv, Current, Reactors
    <3>6. ClientInv(req[g])'  BY <3>1, <3>2 DEF ReqInv, ClientInv, Current, Reactors
    <3> QED BY <3>3, <3>4, <3>5, <3>6 DEF ReqInv
  <2> QED BY <2>1 DEF RequestsInv
<1>3. OneRequest' /\ ReactionsCountToggles'
  BY DEF IInv, OneRequest, ReactionsCountToggles
<1>4. ShownInv'  BY DEF IInv, ShownInv, Owes, Current, Reactors, Pc, Path
<1> QED BY <1>1, <1>2, <1>3, <1>4 DEF IInv

--------------------------------------------------------------------------------
(* A step of one request on one message *)

\* The step changes nothing of other messages than i, and removes no message
\* and no deletion.
Only(i) ==
    /\ UNCHANGED kind
    /\ raced \subseteq raced' /\ silent \subseteq silent'
    /\ \A j \in Ids : rows[j] # None =>
           /\ rows'[j] # None
           /\ rows[j].deleted = TRUE => rows'[j].deleted = TRUE
    /\ \A j \in Ids : j # i =>
           rows'[j] = rows[j] /\ seen'[j] = seen[j] /\ Reactors(j)' = Reactors(j)

\* Another request is not on message i, or raced on it.
LEMMA KeptInv ==
    ASSUME IInv, NEW STATE i, Only(i), NEW g \in Handlers, req'[g] = req[g],
           req[g].id = i /\ i # None =>
               i \in raced' /\ (req[g].op = "send" => seen'[i] = None)
    PROVE  ReqInv(req[g])'
<1>0. /\ ShapeInv(req[g]) /\ AlwaysInv(req[g]) /\ AloneInv(req[g]) /\ ClientInv(req[g])
      /\ req[g] \in Request /\ req[g].id \in Ids \cup {None}
      /\ Pc(req[g])' = Pc(req[g]) /\ UNCHANGED kind
      /\ (Path(req[g].op))' = Path(req[g].op)
  BY DEF IInv, Types, RequestsInv, ReqInv, Request, Only, Pc, Path
<1>1. ShapeInv(req[g])'  BY <1>0 DEF ShapeInv, Only
<1>2. AlwaysInv(req[g])'
  <2>1. CASE req[g].id = i  BY <1>0, <2>1 DEF AlwaysInv, ShapeInv, Only
  <2>2. CASE req[g].id # i  BY <1>0, <2>2 DEF AlwaysInv, ShapeInv, Only
  <2> QED BY <2>1, <2>2
<1>3. AloneInv(req[g])'  BY <1>0 DEF AloneInv, Only, Current
<1>4. ClientInv(req[g])'  BY <1>0 DEF ClientInv, Only
<1> QED BY <1>1, <1>2, <1>3, <1>4 DEF ReqInv

\* If request h, on message i or on none, becomes r, it is enough to look at h
\* and at i.
LEMMA StepInv ==
    ASSUME IInv, Types', ReactionsCountToggles', NEW h \in Handlers, NEW STATE r,
           NEW STATE i, Only(i),
           i \in Ids \cup {None}, req' = [req EXCEPT ![h] = r], ReqInv(req[h])',
           req[h].id \in {i, None}, r.id \in {i, None},
           \A g \in Handlers \ {h} : req[g].id = i /\ i # None =>
               /\ i \in raced'
               /\ r.id = i => ~(req[g].op = "send" /\ r.op = "send")
               /\ req[g].op = "send" => seen'[i] = None,
           \A j \in Ids : j = i =>
               /\ rows'[j] = None => seen'[j] = None /\ Reactors(j)' = {}
               /\ seen'[j] # None /\ seen'[j].deleted = TRUE => rows'[j].deleted = TRUE
               /\ j \notin raced' /\ j \notin silent' /\ rows'[j] # None
                  /\ (r.id = j => ~Owes(req[h])') =>
                      seen'[j] # None /\ Current(seen[j], j)'
    PROVE  IInv'
<1>0. req'[h] = r /\ \A g \in Handlers \ {h} : req'[g] = req[g]
  BY DEF IInv, Types
<1>1. RequestsInv'
  <2>1. ASSUME NEW g \in Handlers \ {h} PROVE ReqInv(req[g])'
    BY <1>0, KeptInv
  <2> QED BY <2>1 DEF RequestsInv
<1>2. OneRequest'
  BY <1>0 DEF IInv, OneRequest, Only
<1>3. ShownInv'
  <2>1. ASSUME NEW j \in Ids, rows'[j] = None PROVE seen'[j] = None /\ Reactors(j)' = {}
    <3>1. CASE j = i  BY <2>1, <3>1
    <3>2. CASE j # i  BY <2>1, <3>2 DEF IInv, ShownInv, Only
    <3> QED BY <3>1, <3>2
  <2>2. ASSUME NEW j \in Ids, seen'[j] # None /\ seen'[j].deleted = TRUE
        PROVE  rows'[j].deleted = TRUE
    <3>1. CASE j = i  BY <2>2, <3>1
    <3>2. CASE j # i
      <4>1. rows[j].deleted = TRUE  BY <2>2, <3>2 DEF IInv, ShownInv, Only
      <4> QED BY <3>2, <4>1 DEF Only
    <3> QED BY <3>1, <3>2
  <2>3. ASSUME NEW j \in Ids, j \notin raced' \cup silent', rows'[j] # None,
               \A g \in Handlers : req'[g].id = j => ~Owes(req[g])'
        PROVE  seen'[j] # None /\ Current(seen[j], j)'
    <3>1. CASE j = i
      <4>1. r.id = j => ~Owes(req[h])'  BY <1>0, <2>3
      <4> QED BY <2>3, <3>1, <4>1
    <3>2. CASE j # i
      <4>1. \A g \in Handlers : req[g].id = j => ~Owes(req[g])
        <5> SUFFICES ASSUME NEW g \in Handlers, req[g].id = j PROVE ~Owes(req[g])
          OBVIOUS
        <5>1. g # h  BY <3>2
        <5> QED BY <5>1, <1>0, <2>3 DEF Owes, Pc, Path, Only
      <4>2. seen[j] # None /\ Current(seen[j], j)
        BY <2>3, <3>2, <4>1 DEF IInv, ShownInv, Only
      <4> QED BY <3>2, <4>2 DEF Only, Current
    <3> QED BY <3>1, <3>2
  <2> QED BY <2>1, <2>2, <2>3 DEF ShownInv
<1> QED BY <1>1, <1>2, <1>3 DEF IInv

\* The only request on a message that owes nothing finds it shown as it is.
LEMMA AloneCurrent ==
    ASSUME IInv, NEW h \in Handlers, NEW STATE i, i \in Ids, rows[i] # None,
           i \notin raced, i \notin silent, \A g \in Handlers \ {h} : req[g].id # i,
           req[h].id = i => ~Owes(req[h])
    PROVE  seen[i] # None /\ Current(seen[i], i)
  BY DEF IInv, ShownInv

\* A step that changes nothing but the request, and perhaps raced.
LEMMA MoveInv ==
    ASSUME IInv, NEW h \in Handlers, NEW STATE r, NEW STATE i,
           UNCHANGED <<tables, seen, toggled, silent>>, raced \subseteq raced',
           i \in Ids \cup {None}, r \in Request, req' = [req EXCEPT ![h] = r],
           ReqInv(req[h])', req[h].id \in {i, None}, r.id \in {i, None},
           req[h].id = None /\ i # None => r.id = i /\ r.op # "send",
           i # None /\ r.id = i /\ r.op = "send" => req[h].op = "send",
           \A g \in Handlers \ {h} : req[g].id = i /\ i # None /\ r.id = i => i \in raced',
           req[h].id = i /\ i # None /\ Owes(req[h]) =>
               i \in raced' \/ (r.id = i /\ Owes(req[h])')
    PROVE  IInv'
<1> USE DEF tables
<1>1. Types' /\ ReactionsCountToggles'  BY DEF IInv, Types, ReactionsCountToggles
<1>2. Only(i)  BY DEF Only, Reactors
<1>3. ASSUME NEW g \in Handlers \ {h}, req[g].id = i, i # None
      PROVE  /\ i \in raced'
             /\ r.id = i => ~(req[g].op = "send" /\ r.op = "send")
             /\ req[g].op = "send" => seen'[i] = None
  BY <1>3 DEF IInv, OneRequest, RequestsInv, ReqInv, AlwaysInv
<1>4. ASSUME NEW j \in Ids, j = i
      PROVE  /\ rows'[j] = None => seen'[j] = None /\ Reactors(j)' = {}
             /\ seen'[j] # None /\ seen'[j].deleted = TRUE => rows'[j].deleted = TRUE
  BY <1>4 DEF IInv, ShownInv, Reactors
<1>5. ASSUME NEW j \in Ids, j = i, j \notin raced', j \notin silent', rows'[j] # None,
             r.id = j => ~Owes(req[h])'
      PROVE  seen'[j] # None /\ Current(seen[j], j)'
  <2>1. \A g \in Handlers \ {h} : req[g].id # j  BY <1>3, <1>5
  <2>2. ASSUME req[h].id = j PROVE ~Owes(req[h])
    <3>1. req[h].id = i /\ i # None  BY <1>5, <2>2
    <3>2. ~(r.id = i /\ Owes(req[h])')  BY <1>5
    <3> QED BY <3>1, <3>2, <1>5
  <2>3. seen[j] # None /\ Current(seen[j], j)  BY <1>5, <2>1, <2>2, AloneCurrent
  <2> QED BY <2>3 DEF Current, Reactors
<1>6. \A g \in Handlers \ {h} : req[g].id = i /\ i # None =>
          /\ i \in raced'
          /\ r.id = i => ~(req[g].op = "send" /\ r.op = "send")
          /\ req[g].op = "send" => seen'[i] = None
  BY <1>3
<1>7. \A j \in Ids : j = i =>
          /\ rows'[j] = None => seen'[j] = None /\ Reactors(j)' = {}
          /\ seen'[j] # None /\ seen'[j].deleted = TRUE => rows'[j].deleted = TRUE
          /\ j \notin raced' /\ j \notin silent' /\ rows'[j] # None
             /\ (r.id = j => ~Owes(req[h])') =>
                 seen'[j] # None /\ Current(seen[j], j)'
  BY <1>4, <1>5
<1> HIDE DEF tables
<1> QED BY <1>1, <1>2, <1>6, <1>7, StepInv

\* A request that owes nothing, or one that failed, ends.
LEMMA FinishInv ==
    ASSUME IInv, NEW h \in Handlers, Finish(h),
           UNCHANGED <<tables, seen, toggled, silent>>, raced \subseteq raced',
           req[h].id = None \/ ~Owes(req[h]) \/ req[h].id \in raced'
    PROVE  IInv'
<1>1. req' = [req EXCEPT ![h] = Idle]  BY DEF Finish
<1>2. req'[h] = Idle  BY <1>1 DEF IInv, Types
<1>3. ReqInv(req[h])'
  BY <1>2, IdleInv DEF ReqInv, ShapeInv, AlwaysInv, AloneInv, ClientInv
<1>4. req[h].id \in Ids \cup {None}  BY DEF IInv, Types, Request
<1> QED BY <1>1, <1>3, <1>4, IdleInv, MoveInv

LEMMA EndInv ==
    ASSUME IInv, NEW h \in Handlers, End(h), req[h].id = None \/ ~Owes(req[h])
    PROVE  IInv'
  BY FinishInv DEF End, history

LEMMA FailInv == ASSUME IInv, NEW h \in Handlers, Fail(h) PROVE IInv'
  BY FinishInv DEF Fail

--------------------------------------------------------------------------------
(* The actions that write nothing *)

\* What is known of a request that is at an await.
LEMMA AtFacts ==
    ASSUME IInv, NEW h \in Handlers, NEW pc, At(h, pc)
    PROVE  /\ req[h] \in Request /\ req[h].op \in Ops /\ Pc(req[h]) = pc
           /\ req[h].step \in DOMAIN Path(req[h].op) /\ req[h].actor \in Users
           /\ kind \in {"ROOM", "DM"}
           /\ req[h].step \in Nat
           /\ pc # "emit" => req[h].step + 1 \in DOMAIN Path(req[h].op)
           /\ Follows(req[h].op, pc, Path(req[h].op)[req[h].step + 1])
           /\ ShapeInv(req[h]) /\ AlwaysInv(req[h]) /\ AloneInv(req[h])
           /\ ClientInv(req[h])
<1>1. /\ req[h] \in Request /\ req[h].op \in Ops /\ Pc(req[h]) = pc
      /\ req[h].step \in DOMAIN Path(req[h].op) /\ req[h].actor \in Users
      /\ kind \in {"ROOM", "DM"}
      /\ ShapeInv(req[h]) /\ AlwaysInv(req[h]) /\ AloneInv(req[h])
      /\ ClientInv(req[h])
  BY DEF At, IInv, Types, RequestsInv, ReqInv, ShapeInv, Request, Pc
<1>2. /\ req[h].step \in Nat
      /\ Path(req[h].op)[req[h].step] # "emit" =>
             req[h].step + 1 \in DOMAIN Path(req[h].op)
      /\ Follows(req[h].op, Path(req[h].op)[req[h].step], Path(req[h].op)[req[h].step + 1])
  BY <1>1, PathFacts
<1> QED BY <1>1, <1>2 DEF Pc

\* A request that has written nothing goes on to read the next table.
LEMMA ReadOnInv ==
    ASSUME IInv, NEW h \in Handlers, NEW pc \in {"member", "ban", "find", "lookup"},
           NEW STATE r, At(h, pc), req' = [req EXCEPT ![h] = r], r \in Request,
           r.op = req[h].op, r.id = req[h].id, r.text = req[h].text,
           r.actor = req[h].actor, r.payload = req[h].payload, r.step = req[h].step + 1,
           r.rest = req[h].rest,
           req[h].op = "edit" /\ kind = "DM" /\ pc = "find" => rows[req[h].id].deleted = FALSE,
           UNCHANGED <<tables, seen, history>>
    PROVE  IInv'
<1>1. req'[h] = r  BY DEF IInv, Types
<1>2. UNCHANGED <<kind, rows, reactions, seen, raced, silent, toggled>>
  BY DEF tables, history
<1>3. /\ r.step \in DOMAIN Path(r.op)
      /\ Pc(r) \notin {"username", "list", "emit"}
      /\ r.op = "send" /\ pc \in {"member", "ban"} => Pc(r) \in {"member", "ban", "insert"}
      /\ r.op = "send" => pc \in {"member", "ban"}
      /\ r.op = "edit" /\ Pc(r) = "update" => pc = "find"
  BY AtFacts DEF Follows, Pc
<1>4. Pc(req[h])' = Pc(r) /\ (Path(req[h].op))' = Path(r.op)
  BY <1>1, <1>2 DEF Pc, Path
<1>5. ReqInv(req[h])'
  <2>1. ShapeInv(req[h])'  BY <1>1, <1>2, <1>3, <1>4, AtFacts DEF ShapeInv
  <2>2. AlwaysInv(req[h])' /\ ClientInv(req[h])'
    BY <1>1, <1>2, <1>3, <1>4, AtFacts DEF ShapeInv, AlwaysInv, ClientInv
  <2>3. AloneInv(req[h])'
    BY <1>1, <1>2, <1>3, <1>4, AtFacts DEF ShapeInv, AloneInv
  <2> QED BY <2>1, <2>2, <2>3 DEF ReqInv
<1>6. r.id # None => r.op # "send"  BY <1>3, AtFacts DEF ShapeInv
<1>7. r.id \in Ids \cup {None}  BY DEF Request
<1>8. r.id # None => ~Owes(req[h])
  BY <1>6, AtFacts DEF Owes
<1>9. \A g \in Handlers \ {h} : req[g].id = r.id /\ r.id # None => r.id \in raced'
  BY <1>2 DEF IInv, OneRequest
<1> QED BY <1>2, <1>5, <1>6, <1>7, <1>8, <1>9, MoveInv

\* A check of a request that has written nothing.
LEMMA CheckInv ==
    ASSUME IInv, NEW h \in Handlers, NEW pc \in {"member", "ban", "find", "lookup"},
           NEW STATE ok, At(h, pc), Check(h, ok),
           ok /\ req[h].op = "edit" /\ kind = "DM" /\ pc = "find" =>
               rows[req[h].id].deleted = FALSE
    PROVE  IInv'
<1>1. CASE ~ok
  <2>1. req[h].id = None \/ ~Owes(req[h])
    BY AtFacts DEF Follows, Owes, ShapeInv, Pc
  <2> QED BY <1>1, <2>1, EndInv DEF Check
<1>2. CASE ok
  <2> DEFINE r == [req[h] EXCEPT !.step = @ + 1]
  <2>1. r \in Request  BY AtFacts DEF Follows, Request
  <2>2. /\ r.op = req[h].op /\ r.id = req[h].id /\ r.text = req[h].text
        /\ r.actor = req[h].actor /\ r.payload = req[h].payload
        /\ r.step = req[h].step + 1 /\ r.rest = req[h].rest
    BY AtFacts DEF Request
  <2>3. req' = [req EXCEPT ![h] = r] /\ UNCHANGED <<tables, seen, history>>
    BY <1>2 DEF Check, Advance
  <2> QED BY <1>2, <2>1, <2>2, <2>3, ReadOnInv
<1> QED BY <1>1, <1>2

LEMMA CheckMemberInv == ASSUME IInv, NEW h \in Handlers, CheckMember(h) PROVE IInv'
<1>1. At(h, "member")  BY DEF CheckMember
<1>2. CASE End(h)
  <2>a. ShapeInv(req[h]) /\ Pc(req[h]) = "member" /\ req[h].op \in Ops
    BY <1>1, AtFacts
  <2>1. req[h].id = None \/ ~Owes(req[h])
    BY <2>a DEF Owes, ShapeInv, Ops
  <2> QED BY <1>2, <2>1, EndInv
<1>3. CASE /\ Advance(h, [req[h] EXCEPT !.mod = req[h].op = "delete" /\ req[h].actor \in mods])
           /\ UNCHANGED <<tables, seen, history>>
  <2> DEFINE m == req[h].op = "delete" /\ req[h].actor \in mods
             q == [req[h] EXCEPT !.mod = m]
             r == [q EXCEPT !.step = @ + 1]
  <2>0. m \in BOOLEAN  OBVIOUS
  <2> HIDE DEF m
  <2>a. req[h] \in Request /\ req[h].step \in Nat  BY <1>1, AtFacts
  <2>b. /\ q \in Request /\ q.op = req[h].op /\ q.id = req[h].id /\ q.text = req[h].text
        /\ q.actor = req[h].actor /\ q.payload = req[h].payload /\ q.step = req[h].step
        /\ q.rest = req[h].rest
    BY <2>0, <2>a DEF Request
  <2>3. req' = [req EXCEPT ![h] = r] /\ UNCHANGED <<tables, seen, history>>
    BY <1>3 DEF Advance, m
  <2> HIDE DEF q
  <2>1. r \in Request  BY <2>a, <2>b DEF Request
  <2>2. /\ r.op = req[h].op /\ r.id = req[h].id /\ r.text = req[h].text
        /\ r.actor = req[h].actor /\ r.payload = req[h].payload
        /\ r.step = req[h].step + 1 /\ r.rest = req[h].rest
    BY <2>b DEF Request
  <2> HIDE DEF r
  <2> QED BY <1>1, <2>1, <2>2, <2>3, ReadOnInv
<1> QED BY <1>2, <1>3 DEF CheckMember

LEMMA FindMessageInv == ASSUME IInv, NEW h \in Handlers, FindMessage(h) PROVE IInv'
<1>1. At(h, "find") /\ Check(h, MayChange(h, rows[req[h].id]))  BY DEF FindMessage
<1>2. MayChange(h, rows[req[h].id]) /\ req[h].op = "edit" /\ kind = "DM" =>
          rows[req[h].id].deleted = FALSE
  <2>a. /\ req[h] \in Request /\ req[h].op \in Ops /\ ShapeInv(req[h])
        /\ Follows(req[h].op, "find", Path(req[h].op)[req[h].step + 1])
    BY <1>1, AtFacts
  <2>b. req[h].id # None /\ req[h].id \in Ids /\ rows[req[h].id] # None
    BY <2>a DEF Follows, ShapeInv, Request, Ops
  <2>1. rows[req[h].id] \in Row  BY <2>b DEF IInv, Types
  <2> QED BY <2>1 DEF MayChange, Row
<1> QED BY <1>1, <1>2, CheckInv

LEMMA LookupReactionInv == ASSUME IInv, NEW h \in Handlers, LookupReaction(h) PROVE IInv'
<1> DEFINE f == <<req[h].id, req[h].actor>> \in reactions
           q == [req[h] EXCEPT !.found = f]
           r == [q EXCEPT !.step = @ + 1]
<1>0. f \in BOOLEAN /\ At(h, "lookup")  BY DEF LookupReaction
<1>3. req' = [req EXCEPT ![h] = r] /\ UNCHANGED <<tables, seen, history>>
  BY DEF LookupReaction, Advance
<1> HIDE DEF f
<1>a. req[h] \in Request /\ req[h].step \in Nat  BY <1>0, AtFacts
<1>b. /\ q \in Request /\ q.op = req[h].op /\ q.id = req[h].id /\ q.text = req[h].text
      /\ q.actor = req[h].actor /\ q.payload = req[h].payload /\ q.step = req[h].step
      /\ q.rest = req[h].rest
  BY <1>0, <1>a DEF Request
<1> HIDE DEF q
<1>1. r \in Request  BY <1>a, <1>b DEF Request
<1>2. /\ r.op = req[h].op /\ r.id = req[h].id /\ r.text = req[h].text
      /\ r.actor = req[h].actor /\ r.payload = req[h].payload
      /\ r.step = req[h].step + 1 /\ r.rest = req[h].rest
  BY <1>b DEF Request
<1> HIDE DEF r
<1> QED BY <1>0, <1>1, <1>2, <1>3, ReadOnInv

\* The message is raced if somebody is at work on it.
LEMMA ArriveInv ==
    ASSUME IInv, NEW h \in Handlers, NEW op \in Ops, NEW u \in Users,
           NEW i \in Ids \cup {None}, NEW t \in Texts \cup {None}, NEW rest \in BOOLEAN,
           Arrive(h, op, u, i, t, rest), i = None <=> op = "send",
           op = "send" => rest = FALSE,
           op \in {"send", "edit"} => t \in Texts, i # None => rows[i] # None
    PROVE  IInv'
<1> DEFINE r == [Idle EXCEPT !.op = op, !.step = 1, !.rest = rest,
                             !.actor = u, !.id = i, !.text = t]
<1>1. /\ r \in Request /\ r.op = op /\ r.step = 1 /\ r.actor = u /\ r.id = i
      /\ r.text = t /\ r.rest = rest
  BY DEF Request, Idle
<1>2. req[h].op = "idle" /\ req[h].id = None  BY IdleInv DEF Arrive
<1>3. req' = [req EXCEPT ![h] = r]  BY DEF Arrive
<1>4. /\ UNCHANGED <<tables, seen, toggled, silent>> /\ raced \subseteq raced'
      /\ \A g \in Handlers \ {h} : req[g].id = i /\ i # None => i \in raced'
  BY DEF Arrive, Busy
<1> HIDE DEF r
<1>5. req'[h] = r  BY <1>3 DEF IInv, Types
<1>6. UNCHANGED <<kind, rows, seen>>  BY <1>4 DEF tables
<1>7. (Path(req[h].op))' = Path(op) /\ Pc(req[h])' = Path(op)[1]
  BY <1>1, <1>5, <1>6 DEF Pc, Path
<1>8. /\ 1 \in DOMAIN Path(op) /\ Path(op)[1] \in {"member", "find"}
      /\ op = "send" => Path(op)[1] = "member"
  BY DEF Path, RoomPath, DmPath, Ops
<1>9. ReqInv(req[h])'
  <2>1. ShapeInv(req[h])'  BY <1>1, <1>5, <1>6, <1>7, <1>8 DEF ShapeInv, Ops
  <2>2. AlwaysInv(req[h])' /\ AloneInv(req[h])' /\ ClientInv(req[h])'
    BY <1>1, <1>5, <1>7, <1>8 DEF AlwaysInv, AloneInv, ClientInv
  <2> QED BY <2>1, <2>2 DEF ReqInv
<1> QED BY <1>1, <1>2, <1>3, <1>4, <1>9, MoveInv

LEMMA ReadUsernameInv == ASSUME IInv, NEW h \in Handlers, ReadUsername(h) PROVE IInv'
<1> DEFINE r == [req[h] EXCEPT !.step = @ + 1]
<1>0. At(h, "username")  BY DEF ReadUsername
<1>a. /\ req[h] \in Request /\ req[h].step \in Nat /\ req[h].actor \in Users
      /\ req[h].step + 1 \in DOMAIN Path(req[h].op)
      /\ Follows(req[h].op, "username", Path(req[h].op)[req[h].step + 1])
      /\ Pc(req[h]) = "username" /\ ShapeInv(req[h]) /\ AlwaysInv(req[h])
      /\ AloneInv(req[h])
  BY <1>0, AtFacts
<1>b. req[h].op = "send" /\ Path(req[h].op)[req[h].step + 1] = "emit"
  BY <1>a DEF Follows
<1>c. req[h].id \in Ids /\ req[h].id # None  BY <1>a, <1>b DEF ShapeInv, Request
<1>1. r \in Request  BY <1>a DEF Request
<1>2. /\ r.op = req[h].op /\ r.id = req[h].id /\ r.text = req[h].text
      /\ r.actor = req[h].actor /\ r.payload = req[h].payload
      /\ r.step = req[h].step + 1 /\ r.rest = req[h].rest
  BY <1>a DEF Request
<1>3. /\ req' = [req EXCEPT ![h] = r] /\ UNCHANGED <<tables, seen, history>>
      /\ UNCHANGED <<kind, rows, reactions, seen, raced, silent, toggled>>
  BY DEF ReadUsername, Check, Advance, tables, history
<1> HIDE DEF r
<1>4. req'[h] = r  BY <1>3 DEF IInv, Types
<1>5. r.op = "send" /\ Pc(r) = "emit" /\ r.step \in DOMAIN Path(r.op)
  BY <1>2, <1>a, <1>b DEF Pc
<1>6. Pc(req[h])' = Pc(r) /\ (Path(req[h].op))' = Path(r.op)
  BY <1>3, <1>4 DEF Pc, Path
<1>7. ReqInv(req[h])'
  <2>1. ShapeInv(req[h])'
    BY <1>2, <1>3, <1>4, <1>5, <1>6, <1>a, <1>b, <1>c DEF ShapeInv
  <2>2. AlwaysInv(req[h])' /\ ClientInv(req[h])'
    BY <1>2, <1>3, <1>4, <1>5, <1>6, <1>a, <1>b, <1>c DEF AlwaysInv, ClientInv
  <2>3. AloneInv(req[h])'
    BY <1>2, <1>3, <1>4, <1>5, <1>6, <1>a, <1>b, <1>c DEF AloneInv, Current, Reactors
  <2> QED BY <2>1, <2>2, <2>3 DEF ReqInv
<1>8. r.id \in Ids /\ r.id = req[h].id /\ req[h].op = "send" /\ Owes(req[h])'
  BY <1>2, <1>4, <1>5, <1>b, <1>c DEF Owes
<1>9. \A g \in Handlers \ {h} : req[g].id = r.id /\ r.id # None => r.id \in raced'
  BY <1>2, <1>3 DEF IInv, OneRequest
<1> QED BY <1>1, <1>2, <1>3, <1>7, <1>8, <1>9, MoveInv

LEMMA ListReactionsInv == ASSUME IInv, NEW h \in Handlers, ListReactions(h) PROVE IInv'
<1> DEFINE p == [text |-> None, deleted |-> FALSE, reactions |-> Reactors(req[h].id)]
           q == [req[h] EXCEPT !.payload = p]
           r == [q EXCEPT !.step = @ + 1]
<1>0. At(h, "list")  BY DEF ListReactions
<1>a. /\ req[h] \in Request /\ req[h].step \in Nat /\ req[h].actor \in Users
      /\ req[h].step + 1 \in DOMAIN Path(req[h].op)
      /\ Follows(req[h].op, "list", Path(req[h].op)[req[h].step + 1])
      /\ Pc(req[h]) = "list" /\ ShapeInv(req[h]) /\ ClientInv(req[h])
  BY <1>0, AtFacts
<1>b. req[h].op = "react" /\ Path(req[h].op)[req[h].step + 1] = "emit"
  BY <1>a DEF Follows
<1>c. req[h].id \in Ids /\ req[h].id # None  BY <1>a, <1>b DEF ShapeInv, Request
<1>1. p \in Payload /\ p # None /\ p.reactions = Reactors(req[h].id)
  <2>1. Reactors(req[h].id) \in SUBSET Users  BY DEF Reactors
  <2>2. p \in Payload  BY <2>1 DEF Payload
  <2> QED BY <2>2
<1>2. /\ req' = [req EXCEPT ![h] = r] /\ UNCHANGED <<tables, seen, history>>
      /\ UNCHANGED <<kind, rows, reactions, seen, raced, silent, toggled>>
  BY DEF ListReactions, Advance, tables, history
<1> HIDE DEF p
<1>d. /\ q \in Request /\ q.op = req[h].op /\ q.id = req[h].id /\ q.text = req[h].text
      /\ q.actor = req[h].actor /\ q.payload = p /\ q.step = req[h].step
      /\ q.rest = req[h].rest
  BY <1>1, <1>a DEF Request
<1> HIDE DEF q
<1>3. /\ r \in Request /\ r.op = req[h].op /\ r.id = req[h].id /\ r.text = req[h].text
      /\ r.actor = req[h].actor /\ r.payload = p /\ r.step = req[h].step + 1
      /\ r.rest = req[h].rest
  BY <1>a, <1>d DEF Request
<1> HIDE DEF r
<1>4. req'[h] = r  BY <1>2 DEF IInv, Types
<1>5. r.op = "react" /\ Pc(r) = "emit" /\ r.step \in DOMAIN Path(r.op)
  BY <1>3, <1>a, <1>b DEF Pc
<1>6. Pc(req[h])' = Pc(r) /\ (Path(req[h].op))' = Path(r.op)
  BY <1>2, <1>4 DEF Pc, Path
<1>7. ReqInv(req[h])'
  <2>1. ShapeInv(req[h])'
    BY <1>1, <1>2, <1>3, <1>4, <1>5, <1>6, <1>a, <1>b, <1>c DEF ShapeInv
  <2>2. AlwaysInv(req[h])' /\ ClientInv(req[h])'
    BY <1>2, <1>3, <1>4, <1>5, <1>6, <1>a, <1>b, <1>c DEF AlwaysInv, ClientInv, Reactors
  <2>3. AloneInv(req[h])'
    BY <1>1, <1>2, <1>3, <1>4, <1>5, <1>6 DEF AloneInv, Reactors
  <2> QED BY <2>1, <2>2, <2>3 DEF ReqInv
<1>8. r.id \in Ids /\ r.id = req[h].id /\ r.op # "send" /\ Owes(req[h])'
  BY <1>3, <1>4, <1>5, <1>6, <1>b, <1>c DEF Owes
<1>9. \A g \in Handlers \ {h} : req[g].id = r.id /\ r.id # None => r.id \in raced'
  BY <1>2, <1>3 DEF IInv, OneRequest
<1> QED BY <1>2, <1>3, <1>7, <1>8, <1>9, MoveInv

--------------------------------------------------------------------------------
(* The actions that write *)

\* A request that ends relies on nothing.
LEMMA EndedInv ==
    ASSUME IInv, NEW h \in Handlers, Finish(h)
    PROVE  req' = [req EXCEPT ![h] = Idle] /\ ReqInv(req[h])'
<1>1. req' = [req EXCEPT ![h] = Idle]  BY DEF Finish
<1>2. req'[h] = Idle  BY <1>1 DEF IInv, Types
<1> QED BY <1>1, <1>2, IdleInv DEF ReqInv, ShapeInv, AlwaysInv, AloneInv, ClientInv

\* The new message is nobody else's, and has left no trace before.
LEMMA InsertMessageInv == ASSUME IInv, NEW h \in Handlers, InsertMessage(h) PROVE IInv'
<1>0. At(h, "insert")  BY DEF InsertMessage
<1>a. /\ req[h] \in Request /\ req[h].step \in Nat /\ req[h].actor \in Users
      /\ req[h].step + 1 \in DOMAIN Path(req[h].op)
      /\ Follows(req[h].op, "insert", Path(req[h].op)[req[h].step + 1])
      /\ Pc(req[h]) = "insert" /\ ShapeInv(req[h])
  BY <1>0, AtFacts
<1>b. req[h].op = "send" /\ Path(req[h].op)[req[h].step + 1] \in {"username", "emit"}
  BY <1>a DEF Follows
<1>c. req[h].id = None /\ req[h].text \in Texts /\ req[h].rest = FALSE
  BY <1>a, <1>b DEF ShapeInv
<1> DEFINE row == [author |-> req[h].actor, text |-> req[h].text, deleted |-> FALSE]
           p == [text |-> req[h].text, deleted |-> FALSE, reactions |-> {}]
<1>1. PICK i \in Ids \ Existing : rows' = [rows EXCEPT ![i] = row] /\ Written(h, i, p)
  BY DEF InsertMessage
<1>2. UNCHANGED <<kind, reactions, seen, raced, silent, toggled>>
  BY DEF InsertMessage, history
<1> DEFINE q == [req[h] EXCEPT !.id = i, !.payload = p]
           r == [q EXCEPT !.step = @ + 1]
<1>3. req' = [req EXCEPT ![h] = r]  BY <1>1, <1>c DEF Written, Advance
<1>4. /\ row \in Row /\ row # None /\ row.text = req[h].text /\ row.deleted = FALSE
      /\ p \in Payload /\ p # None /\ p.text = req[h].text /\ p.deleted = FALSE
      /\ p.reactions = {}
  <2>1. row \in Row  BY <1>a, <1>c DEF Row
  <2>2. p \in Payload  BY <1>c DEF Payload
  <2>3. row.text = req[h].text /\ row.deleted = FALSE  OBVIOUS
  <2>4. p.text = req[h].text /\ p.deleted = FALSE /\ p.reactions = {}  OBVIOUS
  <2> HIDE DEF row, p
  <2> QED BY <2>1, <2>2, <2>3, <2>4
<1> HIDE DEF row, p
<1>5. /\ q \in Request /\ q.op = req[h].op /\ q.id = i /\ q.text = req[h].text
      /\ q.actor = req[h].actor /\ q.payload = p /\ q.step = req[h].step
      /\ q.rest = req[h].rest
  BY <1>4, <1>a DEF Request
<1> HIDE DEF q
<1>6. /\ r \in Request /\ r.op = req[h].op /\ r.id = i /\ r.text = req[h].text
      /\ r.actor = req[h].actor /\ r.payload = p /\ r.step = req[h].step + 1
      /\ r.rest = req[h].rest
  BY <1>5, <1>a DEF Request
<1> HIDE DEF r
<1>7. req'[h] = r  BY <1>3 DEF IInv, Types
<1>8. /\ rows[i] = None /\ rows'[i] = row /\ i # None
      /\ seen[i] = None /\ Reactors(i) = {}
      /\ \A j \in Ids : j # i => rows'[j] = rows[j]
  BY <1>1 DEF Existing, IInv, Types, ShownInv
<1>9. r.op = "send" /\ r.step \in DOMAIN Path(r.op) /\ Pc(r) \in {"username", "emit"}
  BY <1>6, <1>a, <1>b DEF Pc
<1>10. Pc(req[h])' = Pc(r) /\ (Path(req[h].op))' = Path(r.op)
  BY <1>2, <1>7 DEF Pc, Path
<1>11. ReqInv(req[h])'
  <2>1. ShapeInv(req[h])'
    BY <1>a, <1>c, <1>4, <1>6, <1>7, <1>8, <1>9, <1>10 DEF ShapeInv
  <2>2. AlwaysInv(req[h])' /\ ClientInv(req[h])'
    BY <1>2, <1>4, <1>6, <1>7, <1>8, <1>9, <1>10 DEF AlwaysInv, ClientInv
  <2>3. AloneInv(req[h])'
    BY <1>2, <1>4, <1>6, <1>7, <1>8, <1>9, <1>10 DEF AloneInv, Current, Reactors
  <2> QED BY <2>1, <2>2, <2>3 DEF ReqInv
<1>12. Types' /\ ReactionsCountToggles'
  BY <1>1, <1>2, <1>3, <1>4, <1>6 DEF IInv, Types, ReactionsCountToggles
<1>13. Only(i)  BY <1>2, <1>8 DEF Only, Reactors
<1>14. \A g \in Handlers : req[g].id # i
  BY <1>8 DEF IInv, RequestsInv, ReqInv, ShapeInv
<1>15. r.id = i /\ Owes(req[h])'
  BY <1>6, <1>7, <1>9 DEF Owes
<1>16. \A g \in Handlers \ {h} : req[g].id = i /\ i # None =>
           /\ i \in raced'
           /\ r.id = i => ~(req[g].op = "send" /\ r.op = "send")
           /\ req[g].op = "send" => seen'[i] = None
  BY <1>14
<1>17. \A j \in Ids : j = i =>
           /\ rows'[j] = None => seen'[j] = None /\ Reactors(j)' = {}
           /\ seen'[j] # None /\ seen'[j].deleted = TRUE => rows'[j].deleted = TRUE
           /\ j \notin raced' /\ j \notin silent' /\ rows'[j] # None
              /\ (r.id = j => ~Owes(req[h])') =>
                  seen'[j] # None /\ Current(seen[j], j)'
  BY <1>2, <1>4, <1>8, <1>15
<1>18. i \in Ids \cup {None} /\ req[h].id \in {i, None} /\ r.id \in {i, None}
  BY <1>6, <1>c
<1> QED BY <1>3, <1>11, <1>12, <1>13, <1>16, <1>17, <1>18, StepInv

\* Others on the message have raced with its update.
LEMMA OthersRaced ==
    ASSUME IInv, NEW h \in Handlers, NEW g \in Handlers \ {h},
           req[g].id = req[h].id, req[h].id # None
    PROVE  /\ req[h].id \in raced
           /\ ~(req[g].op = "send" /\ req[h].op = "send")
           /\ req[g].op = "send" => seen[req[h].id] = None
  BY DEF IInv, OneRequest, RequestsInv, ReqInv, AlwaysInv

\* A request at i's write, which was shown as it is if no other is there.
LEMMA WriteFacts ==
    ASSUME IInv, NEW h \in Handlers, NEW pc \in {"update", "remove", "toggle"}, At(h, pc)
    PROVE  /\ req[h] \in Request /\ req[h].step \in Nat /\ req[h].actor \in Users
           /\ req[h].step + 1 \in DOMAIN Path(req[h].op)
           /\ Path(req[h].op)[req[h].step + 1] \in {"list", "emit"}
           /\ pc = "update" => req[h].op = "edit" /\ req[h].text \in Texts
                               /\ Path(req[h].op)[req[h].step + 1] = "emit"
           /\ pc = "remove" => req[h].op = "delete"
                               /\ Path(req[h].op)[req[h].step + 1] = "emit"
           /\ pc = "toggle" => req[h].op = "react"
                               /\ Path(req[h].op)[req[h].step + 1] = "list"
           /\ req[h].id \in Ids /\ req[h].id # None /\ rows[req[h].id] # None
           /\ rows[req[h].id] \in Row
           /\ req[h].id \notin raced /\ req[h].id \notin silent =>
                  seen[req[h].id] # None /\ Current(seen[req[h].id], req[h].id)
<1>a. /\ req[h] \in Request /\ req[h].step \in Nat /\ req[h].actor \in Users
      /\ req[h].step + 1 \in DOMAIN Path(req[h].op) /\ req[h].op \in Ops
      /\ Follows(req[h].op, pc, Path(req[h].op)[req[h].step + 1])
      /\ Pc(req[h]) = pc /\ ShapeInv(req[h])
  BY AtFacts
<1>b. /\ Path(req[h].op)[req[h].step + 1] \in {"list", "emit"}
      /\ pc = "update" => req[h].op = "edit" /\ Path(req[h].op)[req[h].step + 1] = "emit"
      /\ pc = "remove" => req[h].op = "delete" /\ Path(req[h].op)[req[h].step + 1] = "emit"
      /\ pc = "toggle" => req[h].op = "react" /\ Path(req[h].op)[req[h].step + 1] = "list"
  BY <1>a DEF Follows
<1>c. /\ req[h].id \in Ids /\ req[h].id # None /\ rows[req[h].id] # None
      /\ pc = "update" => req[h].text \in Texts
  BY <1>a, <1>b DEF ShapeInv, Request, Ops
<1>d. rows[req[h].id] \in Row  BY <1>c DEF IInv, Types
<1>e. ~Owes(req[h])  BY <1>a, <1>b DEF Owes
<1>f. req[h].id \notin raced /\ req[h].id \notin silent =>
          seen[req[h].id] # None /\ Current(seen[req[h].id], req[h].id)
  BY <1>c, <1>e, OthersRaced, AloneCurrent
<1> QED BY <1>a, <1>b, <1>c, <1>d, <1>f

\* How StepInv is used for a request on its message: what holds of the message
\* afterwards is left to prove.
LEMMA OwnStepInv ==
    ASSUME IInv, Types', ReactionsCountToggles', NEW h \in Handlers, NEW STATE r,
           Only(req[h].id), req[h].id \in Ids, req' = [req EXCEPT ![h] = r],
           ReqInv(req[h])', r.id \in {req[h].id, None},
           r.id = req[h].id => r.op = req[h].op,
           req[h].op = "send" \/ seen'[req[h].id] = seen[req[h].id]
               \/ (seen[req[h].id] = None => seen'[req[h].id] = None),
           \A j \in Ids : j = req[h].id =>
               /\ rows'[j] # None
               /\ seen'[j] # None /\ seen'[j].deleted = TRUE => rows'[j].deleted = TRUE
               /\ j \notin raced' /\ j \notin silent' /\ (r.id = j => ~Owes(req[h])') =>
                      seen'[j] # None /\ Current(seen[j], j)'
    PROVE  IInv'
<1>1. ASSUME NEW g \in Handlers \ {h}, req[g].id = req[h].id, req[h].id # None
      PROVE  /\ req[h].id \in raced'
             /\ r.id = req[h].id => ~(req[g].op = "send" /\ r.op = "send")
             /\ req[g].op = "send" => seen'[req[h].id] = None
  BY <1>1, OthersRaced DEF Only
<1>2. req[h].id \in Ids \cup {None} /\ req[h].id \in {req[h].id, None}  OBVIOUS
<1>3. \A g \in Handlers \ {h} : req[g].id = req[h].id /\ req[h].id # None =>
          /\ req[h].id \in raced'
          /\ r.id = req[h].id => ~(req[g].op = "send" /\ r.op = "send")
          /\ req[g].op = "send" => seen'[req[h].id] = None
  BY <1>1
<1>4. \A j \in Ids : j = req[h].id =>
          /\ rows'[j] = None => seen'[j] = None /\ Reactors(j)' = {}
          /\ seen'[j] # None /\ seen'[j].deleted = TRUE => rows'[j].deleted = TRUE
          /\ j \notin raced' /\ j \notin silent' /\ rows'[j] # None
             /\ (r.id = j => ~Owes(req[h])') =>
                 seen'[j] # None /\ Current(seen[j], j)'
  OBVIOUS
<1> QED BY <1>2, <1>3, <1>4, StepInv

\* The event of an edit carries the row it wrote; over REST there is none.
LEMMA UpdateMessageInv == ASSUME IInv, NEW h \in Handlers, UpdateMessage(h) PROVE IInv'
<1> DEFINE i == req[h].id
           p == EditPayload(i, req[h].text)
           row == [rows[i] EXCEPT !.text = req[h].text]
<1>0. At(h, "update")  BY DEF UpdateMessage
<1>a. /\ req[h] \in Request /\ req[h].step \in Nat /\ req[h].actor \in Users
      /\ req[h].step + 1 \in DOMAIN Path(req[h].op) /\ req[h].op = "edit"
      /\ req[h].text \in Texts /\ Path(req[h].op)[req[h].step + 1] = "emit"
      /\ i \in Ids /\ i # None /\ rows[i] # None /\ rows[i] \in Row
      /\ i \notin raced /\ i \notin silent => seen[i] # None /\ Current(seen[i], i)
  BY <1>0, WriteFacts
<1>1. /\ rows' = [rows EXCEPT ![i] = row] /\ Written(h, i, p)
      /\ silent' = IF req[h].rest THEN silent \cup {i} ELSE silent
      /\ UNCHANGED <<kind, access, banned, mods, reactions, seen, toggled, raced>>
  BY <1>a DEF UpdateMessage, IInv, Types, Row
<1>2. /\ row \in Row /\ row # None /\ row.text = req[h].text
      /\ row.deleted = rows[i].deleted
  <2>1. row \in Row  BY <1>a DEF Row
  <2>2. row.text = req[h].text /\ row.deleted = rows[i].deleted  BY <1>a DEF Row
  <2> HIDE DEF row
  <2> QED BY <2>1, <2>2
<1>3. /\ p \in Payload /\ p # None /\ p.text = req[h].text
      /\ p.deleted = rows[i].deleted
      /\ kind = "ROOM" => p.reactions = Reactors(i)
  <2>1. Reactors(i) \in SUBSET Users  BY DEF Reactors
  <2>2. p \in Payload  BY <1>a, <2>1 DEF EditPayload, Row, Payload
  <2>3. /\ p.text = req[h].text /\ p.deleted = rows[i].deleted
        /\ kind = "ROOM" => p.reactions = Reactors(i)
    BY DEF EditPayload
  <2> HIDE DEF p
  <2> QED BY <2>2, <2>3
<1> HIDE DEF row, p
<1>4. /\ rows'[i] = row /\ \A j \in Ids : j # i => rows'[j] = rows[j]
      /\ rows' \in [Ids -> Row \cup {None}]
  BY <1>a, <1>1, <1>2 DEF IInv, Types
<1>5. Only(i)  BY <1>1, <1>2, <1>4 DEF Only, Reactors
<1>6. ReactionsCountToggles'  BY <1>1 DEF IInv, ReactionsCountToggles
<1>7. seen'[i] # None /\ seen'[i].deleted = TRUE => row.deleted = TRUE
  BY <1>a, <1>1, <1>2 DEF IInv, ShownInv
<1>8. CASE req[h].rest
  <2>1. Finish(h) /\ i \in silent'  BY <1>1, <1>8 DEF Written
  <2>2. Types'  BY <1>1, <1>4, <2>1, IdleInv DEF IInv, Types, Finish
  <2>3. req' = [req EXCEPT ![h] = Idle] /\ ReqInv(req[h])'  BY <2>1, EndedInv
  <2>4. \A j \in Ids : j = i =>
            /\ rows'[j] # None
            /\ seen'[j] # None /\ seen'[j].deleted = TRUE => rows'[j].deleted = TRUE
            /\ j \in silent'
    BY <1>2, <1>4, <1>7, <2>1
  <2> QED BY <1>a, <1>1, <1>5, <1>6, <2>2, <2>3, <2>4, IdleInv, OwnStepInv
<1>9. CASE ~req[h].rest
  <2> DEFINE q == [req[h] EXCEPT !.id = i, !.payload = p]
             r == [q EXCEPT !.step = @ + 1]
  <2>1. req' = [req EXCEPT ![h] = r] /\ silent' = silent
    BY <1>1, <1>9 DEF Written, Advance
  <2>2. /\ q \in Request /\ q.op = "edit" /\ q.id = i /\ q.text = req[h].text
        /\ q.actor = req[h].actor /\ q.payload = p /\ q.step = req[h].step
    BY <1>a, <1>3 DEF Request
  <2> HIDE DEF q
  <2>3. /\ r \in Request /\ r.op = "edit" /\ r.id = i /\ r.text = req[h].text
        /\ r.actor = req[h].actor /\ r.payload = p /\ r.step = req[h].step + 1
    BY <1>a, <2>2 DEF Request
  <2> HIDE DEF r
  <2>4. Types'  BY <1>1, <1>4, <2>1, <2>3 DEF IInv, Types
  <2>5. req'[h] = r  BY <2>1 DEF IInv, Types
  <2>6. Pc(r) = "emit" /\ Pc(req[h])' = Pc(r) /\ (Path(req[h].op))' = Path(r.op)
    BY <1>a, <1>1, <2>3, <2>5 DEF Pc, Path
  <2>7. ReqInv(req[h])'
    <3>1. ShapeInv(req[h])'
      BY <1>a, <1>2, <1>3, <1>4, <2>3, <2>5, <2>6 DEF ShapeInv
    <3>2. AlwaysInv(req[h])'
      BY <1>2, <1>3, <1>4, <2>3, <2>5, <2>6 DEF AlwaysInv
    <3>3. AloneInv(req[h])'
      BY <1>1, <1>2, <1>3, <1>4, <2>3, <2>5, <2>6 DEF AloneInv, Current, Reactors
    <3>4. ClientInv(req[h])'
      BY <1>a, <1>1, <2>1, <2>3, <2>5, <2>6 DEF ClientInv
    <3> QED BY <3>1, <3>2, <3>3, <3>4 DEF ReqInv
  <2>8. Owes(req[h])'  BY <2>6 DEF Owes
  <2>9. \A j \in Ids : j = i =>
            /\ rows'[j] # None
            /\ seen'[j] # None /\ seen'[j].deleted = TRUE => rows'[j].deleted = TRUE
            /\ r.id = j
    BY <1>2, <1>4, <1>7, <2>3
  <2> QED BY <1>a, <1>1, <1>5, <1>6, <2>1, <2>3, <2>4, <2>7, <2>8, <2>9, OwnStepInv
<1> QED BY <1>8, <1>9

LEMMA RemoveMessageInv == ASSUME IInv, NEW h \in Handlers, RemoveMessage(h) PROVE IInv'
<1> DEFINE i == req[h].id
           row == [rows[i] EXCEPT !.deleted = TRUE]
<1>0. At(h, "remove")  BY DEF RemoveMessage
<1>a. /\ req[h] \in Request /\ req[h].step \in Nat /\ req[h].actor \in Users
      /\ req[h].step + 1 \in DOMAIN Path(req[h].op) /\ req[h].op = "delete"
      /\ Path(req[h].op)[req[h].step + 1] = "emit"
      /\ i \in Ids /\ i # None /\ rows[i] # None /\ rows[i] \in Row
      /\ i \notin raced /\ i \notin silent => seen[i] # None /\ Current(seen[i], i)
  BY <1>0, WriteFacts
<1>1. /\ rows' = [rows EXCEPT ![i] = row] /\ Written(h, i, None)
      /\ silent' = IF req[h].rest THEN silent \cup {i} ELSE silent
      /\ UNCHANGED <<kind, access, banned, mods, reactions, seen, toggled, raced>>
  BY <1>a DEF RemoveMessage, IInv, Types, Row
<1>2. /\ row \in Row /\ row # None /\ row.text = rows[i].text
      /\ row.deleted = TRUE
  <2>1. row \in Row  BY <1>a DEF Row
  <2>2. row.text = rows[i].text /\ row.deleted = TRUE  BY <1>a DEF Row
  <2> HIDE DEF row
  <2> QED BY <2>1, <2>2
<1> HIDE DEF row
<1>4. /\ rows'[i] = row /\ \A j \in Ids : j # i => rows'[j] = rows[j]
      /\ rows' \in [Ids -> Row \cup {None}]
  BY <1>a, <1>1, <1>2 DEF IInv, Types
<1>5. Only(i)  BY <1>1, <1>2, <1>4 DEF Only, Reactors
<1>6. ReactionsCountToggles'  BY <1>1 DEF IInv, ReactionsCountToggles
<1>8. CASE req[h].rest
  <2>1. Finish(h) /\ i \in silent'  BY <1>1, <1>8 DEF Written
  <2>2. Types'  BY <1>1, <1>4, <2>1, IdleInv DEF IInv, Types, Finish
  <2>3. req' = [req EXCEPT ![h] = Idle] /\ ReqInv(req[h])'  BY <2>1, EndedInv
  <2>4. \A j \in Ids : j = i =>
            /\ rows'[j] # None /\ rows'[j].deleted = TRUE
            /\ j \in silent'
    BY <1>2, <1>4, <2>1
  <2> QED BY <1>a, <1>1, <1>5, <1>6, <2>2, <2>3, <2>4, IdleInv, OwnStepInv
<1>9. CASE ~req[h].rest
  <2> DEFINE q == [req[h] EXCEPT !.id = i, !.payload = None]
             r == [q EXCEPT !.step = @ + 1]
  <2>1. req' = [req EXCEPT ![h] = r] /\ silent' = silent
    BY <1>1, <1>9 DEF Written, Advance
  <2>2. /\ q \in Request /\ q.op = "delete" /\ q.id = i
        /\ q.actor = req[h].actor /\ q.step = req[h].step
    BY <1>a DEF Request
  <2> HIDE DEF q
  <2>3. /\ r \in Request /\ r.op = "delete" /\ r.id = i
        /\ r.actor = req[h].actor /\ r.step = req[h].step + 1
    BY <1>a, <2>2 DEF Request
  <2> HIDE DEF r
  <2>4. Types'  BY <1>1, <1>4, <2>1, <2>3 DEF IInv, Types
  <2>5. req'[h] = r  BY <2>1 DEF IInv, Types
  <2>6. Pc(r) = "emit" /\ Pc(req[h])' = Pc(r) /\ (Path(req[h].op))' = Path(r.op)
    BY <1>a, <1>1, <2>3, <2>5 DEF Pc, Path
  <2>7. ReqInv(req[h])'
    <3>1. ShapeInv(req[h])'
      BY <1>a, <1>2, <1>4, <2>3, <2>5, <2>6 DEF ShapeInv
    <3>2. AlwaysInv(req[h])' /\ AloneInv(req[h])'
      BY <1>2, <1>4, <2>3, <2>5, <2>6 DEF AlwaysInv, AloneInv
    <3>3. ClientInv(req[h])'
      BY <1>a, <1>1, <1>2, <1>4, <2>1, <2>3, <2>5, <2>6 DEF ClientInv, Current, Reactors
    <3> QED BY <3>1, <3>2, <3>3 DEF ReqInv
  <2>8. Owes(req[h])'  BY <2>6 DEF Owes
  <2>9. \A j \in Ids : j = i => rows'[j] # None /\ rows'[j].deleted = TRUE /\ r.id = j
    BY <1>2, <1>4, <2>3
  <2> QED BY <1>a, <1>1, <1>5, <1>6, <2>1, <2>3, <2>4, <2>7, <2>8, <2>9, OwnStepInv
<1> QED BY <1>8, <1>9

\* The unique key and P2025 make every toggle flip the row.
LEMMA ToggleReactionInv == ASSUME IInv, NEW h \in Handlers, ToggleReaction(h) PROVE IInv'
<1> DEFINE i == req[h].id
           x == <<req[h].id, req[h].actor>>
           r == [req[h] EXCEPT !.step = @ + 1]
<1>0. At(h, "toggle")  BY DEF ToggleReaction
<1>a. /\ req[h] \in Request /\ req[h].step \in Nat /\ req[h].actor \in Users
      /\ req[h].step + 1 \in DOMAIN Path(req[h].op) /\ req[h].op = "react"
      /\ Path(req[h].op)[req[h].step + 1] = "list"
      /\ i \in Ids /\ i # None /\ rows[i] # None
      /\ i \notin raced /\ i \notin silent => seen[i] # None /\ Current(seen[i], i)
  BY <1>0, WriteFacts
<1>1. CASE End(h)
  <2>1. ~Owes(req[h])  BY <1>0, <1>a, AtFacts DEF Owes
  <2> QED BY <1>1, <2>1, EndInv
<1>2. CASE /\ Toggles(h)
           /\ reactions' = IF req[h].found THEN reactions \ {x} ELSE reactions \cup {x}
           /\ toggled' = Flip(toggled, x)
           /\ Advance(h, req[h])
           /\ UNCHANGED <<kind, access, banned, mods, rows, seen, raced, silent>>
  <2>1. ReactionsCountToggles'
    BY <1>2, <1>a DEF Toggles, Flip, IInv, ReactionsCountToggles, Request
  <2>2. x \in Ids \X Users /\ reactions' \in SUBSET (Ids \X Users)
    BY <1>2, <1>a DEF IInv, Types
  <2>3. Only(i)
    <3>1. ASSUME NEW j \in Ids, j # i PROVE Reactors(j)' = Reactors(j)
      <4>1. \A u \in Users : <<j, u>> \in reactions' <=> <<j, u>> \in reactions
        BY <1>2, <3>1
      <4> QED BY <4>1 DEF Reactors
    <3> QED BY <1>2, <3>1 DEF Only
  <2>4. req' = [req EXCEPT ![h] = r]  BY <1>2 DEF Advance
  <2>5. /\ r \in Request /\ r.op = "react" /\ r.id = i
        /\ r.actor = req[h].actor /\ r.step = req[h].step + 1
    BY <1>a DEF Request
  <2> HIDE DEF r, x
  <2>6. Types'  BY <1>2, <2>2, <2>4, <2>5 DEF IInv, Types
  <2>7. req'[h] = r  BY <2>4 DEF IInv, Types
  <2>8. Pc(r) = "list" /\ Pc(req[h])' = Pc(r) /\ (Path(req[h].op))' = Path(r.op)
    BY <1>a, <1>2, <2>5, <2>7 DEF Pc, Path
  <2>9. ReqInv(req[h])'
    <3>1. ShapeInv(req[h])'
      BY <1>a, <1>2, <2>5, <2>7, <2>8 DEF ShapeInv
    <3>2. AlwaysInv(req[h])' /\ AloneInv(req[h])'
      BY <2>5, <2>7, <2>8 DEF AlwaysInv, AloneInv
    <3>3. ClientInv(req[h])'
      BY <1>a, <1>2, <2>5, <2>7, <2>8 DEF ClientInv, Current
    <3> QED BY <3>1, <3>2, <3>3 DEF ReqInv
  <2>10. Owes(req[h])'  BY <2>8 DEF Owes
  <2>11. \A j \in Ids : j = i =>
             /\ rows'[j] # None
             /\ seen'[j] # None /\ seen'[j].deleted = TRUE => rows'[j].deleted = TRUE
             /\ r.id = j
    BY <1>a, <1>2, <2>5 DEF IInv, ShownInv
  <2> QED BY <1>a, <1>2, <2>1, <2>3, <2>4, <2>5, <2>6, <2>9, <2>10, <2>11, OwnStepInv
<1> QED BY <1>1, <1>2 DEF ToggleReaction

\* What an event changes on the clients' screens.
LEMMA EmitFacts ==
    ASSUME IInv, NEW h \in Handlers, Emit(h)
    PROVE  LET i == req[h].id
               new == seen'[i]
           IN  /\ req[h].op \in Ops /\ Pc(req[h]) = "emit" /\ ShapeInv(req[h])
               /\ AlwaysInv(req[h]) /\ AloneInv(req[h]) /\ ClientInv(req[h])
               /\ i \in Ids /\ i # None /\ rows[i] # None /\ rows[i] \in Row
               /\ req[h].op \in {"send", "edit", "react"} => req[h].payload \in Payload
               /\ Finish(h)
               /\ UNCHANGED <<kind, rows, reactions, raced, silent, toggled>>
               /\ seen' \in [Ids -> Payload \cup {None}]
               /\ \A j \in Ids : j # i => seen'[j] = seen[j]
               /\ req[h].op = "send" => new = req[h].payload
               /\ req[h].op # "send" /\ seen[i] = None => new = None
               /\ req[h].op = "edit" /\ seen[i] # None => new = req[h].payload
               /\ req[h].op = "delete" /\ seen[i] # None =>
                      /\ new # None /\ new.text = seen[i].text /\ new.deleted = TRUE
                      /\ new.reactions = seen[i].reactions
               /\ req[h].op = "react" /\ seen[i] # None =>
                      /\ new # None /\ new.text = seen[i].text
                      /\ new.deleted = seen[i].deleted
                      /\ new.reactions = req[h].payload.reactions
<1> DEFINE i == req[h].id
           new == Shown(req[h].op, seen[i], req[h].payload)
<1>0. At(h, "emit")  BY DEF Emit
<1>a. /\ req[h] \in Request /\ req[h].op \in Ops /\ Pc(req[h]) = "emit"
      /\ ShapeInv(req[h]) /\ AlwaysInv(req[h]) /\ AloneInv(req[h]) /\ ClientInv(req[h])
      /\ kind \in {"ROOM", "DM"}
  BY <1>0, AtFacts
<1>b. i \in Ids /\ i # None /\ rows[i] # None
  BY <1>a DEF ShapeInv, Request, Ops
<1>c. seen[i] \in Payload \cup {None} /\ rows[i] \in Row
      /\ (req[h].op \in {"send", "edit", "react"} => req[h].payload \in Payload)
  BY <1>a, <1>b DEF IInv, Types, ShapeInv, Request
<1>1. /\ seen' = [seen EXCEPT ![i] = new] /\ Finish(h)
      /\ UNCHANGED <<kind, rows, reactions, raced, silent, toggled>>
  BY DEF Emit, tables, history
<1>2. /\ new \in Payload \cup {None}
      /\ req[h].op = "send" => new = req[h].payload
      /\ req[h].op # "send" /\ seen[i] = None => new = None
      /\ req[h].op = "edit" /\ seen[i] # None => new = req[h].payload
      /\ req[h].op = "delete" /\ seen[i] # None =>
             /\ new # None /\ new.text = seen[i].text /\ new.deleted = TRUE
             /\ new.reactions = seen[i].reactions
      /\ req[h].op = "react" /\ seen[i] # None =>
             /\ new # None /\ new.text = seen[i].text /\ new.deleted = seen[i].deleted
             /\ new.reactions = req[h].payload.reactions
  <2>1. CASE req[h].op = "send"  BY <1>c, <2>1 DEF Shown
  <2>2. CASE req[h].op = "edit"  BY <1>c, <2>2 DEF Shown
  <2>3. CASE req[h].op = "delete"
    <3>1. CASE seen[i] = None  BY <2>3, <3>1 DEF Shown
    <3>2. CASE seen[i] # None
      <4>1. new = [seen[i] EXCEPT !.deleted = TRUE]  BY <2>3, <3>2 DEF Shown
      <4>2. new \in Payload /\ new.text = seen[i].text /\ new.deleted = TRUE
            /\ new.reactions = seen[i].reactions
        BY <1>c, <3>2, <4>1 DEF Payload
      <4> HIDE DEF new
      <4> QED BY <2>3, <3>2, <4>2
    <3> QED BY <3>1, <3>2
  <2>4. CASE req[h].op = "react"
    <3>1. CASE seen[i] = None  BY <2>4, <3>1 DEF Shown
    <3>2. CASE seen[i] # None
      <4>1. new = [seen[i] EXCEPT !.reactions = req[h].payload.reactions]
        BY <2>4, <3>2 DEF Shown
      <4>2. new \in Payload /\ new.text = seen[i].text /\ new.deleted = seen[i].deleted
            /\ new.reactions = req[h].payload.reactions
        BY <1>c, <2>4, <3>2, <4>1 DEF Payload
      <4> HIDE DEF new
      <4> QED BY <2>4, <3>2, <4>2
    <3> QED BY <3>1, <3>2
  <2> QED BY <1>a, <2>1, <2>2, <2>3, <2>4 DEF Ops
<1> HIDE DEF new
<1>3. seen'[i] = new /\ \A j \in Ids : j # i => seen'[j] = seen[j]
  BY <1>b, <1>1 DEF IInv, Types
<1>4. seen' \in [Ids -> Payload \cup {None}]  BY <1>1, <1>2 DEF IInv, Types
<1> QED BY <1>a, <1>b, <1>c, <1>1, <1>2, <1>3, <1>4

\* Each event makes up what its request owed.
LEMMA EmitInv == ASSUME IInv, NEW h \in Handlers, Emit(h) PROVE IInv'
<1> DEFINE i == req[h].id
           new == seen'[i]
<1>a. /\ req[h].op \in Ops /\ Pc(req[h]) = "emit" /\ ShapeInv(req[h])
      /\ AlwaysInv(req[h]) /\ AloneInv(req[h]) /\ ClientInv(req[h])
      /\ i \in Ids /\ i # None /\ rows[i] # None /\ rows[i] \in Row
  BY EmitFacts
<1>c. req[h].op \in {"send", "edit", "react"} => req[h].payload \in Payload
  BY EmitFacts
<1>1. /\ Finish(h) /\ UNCHANGED <<kind, rows, reactions, raced, silent, toggled>>
      /\ seen' \in [Ids -> Payload \cup {None}]
      /\ \A j \in Ids : j # i => seen'[j] = seen[j]
  BY EmitFacts
<1>2. /\ req[h].op = "send" => new = req[h].payload
      /\ req[h].op # "send" /\ seen[i] = None => new = None
      /\ req[h].op = "edit" /\ seen[i] # None => new = req[h].payload
      /\ req[h].op = "delete" /\ seen[i] # None =>
             /\ new # None /\ new.text = seen[i].text /\ new.deleted = TRUE
             /\ new.reactions = seen[i].reactions
      /\ req[h].op = "react" /\ seen[i] # None =>
             /\ new # None /\ new.text = seen[i].text /\ new.deleted = seen[i].deleted
             /\ new.reactions = req[h].payload.reactions
  BY EmitFacts
<1> HIDE DEF new
<1>4. Types' /\ ReactionsCountToggles'
  BY <1>1, IdleInv DEF IInv, Types, ReactionsCountToggles, Finish
<1>5. Only(i)  BY <1>1 DEF Only, Reactors
<1>6. req' = [req EXCEPT ![h] = Idle] /\ ReqInv(req[h])'  BY <1>1, EndedInv
<1>7. ASSUME new # None, new.deleted = TRUE PROVE rows[i].deleted = TRUE
  BY <1>7, <1>a, <1>2 DEF AlwaysInv, ShownInv, IInv, ShapeInv, Ops
<1>8. ASSUME i \notin raced, i \notin silent PROVE new # None /\ Current(new, i)
  <2>1. CASE req[h].op = "send"
    BY <1>8, <2>1, <1>a, <1>c, <1>2 DEF AloneInv
  <2>2. CASE req[h].op = "edit"
    BY <1>8, <2>2, <1>a, <1>c, <1>2 DEF AloneInv, ClientInv
  <2>3. CASE req[h].op = "delete"
    BY <1>8, <2>3, <1>a, <1>c, <1>2 DEF AlwaysInv, ClientInv, Current
  <2>4. CASE req[h].op = "react"
    BY <1>8, <2>4, <1>a, <1>c, <1>2 DEF AloneInv, ClientInv, Current
  <2> QED BY <1>a, <2>1, <2>2, <2>3, <2>4 DEF Ops
<1>9. \A j \in Ids : j = i =>
          /\ rows'[j] # None
          /\ seen'[j] # None /\ seen'[j].deleted = TRUE => rows'[j].deleted = TRUE
          /\ j \notin raced' /\ j \notin silent' => seen'[j] # None /\ Current(seen[j], j)'
  BY <1>a, <1>1, <1>7, <1>8 DEF Current, Reactors, new
<1>10. req[h].op = "send" \/ (seen[i] = None => seen'[i] = None)  BY <1>2 DEF new
<1> QED BY <1>a, <1>4, <1>5, <1>6, <1>9, <1>10, IdleInv, OwnStepInv

LEMMA NextInv == IInv /\ [Next]_vars => IInv'
<1> SUFFICES ASSUME IInv, [Next]_vars PROVE IInv'  OBVIOUS
<1>1. CASE UNCHANGED vars  BY <1>1, UntouchedInv DEF vars, tables
<1>2. ASSUME NEW h \in Handlers, HandlerStep(h) PROVE IInv'
  <2>1. CASE CheckBan(h)  BY <2>1, CheckInv DEF CheckBan
  <2> QED BY <1>2, <2>1, CheckMemberInv, FindMessageInv, InsertMessageInv, ReadUsernameInv,
             UpdateMessageInv, RemoveMessageInv, LookupReactionInv, ToggleReactionInv,
             ListReactionsInv, EmitInv DEF HandlerStep
<1>3. ASSUME NEW h \in Handlers, Fail(h) PROVE IInv'  BY <1>3, FailInv
<1>4. ASSUME NEW h \in Handlers, NEW u \in Users, ArriveSend(h, u) PROVE IInv'
  BY <1>4, ArriveInv DEF ArriveSend, Ops
<1>5. ASSUME NEW h \in Handlers, NEW u \in Users, NEW i \in Existing,
             ArriveEdit(h, u, i) \/ ArriveDelete(h, u, i) \/ ArriveReact(h, u, i)
      PROVE  IInv'
  <2>1. i \in Ids /\ i # None /\ rows[i] # None  BY DEF Existing
  <2> QED BY <1>5, <2>1, ArriveInv DEF ArriveEdit, ArriveDelete, ArriveReact, Ops
<1>6. ASSUME NEW u \in Users, ChangeMembership(u) PROVE IInv'
  BY <1>6, UntouchedInv DEF ChangeMembership
<1> QED BY <1>1, <1>2, <1>3, <1>4, <1>5, <1>6 DEF Next

THEOREM Inductive == Spec => []IInv
  BY InitInv, NextInv, PTL DEF Spec

--------------------------------------------------------------------------------
(* The properties *)

\* Messages!ReactionsCountToggles: a reaction is there after an odd number of
\* toggles that succeeded, however they interleave.
THEOREM ReactionsCountTogglesAlways == Spec => []ReactionsCountToggles
<1>1. IInv => ReactionsCountToggles  BY DEF IInv
<1> QED BY <1>1, Inductive, PTL

\* Messages!OnlyRacesMisleadClients: on a message nobody works on, the clients
\* show what the tables hold, unless requests raced on it, one failed in the
\* middle, or it was changed over REST.
THEOREM OnlyRacesMisleadClientsAlways == Spec => []OnlyRacesMisleadClients
<1>1. IInv => OnlyRacesMisleadClients
  BY DEF IInv, ShownInv, Current, OnlyRacesMisleadClients, Existing
<1> QED BY <1>1, Inductive, PTL

\* Only events change what the clients show.
LEMMA SeenByEmit ==
    ASSUME [Next]_vars, ~\E h \in Handlers : Emit(h) PROVE seen' = seen
  BY DEF Next, vars, HandlerStep, CheckMember, CheckBan, Check, End, FindMessage,
         InsertMessage, ReadUsername, UpdateMessage, RemoveMessage, LookupReaction,
         ToggleReaction, ListReactions, Fail, ArriveSend, ArriveEdit, ArriveDelete,
         ArriveReact, Arrive, ChangeMembership

\* Messages!OnlyRacesRevive: a message that is shown as deleted is shown as
\* there again only if requests raced on it.
THEOREM OnlyRacesReviveAlways == Spec => OnlyRacesRevive
<1>1. ASSUME IInv, [Next]_vars, NEW i \in Ids,
             seen[i] # None, seen[i].deleted, ~seen'[i].deleted
      PROVE  i \in raced
  <2>1. seen[i].deleted = TRUE /\ rows[i].deleted = TRUE
    <3>1. seen[i] \in Payload  BY <1>1 DEF IInv, Types
    <3>2. seen[i].deleted = TRUE  BY <1>1, <3>1 DEF Payload
    <3> QED BY <1>1, <3>2 DEF IInv, ShownInv
  <2>2. PICK h \in Handlers : Emit(h)  BY <1>1, SeenByEmit
  <2>3. i = req[h].id  BY <1>1, <2>2, EmitFacts
  <2>4. req[h].op = "edit" /\ seen'[i] = req[h].payload
    BY <1>1, <2>1, <2>2, <2>3, EmitFacts DEF AlwaysInv, Ops
  <2>5. i \notin raced => req[h].payload.deleted = rows[i].deleted
    BY <1>1, <2>2, <2>3, <2>4, EmitFacts DEF AloneInv, Current
  <2> QED BY <1>1, <2>1, <2>4, <2>5
<1>2. IInv /\ [Next]_vars =>
          [\A i \in Ids : seen[i] # None /\ seen[i].deleted /\ ~seen'[i].deleted
                              => i \in raced]_vars
  BY <1>1
<1> QED BY <1>2, Inductive, PTL DEF Spec, OnlyRacesRevive

\* Only an update changes the text of a message that is there.
LEMMA TextByUpdate ==
    ASSUME IInv, [Next]_vars, ~\E h \in Handlers : UpdateMessage(h), NEW i \in Existing
    PROVE  rows'[i].text = rows[i].text
<1>1. ASSUME NEW h \in Handlers, InsertMessage(h) PROVE rows'[i] = rows[i]
  BY <1>1 DEF InsertMessage, Existing, IInv, Types
<1>2. ASSUME NEW h \in Handlers, RemoveMessage(h) PROVE rows'[i].text = rows[i].text
  <2>1. rows[i] \in Row  BY DEF Existing, IInv, Types
  <2> QED BY <1>2, <2>1 DEF RemoveMessage, Existing, IInv, Types, Row
<1>3. CASE \A h \in Handlers : ~InsertMessage(h) /\ ~RemoveMessage(h)
  <2>1. rows' = rows
    BY <1>3 DEF Next, vars, tables, HandlerStep, CheckMember, CheckBan, Check, End,
           FindMessage, ReadUsername, LookupReaction, ToggleReaction, ListReactions,
           Emit, Fail, ArriveSend, ArriveEdit, ArriveDelete, ArriveReact, Arrive,
           ChangeMembership
  <2> QED BY <2>1
<1> QED BY <1>1, <1>2, <1>3

\* Messages!DeletedIsFrozen: the content of a deleted DM changes only if an edit
\* and the deletion raced.
THEOREM DeletedIsFrozenAlways == Spec => DeletedIsFrozen
<1>1. ASSUME IInv, [Next]_vars, kind = "DM", NEW i \in Existing,
             rows[i].deleted, rows'[i].text # rows[i].text
      PROVE  i \in raced
  <2>1. PICK h \in Handlers : UpdateMessage(h)  BY <1>1, TextByUpdate
  <2>2. i = req[h].id
    BY <1>1, <2>1 DEF UpdateMessage, IInv, Types, Existing
  <2>3. /\ Pc(req[h]) = "update" /\ req[h].op = "edit" /\ AloneInv(req[h])
        /\ i # None
    BY <1>1, <2>1, <2>2, AtFacts, WriteFacts DEF UpdateMessage
  <2> QED BY <1>1, <2>2, <2>3 DEF AloneInv
<1>2. IInv /\ [Next]_vars =>
          [kind = "DM" =>
             \A i \in Existing : rows[i].deleted /\ rows'[i].text # rows[i].text
                                     => i \in raced]_vars
  BY <1>1
<1> QED BY <1>2, Inductive, PTL DEF Spec, DeletedIsFrozen

================================================================================
