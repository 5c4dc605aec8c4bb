---------------------------- MODULE AttachmentsProofs ----------------------------
(***************************************************************************)
(* What the attachments of one chat keep, for any number of users,         *)
(* requests and files.                                                     *)
(*                                                                         *)
(* An id is used once, so what a request has read of a row stays true as   *)
(* long as the row is there: ReqInv says what a request may still rely on  *)
(* at each of its awaits.  SweptInv is the argument about deleteRoom: every *)
(* row but the late ones is listed, swept and only then lost.              *)
(***************************************************************************)
EXTENDS Attachments, TLAPS

\* Nothing of i that the deletion should have found is left in the store, unless
\* the store failed to delete it.
Settled(i) == i \in late \cup kept \/ (i \in swept /\ i \notin uploads)

\* What the request r relies on at its await.
ReqInv(r) ==
    /\ r \in Request
    /\ r.pc # "idle" => r.actor \in Users
    /\ r.id # None => r.id \in used
    /\ r.pc \in {"head", "get", "thumb", "commit",
                 "sendBan", "sendRead", "sendLinked", "insert"} => r.id \in used
    /\ r.listed \in SUBSET used
    /\ r.pc \in {"get", "thumb", "commit"} => r.id \in uploads \cup swept
    /\ r.thumb = TRUE => r.id \in thumbs
    /\ r.pc \in {"sendLinked", "insert"} /\ rows[r.id] # None =>
           rows[r.id].uploader = r.actor /\ rows[r.id].committed = TRUE
    /\ kind = "ROOM" /\ r.pc = "objects" => \A i \in used : i \in r.listed \/ Settled(i)
    /\ kind = "ROOM" /\ r.pc \in {"rows", "room"} => \A i \in used : Settled(i)

Types ==
    /\ kind \in {"ROOM", "DM"}
    /\ chat \in BOOLEAN
    /\ access \in SUBSET Users /\ banned \in SUBSET Users
    /\ used \in SUBSET Ids
    /\ rows \in [Ids -> Row \cup {None}]
    /\ uploads \in SUBSET used /\ thumbs \in SUBSET used /\ urls \in SUBSET used
    /\ messages \in SUBSET (MsgIds \X Users \X used)
    /\ swept \in SUBSET used /\ kept \in SUBSET swept /\ late \in SUBSET used

RowsInv == \A i \in Ids : rows[i] # None => i \in used

RequestsInv == req \in [Handlers -> Request] /\ \A h \in Handlers : ReqInv(req[h])

SweptInv ==
    kind = "ROOM" =>
        /\ chat = FALSE => \A i \in used : Settled(i)
        /\ \A i \in used : rows[i] # None \/ Settled(i)

\* MessagesShowOwnFile, in terms the provers like.
ShownInv ==
    /\ \A m \in messages : /\ rows[m[3]] # None
                           /\ rows[m[3]].uploader = m[2]
                           /\ rows[m[3]].committed = TRUE
    /\ \A m, n \in messages : m[3] = n[3] => m = n

StoredInv ==
    \A i \in Ids : rows[i] # None =>
        /\ rows[i].committed = TRUE => i \in uploads \cup swept
        /\ rows[i].thumb = TRUE => i \in thumbs

IInv == Types /\ RowsInv /\ RequestsInv /\ SweptInv /\ ShownInv /\ StoredInv

USE NoneAssumption, RowAssumption, OwnerAssumption

LEMMA IdleOK == Idle \in Request
  BY DEF Idle, Request, Pcs

LEMMA InitInv == Init => IInv
<1> SUFFICES ASSUME Init PROVE IInv  OBVIOUS
<1> USE DEF Init
<1>1. Types  BY DEF Types
<1>2. RequestsInv  BY IdleOK DEF RequestsInv, ReqInv, Idle
<1>3. RowsInv /\ SweptInv /\ ShownInv /\ StoredInv
  BY DEF RowsInv, SweptInv, ShownInv, StoredInv
<1> QED BY <1>1, <1>2, <1>3 DEF IInv

LEMMA StutterInv == IInv /\ UNCHANGED vars => IInv'
  BY DEF IInv, vars, tables, store, history, Types, RowsInv, RequestsInv, ReqInv,
         SweptInv, Settled, ShownInv, StoredInv

--------------------------------------------------------------------------------
(* Steps that change the request only *)

\* A request may go on as r, if r relies on nothing that does not hold.
LEMMA BecomeInv ==
    ASSUME IInv, NEW h \in Handlers, NEW STATE r, ReqInv(r), Become(h, r),
           UNCHANGED <<tables, store, history>>
    PROVE  IInv'
<1> USE DEF Become, tables, store, history
<1>1. RequestsInv'
  <2>1. req' \in [Handlers -> Request]  BY DEF IInv, RequestsInv, ReqInv
  <2>2. ASSUME NEW g \in Handlers PROVE ReqInv(req[g])'
    <3>1. CASE g = h
      <4>1. req'[g] = r  BY <3>1 DEF IInv, RequestsInv
      <4> QED BY <4>1 DEF ReqInv, Settled
    <3>2. CASE g # h
      <4>1. req'[g] = req[g]  BY <3>2 DEF IInv, RequestsInv
      <4> QED BY <4>1 DEF ReqInv, Settled, IInv, RequestsInv
    <3> QED BY <3>1, <3>2
  <2> QED BY <2>1, <2>2 DEF RequestsInv
<1>2. (Types /\ RowsInv /\ SweptInv /\ ShownInv /\ StoredInv)'
  BY DEF IInv, Types, RowsInv, SweptInv, Settled, ShownInv, StoredInv
<1> QED BY <1>1, <1>2 DEF IInv

LEMMA AbortInv == ASSUME IInv, NEW h \in Handlers, Abort(h) PROVE IInv'
<1>1. ReqInv(Idle)  BY IdleOK DEF ReqInv, Idle
<1> QED BY <1>1, BecomeInv DEF Abort, Done

\* A request arrives; in ChecksInv it moves to another await, or throws.
LEMMA StartsInv ==
    ASSUME IInv, NEW h \in Handlers, NEW u \in Users, NEW i \in Ids,
           StartCommit(h, u, i) \/ StartSend(h, u, i)
    PROVE  IInv'
<1> USE DEF ReqInv, Idle, Request, Pcs
<1>2. CASE StartCommit(h, u, i)
  <2>1. ReqInv([Idle EXCEPT !.pc = "head", !.actor = u, !.id = i])
    BY <1>2 DEF StartCommit, IInv, RowsInv
  <2> QED BY <1>2, <2>1, BecomeInv DEF StartCommit, Begin
<1>3. CASE StartSend(h, u, i)
  <2>1. ASSUME NEW pc \in {"sendBan", "sendRead"}
        PROVE  ReqInv([Idle EXCEPT !.pc = pc, !.actor = u, !.id = i])
    BY <1>3 DEF StartSend
  <2> QED BY <1>3, <2>1, BecomeInv DEF StartSend, Begin
<1> QED BY <1>2, <1>3

LEMMA ChecksInv ==
    ASSUME IInv, NEW h \in Handlers,
           \/ CheckAccess(h) \/ CheckUploadBan(h) \/ HeadObject(h) \/ GetObject(h)
           \/ CheckSendBan(h) \/ ReadAttachment(h) \/ CheckLinked(h) \/ ListRows(h)
    PROVE  IInv'
<1> DEFINE Moved(pc) == [req[h] EXCEPT !.pc = pc]
<1>0. ReqInv(req[h]) /\ req[h] \in Request  BY DEF IInv, RequestsInv
<1> USE <1>0 DEF ReqInv, Request, At
<1>1. CASE CheckAccess(h)
  <2>1. ASSUME NEW pc \in {"upBan", "create"} PROVE ReqInv(Moved(pc))
    BY <1>1 DEF CheckAccess, Pcs
  <2> QED BY <1>1, <2>1, AbortInv, BecomeInv DEF CheckAccess, Check, Goto
<1>2. CASE CheckUploadBan(h)
  <2>1. ReqInv(Moved("create"))  BY <1>2 DEF CheckUploadBan, Pcs
  <2> QED BY <1>2, <2>1, AbortInv, BecomeInv DEF CheckUploadBan, Check, Goto
<1>3. CASE HeadObject(h)
  <2>1. req[h].id \in uploads => ReqInv(Moved("get"))  BY <1>3 DEF HeadObject, Pcs
  <2> QED BY <1>3, <2>1, AbortInv, BecomeInv DEF HeadObject, Check, Goto
<1>4. CASE GetObject(h)
  <2>1. ASSUME NEW pc \in {"thumb", "commit"} PROVE ReqInv(Moved(pc))
    BY <1>4 DEF GetObject, Pcs
  <2> QED BY <1>4, <2>1, AbortInv, BecomeInv DEF GetObject, Check, Goto
<1>5. CASE CheckSendBan(h)
  <2>1. ReqInv(Moved("sendRead"))  BY <1>5 DEF CheckSendBan, Pcs
  <2> QED BY <1>5, <2>1, AbortInv, BecomeInv DEF CheckSendBan, Check, Goto
<1>6. CASE ReadAttachment(h)
  <2>1. Sendable(req[h].id, req[h].actor) => ReqInv(Moved("sendLinked"))
    BY <1>6 DEF ReadAttachment, Sendable, Pcs, IInv, Types, Row
  <2> QED BY <1>6, <2>1, AbortInv, BecomeInv DEF ReadAttachment, Check, Goto
<1>7. CASE CheckLinked(h)
  <2>1. ReqInv(Moved("insert"))  BY <1>7 DEF CheckLinked, Pcs
  <2> QED BY <1>7, <2>1, AbortInv, BecomeInv DEF CheckLinked, Check, Goto
<1>8. CASE ListRows(h)
  <2>1. ReqInv([req[h] EXCEPT !.pc = "objects", !.listed = RowsToDelete])
    BY <1>8 DEF ListRows, RowsToDelete, Rows, Pcs, IInv, Types, RowsInv, SweptInv
  <2> QED BY <1>8, <2>1, BecomeInv DEF ListRows
<1> QED BY <1>1, <1>2, <1>3, <1>4, <1>5, <1>6, <1>7, <1>8

--------------------------------------------------------------------------------
(* Steps that write *)

\* What other requests rely on survives a step that takes nothing away: rows
\* stay with their uploader and stay committed, objects stay or are swept.
Grows ==
    /\ UNCHANGED kind
    /\ used \subseteq used' /\ thumbs \subseteq thumbs' /\ swept \subseteq swept'
    /\ kept \subseteq kept' /\ late \subseteq late'
    /\ \A i \in used : i \in uploads \cup swept => i \in uploads' \cup swept'
    /\ \A i \in used : Settled(i) => Settled(i)'
    /\ \A i \in used : rows'[i] # None =>
           /\ rows[i] # None
           /\ rows'[i].uploader = rows[i].uploader
           /\ rows[i].committed = TRUE => rows'[i].committed = TRUE
    /\ \A g \in Handlers : req[g].pc \in {"objects", "rows", "room"} =>
           \A i \in used' \ used : i \in late'

\* A request that such a step leaves alone may rely on what it did.
LEMMA KeptInv ==
    ASSUME IInv, Grows, NEW g \in Handlers, req'[g] = req[g]
    PROVE  ReqInv(req[g])'
<1> USE DEF Grows
<1>0. ReqInv(req[g]) /\ req[g] \in Request  BY DEF IInv, RequestsInv
<1>1. req[g].pc \in {"sendLinked", "insert"} /\ rows'[req[g].id] # None =>
          rows'[req[g].id].uploader = req[g].actor /\ rows'[req[g].id].committed = TRUE
  BY <1>0 DEF ReqInv
<1>2. kind = "ROOM" /\ req[g].pc = "objects" =>
          \A i \in used' : i \in req[g].listed \/ Settled(i)'
  BY <1>0 DEF ReqInv, Settled
<1>3. kind = "ROOM" /\ req[g].pc \in {"rows", "room"} => \A i \in used' : Settled(i)'
  BY <1>0 DEF ReqInv, Settled
<1> QED BY <1>0, <1>1, <1>2, <1>3 DEF ReqInv

\* So does the request that writes, if it ends; or no request changes.
LEMMA GrowsInv ==
    ASSUME IInv, Grows, UNCHANGED req \/ \E h \in Handlers : Done(h)
    PROVE  RequestsInv'
<1>1. ReqInv(Idle)'  BY IdleOK DEF ReqInv, Idle
<1>2. CASE UNCHANGED req
  BY <1>2, KeptInv DEF RequestsInv, IInv
<1>3. ASSUME NEW h \in Handlers, Done(h) PROVE RequestsInv'
  <2>1. req' = [req EXCEPT ![h] = Idle]  BY <1>3 DEF Done, Become
  <2>2. req' \in [Handlers -> Request]  BY <2>1, IdleOK DEF IInv, RequestsInv
  <2>3. ASSUME NEW g \in Handlers PROVE ReqInv(req[g])'
    <3>1. CASE g = h
      <4>1. req'[g] = Idle  BY <2>1, <3>1 DEF IInv, RequestsInv
      <4> QED BY <4>1, <1>1 DEF ReqInv, Idle
    <3>2. CASE g # h
      <4>1. req'[g] = req[g]  BY <2>1, <3>2 DEF IInv, RequestsInv
      <4> QED BY <4>1, KeptInv
    <3> QED BY <3>1, <3>2
  <2> QED BY <2>2, <2>3 DEF RequestsInv
<1> QED BY <1>2, <1>3

\* The request that writes moves to its next await.
LEMMA GrowsOnInv ==
    ASSUME IInv, Grows, NEW h \in Handlers, NEW STATE r, r \in Request, Become(h, r),
           ReqInv(req[h])'
    PROVE  RequestsInv'
<1>1. req' = [req EXCEPT ![h] = r]  BY DEF Become
<1>2. req' \in [Handlers -> Request]  BY <1>1 DEF IInv, RequestsInv
<1>3. ASSUME NEW g \in Handlers, g # h PROVE ReqInv(req[g])'
  <2>1. req'[g] = req[g]  BY <1>1, <1>3 DEF IInv, RequestsInv
  <2> QED BY <2>1, KeptInv
<1> QED BY <1>2, <1>3 DEF RequestsInv

\* A row created while a deletion is past its list is late.
LEMMA CreateRowInv == ASSUME IInv, NEW h \in Handlers, CreateRow(h) PROVE IInv'
<1>1. CASE ~chat /\ Abort(h)  BY <1>1, AbortInv
<1>2. ASSUME chat, NEW i \in Ids \ used,
             rows' = [rows EXCEPT ![i] = [uploader |-> req[h].actor,
                                          committed |-> FALSE, thumb |-> FALSE]],
             used' = used \cup {i}, urls' = urls \cup {i},
             late' = (IF Listed THEN late \cup {i} ELSE late), Done(h),
             UNCHANGED <<kind, chat, access, banned, messages, uploads, thumbs, swept, kept>>
      PROVE  IInv'
  <2> USE <1>2
  <2>0. req[h].actor \in Users  BY DEF CreateRow, At, IInv, RequestsInv, ReqInv
  <2>1. [uploader |-> req[h].actor, committed |-> FALSE, thumb |-> FALSE] \in Row
    BY <2>0 DEF Row
  <2>2. Types'
    <3>1. late' \in SUBSET used'  BY DEF IInv, Types
    <3> QED BY <2>1, <3>1 DEF IInv, Types
  <2>3. /\ rows'[i] \in Row /\ rows'[i].committed = FALSE /\ rows'[i].thumb = FALSE
        /\ \A j \in Ids : j # i => rows'[j] = rows[j]
    BY <2>1 DEF IInv, Types
  <2>4. RowsInv'  BY <2>3 DEF IInv, RowsInv
  <2>5. \A j \in used : Settled(j) => Settled(j)'  BY DEF Settled
  <2>6. Grows
    <3>1. \A g \in Handlers : req[g].pc \in {"objects", "rows", "room"} =>
              \A j \in used' \ used : j \in late'
      BY DEF Listed
    <3>2. \A j \in used : j \in Ids /\ j # i  BY DEF IInv, Types
    <3> QED BY <2>3, <2>5, <3>1, <3>2 DEF Grows
  <2>7. RequestsInv'  BY <2>6, GrowsInv
  <2>8. SweptInv'
    BY <2>3, <2>5 DEF IInv, SweptInv, Types
  <2>9. ShownInv'
    BY <2>3 DEF IInv, ShownInv, Types
  <2>10. StoredInv'  BY <2>3 DEF IInv, StoredInv
  <2> QED BY <2>2, <2>4, <2>7, <2>8, <2>9, <2>10 DEF IInv
<1> QED BY <1>1, <1>2 DEF CreateRow

\* An object put after the sweep is late.
LEMMA ObjectsInv ==
    ASSUME IInv, NEW i \in Ids, PutObject(i) \/ ExpireUrl(i) PROVE IInv'
<1> USE DEF PutObject, ExpireUrl, tables, history
<1>1. Types'  BY DEF IInv, Types
<1>2. \A j \in used : Settled(j) => Settled(j)'  BY DEF Settled
<1>3. Grows  BY <1>2 DEF Grows
<1>4. RequestsInv'  BY <1>3, GrowsInv
<1>5. SweptInv'  BY <1>2 DEF IInv, SweptInv
<1>6. RowsInv' /\ ShownInv' /\ StoredInv'  BY DEF IInv, RowsInv, ShownInv, StoredInv
<1> QED BY <1>1, <1>4, <1>5, <1>6 DEF IInv

LEMMA PutThumbnailInv == ASSUME IInv, NEW h \in Handlers, PutThumbnail(h) PROVE IInv'
<1> SUFFICES ASSUME NEW ok \in BOOLEAN,
                    thumbs' = (IF ok THEN thumbs \cup {req[h].id} ELSE thumbs),
                    Become(h, [req[h] EXCEPT !.pc = "commit", !.thumb = ok])
             PROVE  IInv'
  BY DEF PutThumbnail
<1> USE DEF tables, history
<1>0. /\ UNCHANGED <<tables, uploads, urls, history>> /\ req[h].pc = "thumb"
      /\ ReqInv(req[h]) /\ req[h] \in Request /\ req[h].id \in used
  BY DEF PutThumbnail, At, IInv, RequestsInv, ReqInv
<1> DEFINE r == [req[h] EXCEPT !.pc = "commit", !.thumb = ok]
<1>1. Types'  BY <1>0 DEF IInv, Types
<1>2. Grows  BY <1>0 DEF Grows, Settled
<1>3. RequestsInv'
  <2>1. r \in Request /\ r.pc = "commit" /\ r.id = req[h].id /\ r.actor = req[h].actor
        /\ r.listed = req[h].listed /\ r.thumb = ok
    BY <1>0 DEF Request, Pcs
  <2>2. req'[h] = r  BY DEF Become, IInv, RequestsInv
  <2>3. ReqInv(req[h])'  BY <1>0, <2>1, <2>2 DEF ReqInv
  <2> QED BY <1>2, <2>1, <2>3, GrowsOnInv
<1>4. RowsInv' /\ SweptInv' /\ ShownInv' /\ StoredInv'
  BY <1>0 DEF IInv, RowsInv, SweptInv, Settled, ShownInv, StoredInv
<1> QED BY <1>1, <1>3, <1>4 DEF IInv

\* The row becomes committed: its file is in the store or swept.
LEMMA CommitRowInv == ASSUME IInv, NEW h \in Handlers, CommitRow(h) PROVE IInv'
<1> DEFINE i == req[h].id
<1>1. CASE rows[i] = None /\ Abort(h)  BY <1>1, AbortInv
<1>2. CASE /\ rows[i] # None
           /\ rows' = [rows EXCEPT ![i].committed = TRUE, ![i].thumb = @ \/ req[h].thumb]
           /\ Done(h)
           /\ UNCHANGED <<kind, chat, access, banned, used, messages, store, history>>
  <2> USE <1>2 DEF store, history
  <2>0. /\ i \in used /\ i \in Ids /\ rows[i] \in Row
        /\ i \in uploads \cup swept /\ (req[h].thumb = TRUE => i \in thumbs)
        /\ req[h].thumb \in BOOLEAN
    BY DEF CommitRow, At, IInv, Types, RequestsInv, ReqInv, Request
  <2> DEFINE row == [rows[i] EXCEPT !.committed = TRUE, !.thumb = @ \/ req[h].thumb]
  <2>1. row \in Row /\ row.uploader = rows[i].uploader /\ row.committed = TRUE
        /\ (row.thumb = TRUE => rows[i].thumb = TRUE \/ req[h].thumb = TRUE)
    BY <2>0 DEF Row
  <2>2. rows' = [rows EXCEPT ![i] = row]  BY <2>0 DEF IInv, Types, Row
  <2> HIDE DEF i, row
  <2>3. rows'[i] = row /\ rows'[i] # None /\ \A j \in Ids : j # i => rows'[j] = rows[j]
    <3>1. rows \in [Ids -> Row \cup {None}] /\ i \in Ids  BY <2>0 DEF IInv, Types
    <3>2. row # None  BY <2>1
    <3> QED BY <2>2, <3>1, <3>2
  <2>4. Types'
    <3>1. rows' \in [Ids -> Row \cup {None}]  BY <2>1, <2>2 DEF IInv, Types
    <3>2. UNCHANGED <<kind, chat, access, banned, used, messages, uploads, thumbs, urls, history>>
      BY <1>2 DEF store, history
    <3> QED BY ONLY IInv, <3>1, <3>2 DEF IInv, Types, history
  <2>5. Grows
    <3>1. \A j \in used : j \in Ids  BY DEF IInv, Types
    <3>2. \A j \in used : Settled(j)' <=> Settled(j)  BY DEF Settled
    <3>3. \A j \in used : rows'[j] # None =>
             /\ rows[j] # None /\ rows'[j].uploader = rows[j].uploader
             /\ rows[j].committed = TRUE => rows'[j].committed = TRUE
      BY <2>0, <2>1, <2>3, <3>1
    <3> QED BY <3>2, <3>3 DEF Grows
  <2>6. RequestsInv'  BY <2>5, GrowsInv
  <2>7. RowsInv'  BY <2>0, <2>3 DEF IInv, RowsInv
  <2>8. SweptInv'  BY <2>0, <2>3 DEF IInv, SweptInv, Settled, Types
  <2>9. ShownInv'
    <3>1. messages' = messages /\ \A m \in messages : m[3] \in Ids  BY DEF IInv, Types
    <3>2. \A j \in Ids : rows[j] # None =>
             /\ rows'[j] # None /\ rows'[j].uploader = rows[j].uploader
             /\ rows[j].committed = TRUE => rows'[j].committed = TRUE
      BY <2>1, <2>3
    <3> QED BY ONLY IInv, <3>1, <3>2 DEF IInv, ShownInv
  <2>10. StoredInv'  BY <2>0, <2>1, <2>3 DEF IInv, StoredInv, i
  <2> QED BY <2>4, <2>6, <2>7, <2>8, <2>9, <2>10 DEF IInv
<1> QED BY <1>1, <1>2 DEF CommitRow

\* What the request has read about the row is still so.
LEMMA InsertMessageInv == ASSUME IInv, NEW h \in Handlers, InsertMessage(h) PROVE IInv'
<1> DEFINE i == req[h].id
<1>1. CASE ~InsertAllowed(i) /\ Abort(h)  BY <1>1, AbortInv
<1>2. ASSUME InsertAllowed(i), NEW n \in MsgIds \ {m[1] : m \in messages},
             messages' = messages \cup {<<n, req[h].actor, i>>},
             Done(h),
             UNCHANGED <<kind, chat, access, banned, rows, used, store, history>>
      PROVE  IInv'
  <2> USE <1>2 DEF store, history
  <2>0. /\ i \in used /\ req[h].actor \in Users
        /\ rows[i] # None /\ rows[i].uploader = req[h].actor /\ rows[i].committed = TRUE
        /\ \A m \in messages : m[3] # i
    BY DEF InsertMessage, At, IInv, RequestsInv, ReqInv, InsertAllowed, Linked
  <2>1. Types'  BY <2>0 DEF IInv, Types
  <2>2. RequestsInv'
    <3>1. Grows  BY DEF Grows, Settled
    <3> QED BY <3>1, GrowsInv
  <2>3. ShownInv'  BY <2>0 DEF IInv, ShownInv, Types
  <2>4. RowsInv' /\ SweptInv' /\ StoredInv'
    BY DEF IInv, RowsInv, SweptInv, Settled, StoredInv
  <2> QED BY <2>1, <2>2, <2>3, <2>4 DEF IInv
<1> QED BY <1>1, <1>2 DEF InsertMessage

\* Every row there was when the deletion listed them is swept.
LEMMA DeleteObjectsInv == ASSUME IInv, NEW h \in Handlers, DeleteObjects(h) PROVE IInv'
<1> SUFFICES ASSUME NEW failed \in SUBSET (req[h].listed \cap uploads),
                    uploads' = (uploads \ req[h].listed) \cup failed,
                    kept' = kept \cup failed
             PROVE  IInv'
  BY DEF DeleteObjects
<1> USE DEF tables
<1>0. /\ ReqInv(req[h]) /\ req[h] \in Request /\ req[h].pc = "objects"
      /\ swept' = swept \cup req[h].listed
      /\ Become(h, [req[h] EXCEPT !.pc = "rows"])
      /\ UNCHANGED <<tables, thumbs, urls, late>>
  BY DEF DeleteObjects, At, IInv, RequestsInv
<1>1. Types'  BY <1>0 DEF IInv, Types, ReqInv
<1>2. \A i \in used : Settled(i) => Settled(i)'  BY <1>0 DEF Settled
<1>3. Grows  BY <1>0, <1>2 DEF Grows
<1>4. RequestsInv'
  <2> DEFINE r == [req[h] EXCEPT !.pc = "rows"]
  <2>1. r \in Request /\ r.pc = "rows" /\ r.id = req[h].id /\ r.actor = req[h].actor
        /\ r.listed = req[h].listed /\ r.thumb = req[h].thumb
    BY <1>0 DEF Request, Pcs
  <2>2. req'[h] = r  BY <1>0 DEF Become, IInv, RequestsInv
  <2>3. kind = "ROOM" => \A i \in used : Settled(i)'
    BY <1>0, <1>2 DEF ReqInv, Settled
  <2>4. ReqInv(req[h])'  BY <1>0, <2>1, <2>2, <2>3 DEF ReqInv
  <2> QED BY <1>3, <2>1, <2>4, <1>0, GrowsOnInv
<1>5. SweptInv'  BY <1>0, <1>2 DEF IInv, SweptInv
<1>6. RowsInv' /\ ShownInv' /\ StoredInv'  BY <1>0 DEF IInv, RowsInv, ShownInv, StoredInv
<1> QED BY <1>1, <1>4, <1>5, <1>6 DEF IInv

\* The rows that go with the room are settled.
LEMMA DeleteRowsInv == ASSUME IInv, NEW h \in Handlers, DeleteRows(h) PROVE IInv'
<1> USE DEF DeleteRows, store, history
<1>0. ReqInv(req[h]) /\ req[h] \in Request /\ req[h].pc = "rows"
  BY DEF At, IInv, RequestsInv
<1>1. Types'  BY DEF IInv, Types
<1>2. Grows  BY DEF Grows, Settled, IInv, Types
<1>3. RequestsInv'
  <2> DEFINE r == [req[h] EXCEPT !.pc = "room"]
  <2>1. r \in Request /\ r.pc = "room" /\ r.id = req[h].id /\ r.actor = req[h].actor
        /\ r.listed = req[h].listed /\ r.thumb = req[h].thumb
    BY <1>0 DEF Request, Pcs
  <2>2. req'[h] = r  BY DEF Become, IInv, RequestsInv
  <2>3. ReqInv(req[h])'  BY <1>0, <2>1, <2>2 DEF ReqInv, Settled
  <2> QED BY <1>2, <2>1, <2>3, GrowsOnInv
<1>4. SweptInv'  BY <1>0 DEF IInv, SweptInv, ReqInv, Settled
<1>5. RowsInv' /\ ShownInv' /\ StoredInv'  BY DEF RowsInv, ShownInv, StoredInv
<1> QED BY <1>1, <1>3, <1>4, <1>5 DEF IInv

\* A room goes only when every id is settled; a thread owes nothing.
LEMMA CascadeInv ==
    ASSUME IInv, CascadeDelete, kind = "ROOM" => \A i \in used : Settled(i),
           UNCHANGED req \/ \E h \in Handlers : Done(h)
    PROVE  IInv'
<1> USE DEF CascadeDelete, store, history
<1>1. Types'  BY DEF IInv, Types
<1>2. Grows  BY DEF Grows, Settled, IInv, Types
<1>3. RequestsInv'  BY <1>2, GrowsInv
<1>4. SweptInv'  BY DEF SweptInv, Settled
<1>5. RowsInv' /\ ShownInv' /\ StoredInv'  BY DEF RowsInv, ShownInv, StoredInv
<1> QED BY <1>1, <1>3, <1>4, <1>5 DEF IInv

LEMMA DeleteChatInv ==
    ASSUME IInv, (\E h \in Handlers : DeleteRoom(h)) \/ DeleteThread
    PROVE  IInv'
<1>1. ASSUME NEW h \in Handlers, DeleteRoom(h) PROVE IInv'
  <2>1. kind = "ROOM" => \A i \in used : Settled(i)
    BY <1>1 DEF DeleteRoom, At, IInv, RequestsInv, ReqInv
  <2> QED BY <1>1, <2>1, CascadeInv, AbortInv DEF DeleteRoom
<1>2. CASE DeleteThread  BY <1>2, CascadeInv DEF DeleteThread
<1> QED BY <1>1, <1>2

LEMMA ChangeMembershipInv == ASSUME IInv, NEW u \in Users, ChangeMembership(u) PROVE IInv'
<1> USE DEF ChangeMembership, store, history
<1>1. Types'  BY DEF IInv, Types
<1>2. (RowsInv /\ RequestsInv /\ SweptInv /\ ShownInv /\ StoredInv)'
  BY DEF IInv, RowsInv, RequestsInv, ReqInv, SweptInv, Settled, ShownInv, StoredInv
<1> QED BY <1>1, <1>2 DEF IInv

LEMMA NextInv == IInv /\ [Next]_vars => IInv'
<1> SUFFICES ASSUME IInv, [Next]_vars PROVE IInv'  OBVIOUS
<1>1. CASE UNCHANGED vars  BY <1>1, StutterInv
<1>2. ASSUME NEW h \in Handlers, HandlerStep(h) PROVE IInv'
  BY <1>2, ChecksInv, CreateRowInv, PutThumbnailInv, CommitRowInv, InsertMessageInv,
     DeleteObjectsInv, DeleteRowsInv, DeleteChatInv DEF HandlerStep
<1>3. ASSUME NEW h \in Handlers, StartDeleteRoom(h) PROVE IInv'
  <2>1. ReqInv([Idle EXCEPT !.pc = "list", !.actor = Owner])
    BY DEF ReqInv, Idle, Request, Pcs
  <2> QED BY <1>3, <2>1, BecomeInv DEF StartDeleteRoom, Begin
<1>4. ASSUME NEW h \in Handlers, Fail(h) PROVE IInv'  BY <1>4, AbortInv DEF Fail
<1>5. ASSUME NEW h \in Handlers, NEW u \in Users, StartUpload(h, u) PROVE IInv'
  <2>1. ReqInv([Idle EXCEPT !.pc = "upAccess", !.actor = u])
    BY DEF ReqInv, Idle, Request, Pcs
  <2> QED BY <1>5, <2>1, BecomeInv DEF StartUpload, Begin
<1>6. ASSUME NEW h \in Handlers, NEW u \in Users, NEW i \in Ids,
             StartCommit(h, u, i) \/ StartSend(h, u, i)
      PROVE  IInv'
  BY <1>6, StartsInv
<1>7. ASSUME NEW i \in Ids, PutObject(i) \/ ExpireUrl(i) PROVE IInv'  BY <1>7, ObjectsInv
<1>8. ASSUME NEW u \in Users, ChangeMembership(u) PROVE IInv'
  BY <1>8, ChangeMembershipInv
<1>9. CASE DeleteThread  BY <1>9, DeleteChatInv
<1> QED BY <1>1, <1>2, <1>3, <1>4, <1>5, <1>6, <1>7, <1>8, <1>9 DEF Next

THEOREM Inductive == Spec => []IInv
  BY InitInv, NextInv, PTL DEF Spec

--------------------------------------------------------------------------------
(* The properties *)

\* Attachments!TypeOK
THEOREM TypeCorrect == Spec => []TypeOK
<1>1. IInv => TypeOK  BY DEF IInv, Types, RequestsInv, TypeOK
<1> QED BY <1>1, Inductive, PTL

\* Attachments!MessagesShowOwnFile: a message shows a committed file of its own
\* author, and no file is shown twice, although the checks before the insert
\* are queries of their own.
THEOREM MessagesShowOwnFileAlways == Spec => []MessagesShowOwnFile
<1>1. IInv => MessagesShowOwnFile  BY DEF IInv, ShownInv, MessagesShowOwnFile
<1> QED BY <1>1, Inductive, PTL

\* Attachments!StoredFilesExist: a committed row's file is in the store until it
\* is swept, and a thumbnail that a row names is there.
THEOREM StoredFilesExistAlways == Spec => []StoredFilesExist
<1>1. IInv => StoredFilesExist
  BY DEF IInv, Types, Row, StoredInv, StoredFilesExist, Rows
<1> QED BY <1>1, Inductive, PTL

\* Attachments!OnlyLateUploadsOutliveRoom: deleteRoom forgets no upload but
\* those requested after its list or put after its sweep, however many deletions
\* of the room run at the same time.
THEOREM OnlyLateUploadsOutliveRoomAlways == Spec => []OnlyLateUploadsOutliveRoom
<1>1. IInv => OnlyLateUploadsOutliveRoom
  BY DEF IInv, Types, SweptInv, Settled, OnlyLateUploadsOutliveRoom
<1> QED BY <1>1, Inductive, PTL

================================================================================
