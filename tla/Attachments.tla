-------------------------------- MODULE Attachments --------------------------------
(***************************************************************************)
(* The attachments of one chat, a room or a direct-message thread:         *)
(* AttachmentsService (attachments/attachments.service.ts), the linking of *)
(* an attachment in the two sendMessage methods (rooms/rooms.service.ts,   *)
(* dm/dm.service.ts), and the deletion of the chat under it.  The rows are *)
(* in PostgreSQL, the files in an object store: nothing makes the two      *)
(* change together, and each awaited query or object-store command of a    *)
(* handler is one step.                                                    *)
(*                                                                         *)
(* Requests the DTO, the MIME list or the size limits refuse change        *)
(* nothing and are left out; so are presigned GETs.  What a file holds is   *)
(* chosen freely when commitUpload reads it.                               *)
(***************************************************************************)
EXTENDS FiniteSets

CONSTANTS
    Users,
    Owner,          \* the room's owner, or one participant of the thread
    Handlers,       \* requests in flight at the same time
    Ids,            \* bound: attachment rows the run may create
    MsgIds,         \* bound: messages with an attachment at the same time
    None

ASSUME OwnerAssumption == Owner \in Users
ASSUME NoneAssumption == None \notin Users \cup Ids

VARIABLES
    kind,           \* AttachmentTarget: "ROOM" or "DM"
    chat,           \* the Room or DirectMessageThread row exists
    access,         \* users with a membership row, or participants
    banned,         \* users with an active ban (rooms only)
    rows,           \* Attachment rows by id, or None
    used,           \* ids ever created
    uploads,        \* ids with an object uploads/{id}
    thumbs,         \* ids with an object thumbnails/uploads/{id}
    urls,           \* ids whose presigned PUT has not expired
    messages,       \* message rows with an attachment: <<n, author, id>>, n their key
    req,            \* the request each handler is serving
    swept,          \* history: ids whose objects a deletion has asked to delete
    kept,           \* history: ids whose object the store then failed to delete
    late            \* history: ids a deletion of the room was too early for

tables == <<kind, chat, access, banned, rows, used, messages>>
store == <<uploads, thumbs, urls>>
history == <<swept, kept, late>>
vars == <<tables, store, req, history>>

--------------------------------------------------------------------------------

Row == [uploader : Users, committed : BOOLEAN, thumb : BOOLEAN]
ASSUME RowAssumption == None \notin Row

Pcs == {"idle", "upAccess", "upBan", "create", "head", "get", "thumb", "commit",
        "sendBan", "sendRead", "sendLinked", "insert",
        "list", "objects", "rows", "room"}
Request == [pc : Pcs, actor : Users \cup {None}, id : Ids \cup {None},
            thumb : BOOLEAN, listed : SUBSET Ids]
Idle == [pc |-> "idle", actor |-> None, id |-> None, thumb |-> FALSE, listed |-> {}]

\* The types of all variables.
TypeOK ==
    /\ kind \in {"ROOM", "DM"}
    /\ chat \in BOOLEAN
    /\ access \in SUBSET Users /\ banned \in SUBSET Users
    /\ used \in SUBSET Ids
    /\ rows \in [Ids -> Row \cup {None}]
    /\ uploads \in SUBSET used /\ thumbs \in SUBSET used /\ urls \in SUBSET used
    /\ messages \in SUBSET (MsgIds \X Users \X used)
    /\ req \in [Handlers -> Request]
    /\ swept \in SUBSET used /\ kept \in SUBSET swept /\ late \in SUBSET used

Init ==
    /\ kind \in {"ROOM", "DM"}
    /\ chat = TRUE
    /\ access = Users
    /\ banned = {}
    /\ rows = [i \in Ids |-> None]
    /\ used = {}
    /\ uploads = {} /\ thumbs = {} /\ urls = {}
    /\ messages = {}
    /\ req = [h \in Handlers |-> Idle]
    /\ swept = {} /\ kept = {} /\ late = {}

At(h, pc) == req[h].pc = pc
Become(h, r) == req' = [req EXCEPT ![h] = r]
Begin(h, r) == At(h, "idle") /\ Become(h, r) /\ UNCHANGED <<tables, store, history>>
Goto(h, pc) == Become(h, [req[h] EXCEPT !.pc = pc]) /\ UNCHANGED <<tables, store, history>>
Done(h) == Become(h, Idle)
Abort(h) == Done(h) /\ UNCHANGED <<tables, store, history>>

\* The next query of h finds what it needs and h goes on at pc, or h throws.
Check(h, ok, pc) == IF ok THEN Goto(h, pc) ELSE Abort(h)

--------------------------------------------------------------------------------
(* requestUploadUrl *)

StartUpload(h, u) == Begin(h, [Idle EXCEPT !.pc = "upAccess", !.actor = u])

\* assertAccess: the membership or the thread; for a room, a ban as well.
CheckAccess(h) ==
    /\ At(h, "upAccess")
    /\ Check(h, req[h].actor \in access, IF kind = "ROOM" THEN "upBan" ELSE "create")

CheckUploadBan(h) ==
    /\ At(h, "upBan")
    /\ Check(h, req[h].actor \notin banned, "create")

\* A deletion of the room is past the point where it lists the rows.
Listed == \E g \in Handlers : req[g].pc \in {"objects", "rows", "room"}

\* The row, whose foreign key needs the chat, then the presigned PUT.
CreateRow(h) ==
    /\ At(h, "create")
    /\ \/ /\ chat
          /\ \E i \in Ids \ used :
               /\ rows' = [rows EXCEPT ![i] = [uploader |-> req[h].actor,
                                               committed |-> FALSE, thumb |-> FALSE]]
               /\ used' = used \cup {i}
               /\ urls' = urls \cup {i}
               /\ late' = IF Listed THEN late \cup {i} ELSE late
          /\ Done(h)
          /\ UNCHANGED <<kind, chat, access, banned, messages, uploads, thumbs, swept, kept>>
       \/ ~chat /\ Abort(h)

\* The client puts a file with the presigned PUT, as often as it likes; the
\* object store asks neither the database nor the backend.
PutObject(i) ==
    /\ i \in urls
    /\ uploads' = uploads \cup {i}
    /\ late' = IF i \in swept THEN late \cup {i} ELSE late
    /\ UNCHANGED <<tables, thumbs, urls, req, swept, kept>>

\* expiresIn: 300
ExpireUrl(i) ==
    /\ i \in urls
    /\ urls' = urls \ {i}
    /\ UNCHANGED <<tables, uploads, thumbs, req, history>>

--------------------------------------------------------------------------------
(* commitUpload *)

\* Mutant: the client's word that it has put the file is enough.
StartCommit_Trusting(h, u, i) ==
    /\ rows[i] # None /\ rows[i].uploader = u
    /\ Begin(h, [Idle EXCEPT !.pc = "commit", !.actor = u, !.id = i])

\* The row exists and is the caller's; it may be committed already.
StartCommit(h, u, i) ==
    /\ rows[i] # None /\ rows[i].uploader = u
    /\ Begin(h, [Idle EXCEPT !.pc = "head", !.actor = u, !.id = i])

HeadObject(h) ==
    /\ At(h, "head")
    /\ Check(h, req[h].id \in uploads, "get")

\* Whatever type was requested, what the object holds decides about a thumbnail.
GetObject(h) ==
    /\ At(h, "get")
    /\ \E next \in {"thumb", "commit"} : Check(h, req[h].id \in uploads, next)

\* sharp and the PUT of the thumbnail may fail; the commit goes on without.
PutThumbnail(h) ==
    /\ At(h, "thumb")
    /\ \E ok \in BOOLEAN :
         /\ thumbs' = IF ok THEN thumbs \cup {req[h].id} ELSE thumbs
         /\ Become(h, [req[h] EXCEPT !.pc = "commit", !.thumb = ok])
    /\ UNCHANGED <<tables, uploads, urls, history>>

\* committedAt, and thumbnailKey when there is a new one; P2025 without the row.
CommitRow(h) ==
    LET i == req[h].id IN
    /\ At(h, "commit")
    /\ \/ /\ rows[i] # None
          /\ rows' = [rows EXCEPT ![i].committed = TRUE, ![i].thumb = @ \/ req[h].thumb]
          /\ Done(h)
          /\ UNCHANGED <<kind, chat, access, banned, used, messages, store, history>>
       \/ rows[i] = None /\ Abort(h)

--------------------------------------------------------------------------------
(* sendMessage with an attachment *)

\* assertMember or assertParticipant.
StartSend(h, u, i) ==
    /\ u \in access /\ i \in used
    /\ Begin(h, [Idle EXCEPT !.pc = IF kind = "ROOM" THEN "sendBan" ELSE "sendRead",
                             !.actor = u, !.id = i])

CheckSendBan(h) ==
    /\ At(h, "sendBan")
    /\ Check(h, req[h].actor \notin banned, "sendRead")

Sendable(i, u) == rows[i] # None /\ rows[i].uploader = u /\ rows[i].committed

ReadAttachment(h) ==
    /\ At(h, "sendRead")
    /\ Check(h, Sendable(req[h].id, req[h].actor), "sendLinked")

Linked(i) == \E m \in messages : m[3] = i

CheckLinked(h) ==
    /\ At(h, "sendLinked")
    /\ Check(h, ~Linked(req[h].id), "insert")

\* Mutant: attachmentId is a foreign key, but two messages may have the same.
InsertAllowed_NotUnique(i) == chat /\ rows[i] # None

\* attachmentId is unique and a foreign key, roomId or threadId a foreign key.
InsertAllowed(i) == chat /\ rows[i] # None /\ ~Linked(i)

InsertMessage(h) ==
    /\ At(h, "insert")
    /\ \/ /\ InsertAllowed(req[h].id)
          /\ \E n \in MsgIds \ {m[1] : m \in messages} :
                messages' = messages \cup {<<n, req[h].actor, req[h].id>>}
          /\ Done(h)
          /\ UNCHANGED <<kind, chat, access, banned, rows, used, store, history>>
       \/ ~InsertAllowed(req[h].id) /\ Abort(h)

--------------------------------------------------------------------------------
(* deleteRoom with deleteAttachmentsByRoom; removeFriend *)

\* assertMember and the OWNER rank.
StartDeleteRoom(h) ==
    /\ kind = "ROOM"
    /\ Owner \in access
    /\ Begin(h, [Idle EXCEPT !.pc = "list", !.actor = Owner])

Rows == {i \in Ids : rows[i] # None}

\* Mutant: only committed attachments are listed.
RowsToDelete_Committed == {i \in Rows : rows[i].committed}

RowsToDelete == Rows

ListRows(h) ==
    /\ At(h, "list")
    /\ Become(h, [req[h] EXCEPT !.pc = "objects", !.listed = RowsToDelete])
    /\ UNCHANGED <<tables, store, history>>

\* DeleteObjects of the listed keys: the uploads, never the thumbnails.  The
\* store answers 200 although it has failed for some of them, and nobody looks
\* at the Errors of the answer.
DeleteObjects(h) ==
    /\ At(h, "objects")
    /\ \E failed \in SUBSET (req[h].listed \cap uploads) :
         /\ uploads' = (uploads \ req[h].listed) \cup failed
         /\ kept' = kept \cup failed
    /\ swept' = swept \cup req[h].listed
    /\ Become(h, [req[h] EXCEPT !.pc = "rows"])
    /\ UNCHANGED <<tables, thumbs, urls, late>>

\* deleteMany takes the rows there are now; their messages lose the link.
DeleteRows(h) ==
    /\ At(h, "rows")
    /\ rows' = [i \in Ids |-> None]
    /\ messages' = {}
    /\ Become(h, [req[h] EXCEPT !.pc = "room"])
    /\ UNCHANGED <<kind, chat, access, banned, used, store, history>>

\* The chat's row goes, and every row that refers to it.
CascadeDelete ==
    /\ chat' = FALSE
    /\ access' = {} /\ banned' = {}
    /\ rows' = [i \in Ids |-> None]
    /\ messages' = {}
    /\ UNCHANGED <<kind, used, store, history>>

DeleteRoom(h) ==
    /\ At(h, "room")
    /\ \/ chat /\ CascadeDelete /\ Done(h)
       \/ ~chat /\ Abort(h)

\* The end of a friendship deletes the thread; its files are not asked about.
DeleteThread == kind = "DM" /\ chat /\ CascadeDelete /\ UNCHANGED req

--------------------------------------------------------------------------------
(* The rest of the system *)

\* Members other than the owner leave, join, are banned and unbanned (Rooms).
ChangeMembership(u) ==
    /\ kind = "ROOM" /\ chat /\ u # Owner
    /\ \/ access' = access \ {u} /\ banned' \in {banned, banned \cup {u}}
       \/ u \notin banned /\ access' = access \cup {u} /\ UNCHANGED banned
       \/ banned' = banned \ {u} /\ UNCHANGED access
    /\ UNCHANGED <<kind, chat, rows, used, messages, store, req, history>>

\* A query or a command of h fails, or the process ends under it.
Fail(h) == ~At(h, "idle") /\ Abort(h)

HandlerStep(h) ==
    \/ CheckAccess(h) \/ CheckUploadBan(h) \/ CreateRow(h)
    \/ HeadObject(h) \/ GetObject(h) \/ PutThumbnail(h) \/ CommitRow(h)
    \/ CheckSendBan(h) \/ ReadAttachment(h) \/ CheckLinked(h) \/ InsertMessage(h)
    \/ ListRows(h) \/ DeleteObjects(h) \/ DeleteRows(h) \/ DeleteRoom(h)

Next ==
    \/ \E h \in Handlers : StartDeleteRoom(h) \/ HandlerStep(h) \/ Fail(h)
    \/ \E h \in Handlers, u \in Users : StartUpload(h, u)
    \/ \E h \in Handlers, u \in Users, i \in Ids : StartCommit(h, u, i) \/ StartSend(h, u, i)
    \/ \E i \in Ids : PutObject(i) \/ ExpireUrl(i)
    \/ \E u \in Users : ChangeMembership(u)
    \/ DeleteThread

Spec == Init /\ [][Next]_vars

--------------------------------------------------------------------------------
(* Properties *)

\* A message shows a committed file of its own author, and no file is shown by
\* two messages: sendMessage checks all of it in queries before the insert,
\* while commits, other sends and the deletion of the room go on.
MessagesShowOwnFile ==
    /\ \A m \in messages :
         /\ rows[m[3]] # None
         /\ rows[m[3]].uploader = m[2]
         /\ rows[m[3]].committed
    /\ \A m, n \in messages : m[3] = n[3] => m = n

\* Until a deletion of the room sweeps it, a committed row's file is in the
\* store, and a thumbnailKey always names an object, whatever step of a commit
\* failed: GET download hands out URLs for both without looking.
StoredFilesExist ==
    /\ \A i \in Rows : rows[i].committed /\ i \notin swept => i \in uploads
    /\ \A i \in Rows : rows[i].thumb => i \in thumbs

\* Every upload that outlives its room was requested after the deletion had
\* listed the rows, put after the deletion had swept it, or is one the store
\* failed to delete without a word: one forgotten by the deletion itself would
\* stay in the store for ever, with no row to find it by.  (Thumbnails, and the
\* uploads of threads, always stay.)
OnlyLateUploadsOutliveRoom ==
    kind = "ROOM" /\ ~chat => uploads \subseteq late \cup kept

================================================================================
