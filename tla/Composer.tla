-------------------------------- MODULE Composer --------------------------------
(***************************************************************************)
(* The message input of one client (DmMessageInput, RoomMessageInput) with *)
(* the upload hook under it (useAttachmentUpload): text, one attachment    *)
(* and, in a room, a reply are collected and sent over the socket.  An     *)
(* upload is three requests in a row, and goes on while the user types,    *)
(* clears, sends, chooses another file or moves to another chat; only the  *)
(* second request can be aborted, through a controller that is replaced    *)
(* whenever the hook is reset.                                             *)
(*                                                                         *)
(* Blank text is no text.  `sending' of DmMessageInput is set and reset    *)
(* within one event and never seen; progress and errors are only shown.    *)
(***************************************************************************)
EXTENDS FiniteSets

CONSTANTS
    Chats,          \* the rooms, or the threads, the client can open
    Files,          \* bound: files the user may choose, each once
    None

ASSUME NoneAssumption == None \notin Files \cup Chats

VARIABLES
    kind,           \* "ROOM" or "DM"
    chat,           \* the chat the input is for: roomId or threadId
    socket,         \* the store has a socket
    text,           \* there is text in the input
    reply,          \* the chat of the message replied to, or None (rooms only)
    phase,          \* of each file's upload: "new", "request", "put", "commit", "done"
    target,         \* targetId each file was or is uploaded for
    abortable,      \* files whose PUT listens to the current controller
    pending,        \* pendingAttachment
    uploading, sizeError,
    sent,           \* files that went out with a message
    dropped,        \* history: files cleared when ready or when they could be aborted
    strayed,        \* history: the input has things of a chat it was moved from
    resent, misdirected     \* history: files sent twice; sent to another chat

message == <<text, reply, pending, uploading, sizeError>>
uploads == <<phase, target, abortable>>
history == <<dropped, strayed, resent, misdirected>>
vars == <<kind, chat, socket, message, uploads, sent, history>>

--------------------------------------------------------------------------------

Init ==
    /\ kind \in {"ROOM", "DM"}
    /\ chat \in Chats
    /\ socket = TRUE
    /\ text = FALSE /\ reply = None
    /\ phase = [f \in Files |-> "new"]
    /\ target = [f \in Files |-> None]
    /\ abortable = {}
    /\ pending = None
    /\ uploading = FALSE /\ sizeError = FALSE
    /\ sent = {}
    /\ dropped = {} /\ strayed = FALSE
    /\ resent = {} /\ misdirected = {}

Running == {f \in Files : phase[f] \in {"request", "put", "commit"}}

\* The upload of f ends; a file has one upload.
End(f) == phase' = [phase EXCEPT ![f] = "done"]

\* A new controller: a PUT under way no longer listens to it.
ResetUpload == abortable' = {}

--------------------------------------------------------------------------------
(* What is shown *)

\* The preview strip, with its button to clear.
ShowAttachmentStrip == uploading \/ pending # None \/ sizeError

\* The button "Attach file" is enabled.
CanAttach == ~uploading

CanSend == ~uploading /\ (text \/ pending # None)

--------------------------------------------------------------------------------
(* The user *)

\* Typing, the emoji picker, or deleting what was typed.
EditText ==
    /\ text' = ~text
    /\ UNCHANGED <<kind, chat, socket, reply, pending, uploading, sizeError, uploads, sent, history>>

\* onReply of a message of the room shown, and the button that clears it.
SetReply ==
    /\ kind = "ROOM"
    /\ reply' \in {chat, None}
    /\ UNCHANGED <<kind, chat, socket, text, pending, uploading, sizeError, uploads, sent, history>>

\* validateAndUpload of a file within the limit, up to its first await.
StartUpload(f) ==
    /\ phase[f] = "new"
    /\ sizeError' = FALSE
    /\ uploading' = TRUE
    /\ pending' = None
    /\ ResetUpload
    /\ phase' = [phase EXCEPT ![f] = "request"]
    /\ target' = [target EXCEPT ![f] = chat]
    /\ UNCHANGED <<kind, chat, socket, text, reply, sent, history>>

\* A file over the limit.
RefuseFile ==
    /\ sizeError' = TRUE
    /\ UNCHANGED <<kind, chat, socket, text, reply, pending, uploading, uploads, sent, history>>

\* handleFileSelect
SelectFile == CanAttach /\ (RefuseFile \/ \E f \in Files : StartUpload(f))

\* handlePaste, also while another upload runs.
PasteFile == RefuseFile \/ \E f \in Files : StartUpload(f)

\* Mutant: the hook is reset before the abort, which then reaches nobody.
Clear_ResetFirst ==
    /\ ShowAttachmentStrip
    /\ uploading' = FALSE /\ pending' = None /\ sizeError' = FALSE
    /\ ResetUpload
    /\ dropped' = dropped \cup ({pending} \ {None}) \cup (IF uploading THEN abortable ELSE {})
    /\ UNCHANGED <<kind, chat, socket, text, reply, phase, target, sent, strayed, resent, misdirected>>

\* handleClearAttachment: the PUT under way fails before anything else happens.
Clear ==
    LET aborted == IF uploading THEN abortable ELSE {} IN
    /\ ShowAttachmentStrip
    /\ phase' = [f \in Files |-> IF f \in aborted THEN "done" ELSE phase[f]]
    /\ uploading' = FALSE /\ pending' = None /\ sizeError' = FALSE
    /\ ResetUpload
    /\ dropped' = dropped \cup ({pending} \ {None}) \cup aborted
    /\ UNCHANGED <<kind, chat, socket, text, reply, target, sent, strayed, resent, misdirected>>

\* The message goes out, and the input is empty but for uploads under way.
Emit ==
    /\ socket /\ (text \/ pending # None)
    /\ text' = FALSE /\ reply' = None /\ pending' = None /\ sizeError' = FALSE
    /\ ResetUpload
    /\ sent' = sent \cup ({pending} \ {None})
    /\ resent' = resent \cup (sent \cap {pending})
    /\ misdirected' = IF pending # None /\ target[pending] # chat /\ ~strayed
                      THEN misdirected \cup {pending} ELSE misdirected
    /\ strayed' = (strayed /\ Running # {})
    /\ UNCHANGED <<kind, chat, socket, uploading, phase, target, dropped>>

\* handleSend of DmMessageInput, from the button or the Enter key.
SendDm == kind = "DM" /\ ~uploading /\ Emit

\* handleSend of RoomMessageInput: the button is disabled while a file is
\* uploaded, the Enter key is not.
SendToRoom == kind = "ROOM" /\ Emit

--------------------------------------------------------------------------------
(* The upload *)

\* The controller's signal is taken when the PUT begins.
UrlReceived(f) ==
    /\ phase[f] = "request"
    /\ phase' = [phase EXCEPT ![f] = "put"]
    /\ abortable' = abortable \cup {f}
    /\ UNCHANGED <<kind, chat, socket, message, target, sent, history>>

PutDone(f) ==
    /\ phase[f] = "put"
    /\ phase' = [phase EXCEPT ![f] = "commit"]
    /\ abortable' = abortable \ {f}
    /\ UNCHANGED <<kind, chat, socket, message, target, sent, history>>

Committed(f) ==
    /\ phase[f] = "commit"
    /\ End(f)
    /\ pending' = f /\ uploading' = FALSE
    /\ UNCHANGED <<kind, chat, socket, text, reply, sizeError, target, abortable, sent, history>>

\* Mutant: the flag is reset after a success only.
UploadFails_StillUploading(f) ==
    /\ f \in Running
    /\ End(f)
    /\ abortable' = abortable \ {f}
    /\ UNCHANGED <<kind, chat, socket, message, target, sent, history>>

\* One of the three requests fails: finally.
UploadFails(f) ==
    /\ f \in Running
    /\ End(f)
    /\ uploading' = FALSE
    /\ abortable' = abortable \ {f}
    /\ UNCHANGED <<kind, chat, socket, text, reply, pending, sizeError, target, sent, history>>

--------------------------------------------------------------------------------
(* The window *)

Strays == text \/ reply # None \/ pending # None \/ Running # {}

\* The window is moved to another chat with its input as it is: always between
\* threads, and between rooms whose detail and messages are cached.
MoveKept(c) ==
    /\ c # chat
    /\ chat' = c
    /\ strayed' = (strayed \/ Strays)
    /\ UNCHANGED <<kind, socket, message, uploads, sent, dropped, resent, misdirected>>

\* Mutant: the uploads' results still reach the input that is shown.
MoveFresh_UploadsKept(c) ==
    /\ chat' = c
    /\ text' = FALSE /\ pending' = None /\ sizeError' = FALSE /\ uploading' = FALSE
    /\ reply' \in IF kind = "ROOM" /\ c # chat THEN {None, reply} ELSE {None}
    /\ ResetUpload
    /\ strayed' = (reply' \notin {None, c})
    /\ UNCHANGED <<kind, socket, phase, target, sent, dropped, resent, misdirected>>

\* A new input, when another view was shown in between, or for a room that is
\* not cached; a reply survives while only the room's messages are not.  What
\* the old input was uploading ends unseen.
MoveFresh(c) ==
    /\ chat' = c
    /\ text' = FALSE /\ pending' = None /\ sizeError' = FALSE /\ uploading' = FALSE
    /\ reply' \in IF kind = "ROOM" /\ c # chat THEN {None, reply} ELSE {None}
    /\ phase' = [f \in Files |-> IF f \in Running THEN "done" ELSE phase[f]]
    /\ ResetUpload
    /\ strayed' = (reply' \notin {None, c})
    /\ UNCHANGED <<kind, socket, target, sent, dropped, resent, misdirected>>

\* useDmSocket sets the store's socket, and null when the token is gone.
SetSocket ==
    /\ socket' = ~socket
    /\ UNCHANGED <<kind, chat, message, uploads, sent, history>>

Next ==
    \/ EditText \/ SetReply \/ SelectFile \/ PasteFile \/ Clear
    \/ SendDm \/ SendToRoom \/ SetSocket
    \/ \E f \in Files : UrlReceived(f) \/ PutDone(f) \/ Committed(f) \/ UploadFails(f)
    \/ \E c \in Chats : MoveKept(c) \/ MoveFresh(c)

Spec == Init /\ [][Next]_vars

--------------------------------------------------------------------------------
(* Properties *)

\* A cleared attachment comes back, or is sent, only if it was cleared between
\* its PUTs and could not be aborted: one that was ready, or whose PUT was still
\* the current one, never does, whatever other uploads, sends and moves happened.
ClearedStaysCleared == pending \notin dropped /\ sent \cap dropped = {}

\* The input says it is uploading, which disables it, only while an upload runs:
\* whichever of several uploads fails, is aborted or is overtaken, no DM input
\* is left that cannot send.
LockedOnlyByUpload == uploading => Running # {}

\* The server would accept what is sent, or the message would be lost, text and
\* all: no attachment goes out with a second message, nor to another chat than
\* it was uploaded for, unless the window was moved with the input kept.
OnlyMovesLoseMessages == resent = {} /\ misdirected = {}

================================================================================
