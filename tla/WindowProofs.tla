------------------------------- MODULE WindowProofs -------------------------------
(***************************************************************************)
(* What the window of one chat keeps: its message input (Composer), for    *)
(* any number of chats and files, then its pages of messages               *)
(* (MessageCache), for any number of messages and fetches.                 *)
(*                                                                         *)
(* A file goes through its upload once, so what happened to it can be read *)
(* off its phase: only an upload that is done is pending, sent or dropped, *)
(* only a PUT under way can be aborted.  IInv says so, and where the input *)
(* and its uploads belong.                                                 *)
(*                                                                         *)
(* The pages, and those of a response on its way, are a pile: consecutive  *)
(* messages from a top down, with the cursor just under them (PageInv).    *)
(***************************************************************************)
EXTENDS Composer, MessageCache, Integers, FiniteSetTheorems, SequenceTheorems,
        WellFoundedInduction, TLAPS

Phases == {"new", "request", "put", "commit", "done"}

Types ==
    /\ kind \in {"ROOM", "DM"}
    /\ chat \in Chats
    /\ phase \in [Files -> Phases]
    /\ target \in [Files -> Chats \cup {None}]
    /\ pending \in Files \cup {None}
    /\ uploading \in BOOLEAN
    /\ strayed \in BOOLEAN
    /\ abortable \in SUBSET Files
    /\ sent \in SUBSET Files
    /\ dropped \in SUBSET Files

\* A file is pending, sent or dropped only when its upload is over, and one of
\* the three; a PUT that can be aborted is under way.
OneFate ==
    /\ \A f \in abortable : phase[f] = "put"
    /\ \A f \in sent : phase[f] = "done" /\ f \notin dropped
    /\ \A f \in dropped : phase[f] = "done"
    /\ pending # None => phase[pending] = "done" /\ pending \notin sent /\ pending \notin dropped

\* What the input holds, and what is on its way to it, is for the chat shown.
InPlace ==
    strayed = FALSE =>
        /\ \A f \in Files : phase[f] \in {"request", "put", "commit"} => target[f] = chat
        /\ pending # None => target[pending] = chat

IInv == Types /\ LockedOnlyByUpload /\ OneFate /\ InPlace /\ OnlyMovesLoseMessages

USE NoneAssumption

LEMMA InitInv == Init => IInv
  BY DEF Init, IInv, Types, Phases, LockedOnlyByUpload, OneFate, InPlace,
         OnlyMovesLoseMessages

--------------------------------------------------------------------------------
(* Each action keeps IInv *)

LEMMA StutterInv == IInv /\ UNCHANGED vars => IInv'
  BY DEF IInv, vars, message, uploads, history, Types, LockedOnlyByUpload, Running,
         OneFate, InPlace, OnlyMovesLoseMessages

\* Text, the reply, the socket and the size error are in no invariant.
LEMMA InputInv == IInv /\ (EditText \/ SetReply \/ RefuseFile \/ SetSocket) => IInv'
  BY DEF IInv, EditText, SetReply, RefuseFile, SetSocket, message, uploads, history,
         Types, LockedOnlyByUpload, Running, OneFate, InPlace, OnlyMovesLoseMessages

\* The phase of one file changes.
LEMMA StartUploadInv == ASSUME IInv, NEW f \in Files, StartUpload(f) PROVE IInv'
<1> USE DEF StartUpload, IInv, ResetUpload, history
<1>1. Types'  BY DEF Types, Phases
<1>2. LockedOnlyByUpload'  BY DEF LockedOnlyByUpload, Running, Types
<1>3. OneFate'  BY DEF OneFate, Types
<1>4. InPlace'  BY DEF InPlace, Types
<1>5. OnlyMovesLoseMessages'  BY DEF OnlyMovesLoseMessages
<1> QED BY <1>1, <1>2, <1>3, <1>4, <1>5

LEMMA UrlReceivedInv == ASSUME IInv, NEW f \in Files, UrlReceived(f) PROVE IInv'
<1> USE DEF UrlReceived, IInv, message, history
<1>1. Types'  BY DEF Types, Phases
<1>2. LockedOnlyByUpload'  BY DEF LockedOnlyByUpload, Running, Types
<1>3. OneFate'  BY DEF OneFate, Types
<1>4. InPlace'  BY DEF InPlace, Types
<1>5. OnlyMovesLoseMessages'  BY DEF OnlyMovesLoseMessages
<1> QED BY <1>1, <1>2, <1>3, <1>4, <1>5

LEMMA PutDoneInv == ASSUME IInv, NEW f \in Files, PutDone(f) PROVE IInv'
<1> USE DEF PutDone, IInv, message, history
<1>1. Types'  BY DEF Types, Phases
<1>2. LockedOnlyByUpload'  BY DEF LockedOnlyByUpload, Running, Types
<1>3. OneFate'  BY DEF OneFate, Types
<1>4. InPlace'  BY DEF InPlace, Types
<1>5. OnlyMovesLoseMessages'  BY DEF OnlyMovesLoseMessages
<1> QED BY <1>1, <1>2, <1>3, <1>4, <1>5

\* A file whose upload was still running is neither sent nor dropped.
LEMMA CommittedInv == ASSUME IInv, NEW f \in Files, Committed(f) PROVE IInv'
<1> USE DEF Committed, End, IInv, history
<1>1. Types'  BY DEF Types, Phases
<1>2. LockedOnlyByUpload'  BY DEF LockedOnlyByUpload
<1>3. OneFate'  BY DEF OneFate, Types
<1>4. InPlace'  BY DEF InPlace, Types
<1>5. OnlyMovesLoseMessages'  BY DEF OnlyMovesLoseMessages
<1> QED BY <1>1, <1>2, <1>3, <1>4, <1>5

LEMMA UploadFailsInv == ASSUME IInv, NEW f \in Files, UploadFails(f) PROVE IInv'
<1> USE DEF UploadFails, End, IInv, history
<1>1. Types'  BY DEF Types, Phases
<1>2. LockedOnlyByUpload'  BY DEF LockedOnlyByUpload
<1>3. OneFate'  BY DEF OneFate, Types, Running
<1>4. InPlace'  BY DEF InPlace, Types
<1>5. OnlyMovesLoseMessages'  BY DEF OnlyMovesLoseMessages
<1> QED BY <1>1, <1>2, <1>3, <1>4, <1>5

\* The aborted PUTs were under way, the pending file was not sent.
LEMMA ClearInv == ASSUME IInv, Clear PROVE IInv'
<1> DEFINE aborted == IF uploading THEN abortable ELSE {}
<1>0. /\ aborted \subseteq abortable
      /\ phase' = [f \in Files |-> IF f \in aborted THEN "done" ELSE phase[f]]
      /\ dropped' = dropped \cup ({pending} \ {None}) \cup aborted
      /\ abortable' = {} /\ pending' = None /\ uploading' = FALSE
      /\ UNCHANGED <<kind, chat, target, sent, strayed, resent, misdirected>>
  BY DEF Clear, ResetUpload
<1> HIDE DEF aborted
<1> USE <1>0 DEF IInv
<1>1. Types'  BY DEF Types, Phases
<1>2. LockedOnlyByUpload'  BY DEF LockedOnlyByUpload
<1>3. OneFate'  BY DEF OneFate, Types
<1>4. InPlace'  BY DEF InPlace, Types
<1>5. OnlyMovesLoseMessages'  BY DEF OnlyMovesLoseMessages
<1> QED BY <1>1, <1>2, <1>3, <1>4, <1>5

\* Nothing is sent twice, and what is sent is in place; nothing is left to be
\* out of place unless an upload still runs.
LEMMA EmitInv == ASSUME IInv, Emit PROVE IInv'
<1> USE DEF Emit, ResetUpload, IInv
<1>1. Types'  BY DEF Types, Running
<1>2. LockedOnlyByUpload'  BY DEF LockedOnlyByUpload, Running
<1>3. OneFate'  BY DEF OneFate, Types
<1>4. InPlace'
  <2>1. CASE Running = {}  BY <2>1 DEF InPlace, Running, Types
  <2>2. CASE Running # {}  BY <2>2 DEF InPlace, Types
  <2> QED BY <2>1, <2>2
<1>5. OnlyMovesLoseMessages'
  <2>1. sent \cap {pending} = {}  BY DEF OneFate, Types
  <2>2. ~(pending # None /\ target[pending] # chat /\ ~strayed)  BY DEF InPlace, Types
  <2> QED BY <2>1, <2>2 DEF OnlyMovesLoseMessages
<1> QED BY <1>1, <1>2, <1>3, <1>4, <1>5

LEMMA MoveKeptInv == ASSUME IInv, NEW c \in Chats, MoveKept(c) PROVE IInv'
<1> USE DEF MoveKept, IInv, message, uploads
<1>1. Types'  BY DEF Types, Strays
<1>2. LockedOnlyByUpload'  BY DEF LockedOnlyByUpload, Running
<1>3. OneFate'  BY DEF OneFate
<1>4. InPlace'
  <2>1. CASE Strays
    <3> strayed' = TRUE  BY <2>1 DEF Types
    <3> QED BY DEF InPlace
  <2>2. CASE ~Strays
    <3> pending = None /\ Running = {}  BY <2>2 DEF Strays
    <3> QED BY DEF InPlace, Running
  <2> QED BY <2>1, <2>2
<1>5. OnlyMovesLoseMessages'  BY DEF OnlyMovesLoseMessages
<1> QED BY <1>1, <1>2, <1>3, <1>4, <1>5

LEMMA MoveFreshInv == ASSUME IInv, NEW c \in Chats, MoveFresh(c) PROVE IInv'
<1> USE DEF MoveFresh, ResetUpload, IInv, Running
<1>1. Types'  BY DEF Types, Phases
<1>2. LockedOnlyByUpload'  BY DEF LockedOnlyByUpload
<1>3. OneFate'  BY DEF OneFate, Types
<1>4. InPlace'  BY DEF InPlace, Types, Phases
<1>5. OnlyMovesLoseMessages'  BY DEF OnlyMovesLoseMessages
<1> QED BY <1>1, <1>2, <1>3, <1>4, <1>5

LEMMA NextInv == IInv /\ [Next]_vars => IInv'
<1> SUFFICES ASSUME IInv, [Next]_vars PROVE IInv'  OBVIOUS
<1>1. CASE UNCHANGED vars  BY <1>1, StutterInv
<1>2. CASE EditText \/ SetReply \/ SetSocket  BY <1>2, InputInv
<1>3. CASE SelectFile \/ PasteFile
  BY <1>3, InputInv, StartUploadInv DEF SelectFile, PasteFile
<1>4. CASE Clear  BY <1>4, ClearInv
<1>5. CASE SendDm \/ SendToRoom  BY <1>5, EmitInv DEF SendDm, SendToRoom
<1>6. CASE \E f \in Files : UrlReceived(f) \/ PutDone(f) \/ Committed(f) \/ UploadFails(f)
  BY <1>6, UrlReceivedInv, PutDoneInv, CommittedInv, UploadFailsInv
<1>7. CASE \E c \in Chats : MoveKept(c) \/ MoveFresh(c)
  BY <1>7, MoveKeptInv, MoveFreshInv
<1> QED BY <1>1, <1>2, <1>3, <1>4, <1>5, <1>6, <1>7 DEF Next

THEOREM Inductive == Spec => []IInv
  BY InitInv, NextInv, PTL DEF Spec

--------------------------------------------------------------------------------
(* The properties *)

\* Composer!ClearedStaysCleared: a file cleared when it was ready, or while its
\* PUT could be aborted, is never pending again and never sent.
THEOREM ClearedStaysClearedAlways == Spec => []ClearedStaysCleared
<1>1. IInv => ClearedStaysCleared  BY DEF IInv, Types, OneFate, ClearedStaysCleared
<1> QED BY <1>1, Inductive, PTL

\* Composer!LockedOnlyByUpload: an input that says it uploads has an upload.
THEOREM LockedOnlyByUploadAlways == Spec => []LockedOnlyByUpload
<1>1. IInv => LockedOnlyByUpload  BY DEF IInv
<1> QED BY <1>1, Inductive, PTL

\* Composer!OnlyMovesLoseMessages: no file goes out twice, nor to another chat
\* than it was uploaded for while nothing in the input is of another chat.
THEOREM OnlyMovesLoseMessagesAlways == Spec => []OnlyMovesLoseMessages
<1>1. IInv => OnlyMovesLoseMessages  BY DEF IInv
<1> QED BY <1>1, Inductive, PTL

HIDE NoneAssumption

--------------------------------------------------------------------------------
(* MessageCache: the pages of a chat *)

Cursors == (Nat \ {0}) \cup {Nothing}
Pages == [messages : Seq(Nat \ {0}), next : Cursors]

PageFetches == [older : BOOLEAN, got : Seq(Pages), read : Nat \cup {Nothing}, left : Nat]

PageTypes ==
    /\ chatKind \in {"ROOM", "DM"} /\ posted \in Nat /\ online \in BOOLEAN
    /\ channel \in Seq(Nat)
    /\ muddled \in BOOLEAN
    /\ pages # Nothing => pages \in Seq(Pages) /\ pages # <<>>
    /\ fetch # Nothing =>
          /\ fetch \in PageFetches
          /\ fetch.got = <<>> => fetch.left > 0 /\ ~fetch.older

\* The events to come are of messages that are there.
EventsPosted ==
    /\ unsent \in SUBSET (1..posted)
    /\ \A i \in 1..Len(channel) : channel[i] \in 1..posted

\* Under off[j] messages are those of page j and, under off[j + 1], of the rest.
Stack(ps, off) ==
    /\ off \in [1..Len(ps) + 1 -> Nat]
    /\ \A j \in 1..Len(ps) + 1 : off[j] <= off[1]
    /\ \A j \in 1..Len(ps) : off[j] = off[j + 1] + Len(ps[j].messages)
    /\ \A j \in 1..Len(ps) : \A i \in 1..Len(ps[j].messages) :
          ps[j].messages[i] = off[j] - i + 1

\* The pages hold the messages from t down, to the one above b.
Pile(ps, t, b) == \E off : Stack(ps, off) /\ off[1] = t /\ off[Len(ps) + 1] = b

\* The last page tells whether there are messages under it.
Ends(page, b) ==
    /\ chatKind = "ROOM" => \/ page.next = Nothing /\ b = 0
                            \/ page.next = b + 1 /\ page.messages # <<>>
    /\ chatKind = "DM" => (Len(page.messages) < PageSize => b = 0)

PagesPiled ==
    pages # Nothing /\ ~muddled =>
        \E t, b \in Nat : /\ t <= posted /\ Follow(t)
                          /\ Pile(pages, t, b) /\ Ends(pages[Len(pages)], b)

\* A response holds a pile of what was there when it was read, unless it is
\* of older messages, to go behind pages that are none.
FetchPiled ==
    fetch # Nothing /\ fetch.got # <<>> =>
        /\ fetch.left > 0 => NextParam(fetch.got) # Nothing
        /\ (fetch.older => ~muddled) =>
              \E t, b \in Nat : t <= posted /\ Pile(fetch.got, t, b)
                                            /\ Ends(fetch.got[Len(fetch.got)], b)

PageInv == PageTypes /\ EventsPosted /\ PagesPiled /\ FetchPiled

--------------------------------------------------------------------------------
(* Induction, of which the library's theorem takes an operator *)

LEMMA Least == ASSUME NEW T, T \subseteq Nat, T # {} PROVE \E x \in T : \A y \in T : ~(y < x)
<1>1. \E x \in T : \A y \in T : ~(<<y, x>> \in OpToRel(<, Nat))
  BY NatLessThanWellFounded, WFMin, Zenon
<1> QED BY <1>1 DEF OpToRel

LEMMA Induction ==
    ASSUME NEW S, 0 \in S, \A n \in Nat : n \in S => n + 1 \in S PROVE Nat \subseteq S
<1> DEFINE T == Nat \ S
<1> SUFFICES ASSUME T # {} PROVE FALSE  OBVIOUS
<1>1. PICK x \in T : \A y \in T : ~(y < x)  BY Least
<1>2. x # 0 /\ x - 1 \in Nat /\ x - 1 < x  BY <1>1
<1>3. x - 1 \in S  BY <1>1, <1>2
<1> QED BY <1>1, <1>2, <1>3

--------------------------------------------------------------------------------
(* What a pile shows *)

\* The messages from t down, to the one above b.
Down(t, b) == [k \in 1..(t - b) |-> t - k + 1]

LEMMA DownIs ==
    ASSUME NEW t \in Nat, NEW b \in Nat, b <= t
    PROVE  Down(t, b) \in Seq(Nat) /\ Len(Down(t, b)) = t - b
           /\ \A k \in 1..(t - b) : Down(t, b)[k] = t - k + 1
  BY DEF Down

LEMMA SameSeq ==
    ASSUME NEW s \in Seq(Nat), NEW u \in Seq(Nat), Len(s) = Len(u),
           \A i \in 1..Len(s) : s[i] = u[i]
    PROVE  s = u
  BY SeqEqual

\* The messages s are those from b down.
Falls(s, b) == \A i \in 1..Len(s) : s[i] = b - i + 1

LEMMA DownJoin ==
    ASSUME NEW t \in Nat, NEW b \in Nat, b <= t, NEW s \in Seq(Nat), NEW c \in Nat,
           b = c + Len(s), Falls(s, b)
    PROVE  Down(t, b) \o s = Down(t, c)
<1>1. PICK d \in Seq(Nat) : /\ d = Down(t, b) /\ Len(d) = t - b
                            /\ \A k \in 1..(t - b) : d[k] = t - k + 1
  BY DownIs
<1>2. Len(s) \in Nat /\ c <= t  OBVIOUS
<1>3. PICK e \in Seq(Nat) : /\ e = Down(t, c) /\ Len(e) = t - c
                            /\ \A k \in 1..(t - c) : e[k] = t - k + 1
  BY <1>2, DownIs
<1>4. /\ d \o s \in Seq(Nat) /\ Len(d \o s) = Len(d) + Len(s)
      /\ \A k \in 1..(Len(d) + Len(s)) :
            (d \o s)[k] = IF k <= Len(d) THEN d[k] ELSE s[k - Len(d)]
  BY ConcatProperties
<1>5. ASSUME NEW k \in 1..Len(d \o s) PROVE (d \o s)[k] = e[k]
  <2>0. /\ k \in Int /\ 1 <= k /\ k <= (t - b) + Len(s) /\ k <= t - c
        /\ (d \o s)[k] = IF k <= Len(d) THEN d[k] ELSE s[k - Len(d)]
    BY <1>1, <1>2, <1>4
  <2>1. e[k] = t - k + 1  BY <1>3, <2>0
  <2>2. CASE k <= t - b
    <3>1. d[k] = t - k + 1  BY <1>1, <2>0, <2>2
    <3> QED BY <1>1, <2>0, <2>1, <2>2, <3>1
  <2>3. CASE ~(k <= t - b)
    <3>1. k - (t - b) \in 1..Len(s)  BY <1>2, <2>0, <2>3
    <3>2. s[k - (t - b)] = b - (k - (t - b)) + 1  BY <3>1 DEF Falls
    <3>3. b - (k - (t - b)) + 1 = t - k + 1  BY <2>0
    <3> QED BY <1>1, <2>0, <2>1, <2>3, <3>2, <3>3
  <2> QED BY <2>2, <2>3
<1>6. Len(d \o s) = Len(e)  BY <1>1, <1>2, <1>3, <1>4
<1>7. d \o s = e  BY <1>4, <1>5, <1>6, SameSeq
<1> QED BY <1>1, <1>3, <1>7

Joins(f, seqs, n) ==
    f = [i \in 1..n |-> IF i = 1 THEN seqs[i] ELSE f[i - 1] \o seqs[i]]

LEMMA FlattenIs ==
    ASSUME NEW seqs, Len(seqs) # 0
    PROVE  FlattenSeq(seqs) = (CHOOSE f : Joins(f, seqs, Len(seqs)))[Len(seqs)]
  BY DEF FlattenSeq, Joins

LEMMA PileShown ==
    ASSUME NEW ps \in Seq(Pages), ps # <<>>, NEW t \in Nat, NEW b \in Nat, Pile(ps, t, b)
    PROVE  b <= t /\ Shown(ps) = Down(t, b)
<1> DEFINE n == Len(ps)
           seqs == [j \in 1..n |-> ps[j].messages]
<1>1. n \in Nat \ {0} /\ Len(seqs) = n /\ \A j \in 1..n : ps[j] \in Pages
  OBVIOUS
<1>2. \A j \in 1..n : seqs[j] \in Seq(Nat) /\ seqs[j] = ps[j].messages
  BY <1>1 DEF Pages
<1>3. PICK off : Stack(ps, off) /\ off[1] = t /\ off[n + 1] = b  BY DEF Pile
<1>4. /\ \A j \in 1..(n + 1) : off[j] \in Nat /\ off[j] <= t
      /\ \A j \in 1..n : /\ off[j] = off[j + 1] + Len(seqs[j])
                         /\ \A i \in 1..Len(seqs[j]) : seqs[j][i] = off[j] - i + 1
  BY <1>1, <1>2, <1>3 DEF Stack
<1>5. Shown(ps) = FlattenSeq(seqs)  BY DEF Shown
<1> HIDE DEF n, seqs
<1> DEFINE whole == [j \in 1..n |-> Down(t, off[j + 1])]
<1>6. ASSUME NEW j \in 1..n, j # 1 PROVE Down(t, off[j]) \o seqs[j] = Down(t, off[j + 1])
  <2>1. j + 1 \in 1..(n + 1) /\ j \in 1..(n + 1)  BY <1>1
  <2>2. /\ off[j] \in Nat /\ off[j] <= t /\ off[j + 1] \in Nat /\ seqs[j] \in Seq(Nat)
        /\ off[j] = off[j + 1] + Len(seqs[j])
        /\ \A i \in 1..Len(seqs[j]) : seqs[j][i] = off[j] - i + 1
    BY <1>2, <1>4, <2>1
  <2>3. PICK hi \in Nat, lo \in Nat, sq \in Seq(Nat) :
           hi = off[j] /\ lo = off[j + 1] /\ sq = seqs[j]
    BY <2>2, Zenon
  <2>4. hi <= t /\ hi = lo + Len(sq) /\ Falls(sq, hi)  BY <2>2, <2>3 DEF Falls
  <2>5. Down(t, hi) \o sq = Down(t, lo)  BY <2>4, DownJoin
  <2> QED BY <2>3, <2>5
<1>7. seqs[1] = Down(t, off[2])
  <2>1. 1 \in 1..n /\ 2 \in 1..(n + 1) /\ 1 + 1 = 2  BY <1>1
  <2>2. t = off[2] + Len(seqs[1]) /\ \A i \in 1..Len(seqs[1]) : seqs[1][i] = t - i + 1
    BY <1>3, <1>4, <2>1
  <2>3. off[2] \in Nat /\ off[2] <= t /\ seqs[1] \in Seq(Nat)  BY <1>2, <1>4, <2>1
  <2>4. Len(seqs[1]) = t - off[2]  BY <2>2, <2>3
  <2>5. PICK d \in Seq(Nat) : /\ d = Down(t, off[2]) /\ Len(d) = t - off[2]
                              /\ \A k \in 1..(t - off[2]) : d[k] = t - k + 1
    BY <2>3, DownIs
  <2>6. \A k \in 1..Len(seqs[1]) : seqs[1][k] = d[k]  BY <2>2, <2>4, <2>5
  <2>7. seqs[1] = d  BY <2>3, <2>4, <2>5, <2>6, SameSeq
  <2> QED BY <2>5, <2>7
<1>8. Joins(whole, seqs, n)
  <2>1. ASSUME NEW j \in 1..n
        PROVE  whole[j] = IF j = 1 THEN seqs[j] ELSE whole[j - 1] \o seqs[j]
    <3>1. CASE j = 1  BY <3>1, <1>7
    <3>2. CASE j # 1
      <4>1. j - 1 \in 1..n /\ (j - 1) + 1 = j  BY <1>1, <3>2
      <4> QED BY <1>6, <3>2, <4>1
    <3> QED BY <3>1, <3>2
  <2> QED BY <2>1 DEF Joins
<1> HIDE DEF whole
<1> DEFINE f == CHOOSE h : Joins(h, seqs, n)
<1>9. Joins(f, seqs, n)  BY <1>8
<1> HIDE DEF f
<1>10. \A j \in 1..n : f[j] = IF j = 1 THEN seqs[j] ELSE f[j - 1] \o seqs[j]
  BY <1>9 DEF Joins
<1>11. \A j \in 1..n : whole[j] = IF j = 1 THEN seqs[j] ELSE whole[j - 1] \o seqs[j]
  BY <1>8 DEF Joins
<1> DEFINE S == {k \in Nat : k \in 1..n => f[k] = whole[k]}
<1>12. 0 \in S  OBVIOUS
<1>13. ASSUME NEW k \in Nat, k \in S PROVE k + 1 \in S
  <2> SUFFICES ASSUME k + 1 \in 1..n PROVE f[k + 1] = whole[k + 1]  OBVIOUS
  <2>1. CASE k = 0  BY <2>1, <1>10, <1>11
  <2>2. CASE k # 0
    <3>1. k \in 1..n /\ (k + 1) - 1 = k /\ k + 1 # 1  BY <1>1, <2>2
    <3> QED BY <3>1, <1>10, <1>11, <1>13
  <2> QED BY <2>1, <2>2
<1>14. Nat \subseteq S
  <2> HIDE DEF S
  <2> QED BY <1>12, <1>13, Induction
<1>15. f[n] = whole[n]  BY <1>1, <1>14
<1>16. whole[n] = Down(t, b)  BY <1>1, <1>3 DEF whole
<1>17. FlattenSeq(seqs) = f[n]  BY <1>1, FlattenIs DEF f
<1>18. b <= t  BY <1>1, <1>3, <1>4
<1> QED BY <1>5, <1>15, <1>16, <1>17, <1>18

LEMMA PileOne ==
    ASSUME NEW page \in Pages, NEW t \in Nat, NEW b \in Nat, t = b + Len(page.messages),
           \A i \in 1..Len(page.messages) : page.messages[i] = t - i + 1
    PROVE  Pile(<<page>>, t, b)
<1> DEFINE off == [j \in 1..2 |-> IF j = 1 THEN t ELSE b]
<1>1. Len(<<page>>) = 1 /\ <<page>>[1] = page /\ page.messages \in Seq(Nat \ {0})
  BY DEF Pages
<1>2. off[1] = t /\ off[2] = b /\ off \in [1..2 -> Nat] /\ b <= t  BY <1>1
<1> HIDE DEF off
<1>3. Stack(<<page>>, off)
  <2>1. PICK ps : ps = <<page>> /\ Len(ps) = 1 /\ ps[1] = page  BY <1>1
  <2>2. off[1] = off[1 + 1] + Len(ps[1].messages)  BY <1>2, <2>1
  <2>3. \A i \in 1..Len(ps[1].messages) : ps[1].messages[i] = off[1] - i + 1
    BY <1>2, <2>1
  <2>4. \A j \in 1..1 : j = 1  OBVIOUS
  <2>5. \A j \in 1..1 : off[j] = off[j + 1] + Len(ps[j].messages)  BY <2>2, <2>4
  <2>6. \A j \in 1..1 : \A i \in 1..Len(ps[j].messages) : ps[j].messages[i] = off[j] - i + 1
    BY <2>3, <2>4, Zenon
  <2>7. \A j \in 1..2 : off[j] <= off[1]  BY <1>2
  <2>8. Len(ps) + 1 = 2  BY <2>1
  <2> QED BY <1>2, <2>1, <2>5, <2>6, <2>7, <2>8, Zenon DEF Stack
<1> QED BY <1>1, <1>2, <1>3 DEF Pile

LEMMA PileAppend ==
    ASSUME NEW ps \in Seq(Pages), ps # <<>>, NEW t \in Nat, NEW b \in Nat, Pile(ps, t, b),
           NEW page \in Pages, NEW c \in Nat, b = c + Len(page.messages),
           \A i \in 1..Len(page.messages) : page.messages[i] = b - i + 1
    PROVE  Pile(Append(ps, page), t, c)
<1>1. PICK n \in Nat : n = Len(ps)  OBVIOUS
<1> DEFINE qs == Append(ps, page)
<1>2. /\ qs \in Seq(Pages) /\ Len(qs) = Len(ps) + 1 /\ qs[Len(ps) + 1] = page
      /\ \A j \in 1..Len(ps) : qs[j] = ps[j]
  <2> DEFINE P(S) == ps \in Seq(S) /\ page \in S =>
                        /\ qs \in Seq(S) /\ Len(qs) = Len(ps) + 1 /\ qs[Len(ps) + 1] = page
                        /\ \A j \in 1..Len(ps) : qs[j] = ps[j]
  <2>1. \A S : P(S)  BY AppendProperties
  <2> QED BY <2>1, Zenon
<1> HIDE DEF qs
<1>3. Len(qs) = n + 1 /\ qs[n + 1] = page /\ \A j \in 1..n : qs[j] = ps[j]
  BY <1>1, <1>2
<1>4. PICK off : Stack(ps, off) /\ off[1] = t /\ off[n + 1] = b  BY <1>1 DEF Pile
<1>5. /\ off \in [1..(n + 1) -> Nat] /\ \A j \in 1..(n + 1) : off[j] <= t
      /\ \A j \in 1..n : off[j] = off[j + 1] + Len(ps[j].messages)
      /\ \A j \in 1..n : \A i \in 1..Len(ps[j].messages) :
            ps[j].messages[i] = off[j] - i + 1
  BY <1>1, <1>4 DEF Stack
<1> DEFINE more == [j \in 1..(n + 2) |-> IF j = n + 2 THEN c ELSE off[j]]
<1>6. /\ more \in [1..(n + 2) -> Nat] /\ more[n + 2] = c
      /\ \A j \in 1..(n + 1) : more[j] = off[j]
  BY <1>5
<1>7. more[1] = t /\ more[n + 1] = b  BY <1>4, <1>6
<1>8. Len(page.messages) \in Nat /\ c <= b /\ b <= t
  <2>1. page.messages \in Seq(Nat \ {0})  BY DEF Pages
  <2>2. b <= t  BY <1>4, <1>5
  <2> QED BY <2>1, <2>2
<1> HIDE DEF more
<1>9. \A j \in 1..(n + 2) : more[j] <= more[1]
  <2> SUFFICES ASSUME NEW j \in 1..(n + 2) PROVE more[j] <= t  BY <1>7
  <2>1. CASE j = n + 2  BY <1>6, <1>8, <2>1
  <2>2. CASE j # n + 2  BY <1>5, <1>6, <2>2
  <2> QED BY <2>1, <2>2
<1>10. ASSUME NEW j \in 1..(n + 1)
       PROVE  /\ more[j] = more[j + 1] + Len(qs[j].messages)
              /\ \A i \in 1..Len(qs[j].messages) : qs[j].messages[i] = more[j] - i + 1
  <2>1. CASE j = n + 1
    <3>1. more[j + 1] = c /\ qs[j] = page /\ more[j] = b  BY <1>3, <1>6, <1>7, <2>1
    <3> QED BY <3>1
  <2>2. CASE j # n + 1
    <3>1. j \in 1..n /\ j + 1 \in 1..(n + 1)  BY <2>2
    <3>2. more[j] = off[j] /\ more[j + 1] = off[j + 1] /\ qs[j] = ps[j]
      BY <1>3, <1>6, <3>1
    <3> QED BY <1>5, <3>1, <3>2
  <2> QED BY <2>1, <2>2
<1>11. Stack(qs, more)
  <2>1. Len(qs) + 1 = n + 2  BY <1>3
  <2> QED BY <1>3, <1>6, <1>9, <1>10, <2>1 DEF Stack
<1>12. more[Len(qs) + 1] = c  BY <1>3, <1>6
<1> QED BY <1>7, <1>11, <1>12 DEF Pile, qs

LEMMA PilePrepend ==
    ASSUME NEW ps \in Seq(Pages), ps # <<>>, NEW t \in Nat, NEW b \in Nat, Pile(ps, t, b),
           NEW qs \in Seq(Pages), Len(qs) = Len(ps), \A j \in 2..Len(ps) : qs[j] = ps[j],
           qs[1].messages = <<t + 1>> \o ps[1].messages
    PROVE  Pile(qs, t + 1, b)
<1>1. PICK n \in Nat \ {0} : n = Len(ps) /\ n = Len(qs)  OBVIOUS
<1>2. PICK off : Stack(ps, off) /\ off[1] = t /\ off[n + 1] = b  BY <1>1 DEF Pile
<1>3. /\ off \in [1..(n + 1) -> Nat] /\ \A j \in 1..(n + 1) : off[j] <= t
      /\ \A j \in 1..n : off[j] = off[j + 1] + Len(ps[j].messages)
      /\ \A j \in 1..n : \A i \in 1..Len(ps[j].messages) :
            ps[j].messages[i] = off[j] - i + 1
  BY <1>1, <1>2 DEF Stack
<1> DEFINE more == [off EXCEPT ![1] = t + 1]
<1>4. /\ more \in [1..(n + 1) -> Nat] /\ more[1] = t + 1
      /\ \A j \in 2..(n + 1) : more[j] = off[j]
  BY <1>3
<1> HIDE DEF more
<1>5. \A j \in 1..(n + 1) : more[j] <= more[1]
  <2> SUFFICES ASSUME NEW j \in 1..(n + 1) PROVE more[j] <= t + 1  BY <1>4
  <2>1. CASE j = 1  BY <1>4, <2>1
  <2>2. CASE j # 1
    <3>1. j \in 2..(n + 1) /\ off[j] <= t /\ off[j] \in Nat  BY <1>3, <2>2
    <3> QED BY <1>4, <3>1
  <2> QED BY <2>1, <2>2
<1> 1 \in 1..n /\ ps[1] \in Pages /\ qs[1] \in Pages  BY <1>1, ElementOfSeq
<1>6. PICK s \in Seq(Nat \ {0}) : s = ps[1].messages  BY DEF Pages
<1>7. PICK u \in Seq(Nat \ {0}) : u = qs[1].messages  BY DEF Pages
<1>8. /\ Len(u) = Len(s) + 1 /\ u[1] = t + 1
      /\ \A i \in 2..(Len(s) + 1) : u[i] = s[i - 1]
  <2>1. u = <<t + 1>> \o s  BY <1>6, <1>7
  <2>2. <<t + 1>> \in Seq(Nat) /\ Len(<<t + 1>>) = 1 /\ <<t + 1>>[1] = t + 1 /\ s \in Seq(Nat)
    OBVIOUS
  <2> QED BY <2>1, <2>2, ConcatProperties
<1>9. ASSUME NEW j \in 1..n
      PROVE  /\ more[j] = more[j + 1] + Len(qs[j].messages)
             /\ \A i \in 1..Len(qs[j].messages) : qs[j].messages[i] = more[j] - i + 1
  <2>1. CASE j = 1
    <3>1. more[2] = off[2] /\ off[2] \in Nat /\ 1 \in 1..n /\ 1 + 1 = 2  BY <1>3, <1>4
    <3>2. t = off[2] + Len(s) /\ \A i \in 1..Len(s) : s[i] = t - i + 1
      BY <1>2, <1>3, <1>6, <3>1
    <3>3. t + 1 = more[2] + Len(u)  BY <1>8, <3>1, <3>2
    <3>4. ASSUME NEW i \in 1..Len(u) PROVE u[i] = (t + 1) - i + 1
      <4>1. CASE i = 1  BY <1>8, <4>1
      <4>2. CASE i # 1
        <5>1. i \in 2..(Len(s) + 1) /\ i - 1 \in 1..Len(s)  BY <1>8, <4>2
        <5>2. u[i] = s[i - 1] /\ s[i - 1] = t - (i - 1) + 1  BY <1>8, <3>2, <5>1
        <5> QED BY <5>2
      <4> QED BY <4>1, <4>2
    <3> QED BY <1>4, <1>7, <2>1, <3>1, <3>3, <3>4
  <2>2. CASE j # 1
    <3>1. j \in 2..n /\ j \in 2..(n + 1) /\ j + 1 \in 2..(n + 1)  BY <2>2
    <3>2. more[j] = off[j] /\ more[j + 1] = off[j + 1] /\ qs[j] = ps[j]
      BY <1>1, <1>4, <3>1
    <3> QED BY <1>3, <3>2
  <2> QED BY <2>1, <2>2
<1>10. Stack(qs, more)
  <2>1. Len(qs) = n  BY <1>1
  <2>2. \A j \in 1..Len(qs) : more[j] = more[j + 1] + Len(qs[j].messages)
    BY <1>9, <2>1, Zenon
  <2>3. \A j \in 1..Len(qs) : \A i \in 1..Len(qs[j].messages) :
            qs[j].messages[i] = more[j] - i + 1
    BY <1>9, <2>1, Zenon
  <2>4. more \in [1..Len(qs) + 1 -> Nat]  BY <1>4, <2>1
  <2>5. \A j \in 1..Len(qs) + 1 : more[j] <= more[1]  BY <1>5, <2>1
  <2> QED BY <2>2, <2>3, <2>4, <2>5, Zenon DEF Stack
<1>11. more[Len(qs) + 1] = b
  <2>1. n + 1 \in 2..(n + 1)  OBVIOUS
  <2>2. more[n + 1] = off[n + 1]  BY <1>4, <2>1, Zenon
  <2> QED BY <1>1, <1>2, <2>2, Zenon
<1> QED BY <1>4, <1>10, <1>11 DEF Pile

\* The newest message of a pile is its first; a pile of nothing has come to
\* the end, and so has no next page.
LEMMA PileTop ==
    ASSUME PageTypes, NEW ps \in Seq(Pages), ps # <<>>, NEW t \in Nat, NEW b \in Nat,
           Pile(ps, t, b), Ends(ps[Len(ps)], b)
    PROVE  (IF Shown(ps) = <<>> THEN 0 ELSE Head(Shown(ps))) = t
<1>1. b <= t /\ Shown(ps) = Down(t, b)  BY PileShown
<1>2. /\ Down(t, b) \in Seq(Nat) /\ Len(Down(t, b)) = t - b
      /\ \A k \in 1..(t - b) : Down(t, b)[k] = t - k + 1
  BY <1>1, DownIs
<1>3. CASE t = b
  <2>1. Shown(ps) = <<>>  BY <1>1, <1>2, <1>3
  <2>2. PICK n \in Nat \ {0} : n = Len(ps)  OBVIOUS
  <2>3. PICK off : Stack(ps, off) /\ off[1] = t /\ off[n + 1] = b  BY <2>2 DEF Pile
  <2>4. /\ off[n] <= t
        /\ off[n] = b + Len(ps[n].messages)
    <3>1. n \in 1..n /\ n \in 1..n + 1  BY <2>2
    <3> QED BY <2>2, <2>3, <3>1 DEF Stack
  <2>5. ps[n].messages \in Seq(Nat \ {0})
    <3>1. n \in 1..n /\ ps[n] \in Pages  BY <2>2, ElementOfSeq
    <3> QED BY <3>1 DEF Pages
  <2>6. Len(ps[n].messages) = 0 /\ ps[n].messages = <<>>  BY <1>3, <2>4, <2>5
  <2>7. b = 0  BY <2>2, <2>6, BoundAssumption DEF Ends, PageTypes
  <2> QED BY <1>3, <2>1, <2>7
<1>4. CASE t # b
  <2>1. Shown(ps) # <<>> /\ Head(Shown(ps)) = t  BY <1>1, <1>2, <1>4
  <2> QED BY <2>1
<1> QED BY <1>3, <1>4

--------------------------------------------------------------------------------
(* What the server answers, and the cursor it gives *)

LEMMA NewestIs ==
    ASSUME PageTypes, NEW cursor \in Cursors, NEW size \in Nat, NEW top \in Nat,
           top = IF cursor = Nothing THEN posted ELSE cursor - 1
    PROVE  /\ Newest(cursor, size) \in Seq(Nat \ {0})
           /\ Len(Newest(cursor, size)) = IF top < size THEN top ELSE size
           /\ \A i \in 1..Len(Newest(cursor, size)) :
                 Newest(cursor, size)[i] = top - i + 1
<1> DEFINE len == IF top < size THEN top ELSE size
           rows == [i \in 1..len |-> top - i + 1]
<1>1. len \in Nat /\ len <= top  OBVIOUS
<1>2. Newest(cursor, size) = rows  BY DEF Newest
<1> HIDE DEF len
<1>3. \A i \in 1..len : top - i + 1 \in Nat \ {0}  BY <1>1
<1>4. rows \in Seq(Nat \ {0}) /\ Len(rows) = len /\ \A i \in 1..len : rows[i] = top - i + 1
  BY <1>1, <1>3
<1> QED BY <1>2, <1>4 DEF len

LEMMA FirstRows ==
    ASSUME NEW s \in Seq(Nat \ {0}), NEW k \in Nat, k <= Len(s)
    PROVE  /\ SubSeq(s, 1, k) \in Seq(Nat \ {0}) /\ Len(SubSeq(s, 1, k)) = k
           /\ \A i \in 1..k : SubSeq(s, 1, k)[i] = s[i]
  OBVIOUS

LEMMA PageAtIs ==
    ASSUME PageTypes, NEW cursor \in Cursors, NEW top \in Nat,
           top = IF cursor = Nothing THEN posted ELSE cursor - 1
    PROVE  /\ PageAt(cursor) \in Pages
           /\ \E b \in Nat :
                 /\ top = b + Len(PageAt(cursor).messages)
                 /\ \A i \in 1..Len(PageAt(cursor).messages) :
                       PageAt(cursor).messages[i] = top - i + 1
                 /\ Ends(PageAt(cursor), b)
<1>0. PageSize \in Nat \ {0}  BY BoundAssumption
<1>1. CASE chatKind = "ROOM"
  <2>1. PICK found \in Seq(Nat \ {0}) :
           /\ found = Newest(cursor, PageSize + 1)
           /\ Len(found) = IF top < PageSize + 1 THEN top ELSE PageSize + 1
           /\ \A i \in 1..Len(found) : found[i] = top - i + 1
    BY <1>0, NewestIs
  <2> DEFINE len == IF Len(found) < PageSize THEN Len(found) ELSE PageSize
             rows == SubSeq(found, 1, len)
             next == IF Len(found) > PageSize THEN Last(rows) ELSE Nothing
  <2>2. PageAt(cursor) = [messages |-> rows, next |-> next]
    BY <1>1, <2>1 DEF PageAt, RoomPage
  <2>3. len \in Nat /\ len <= Len(found) /\ len <= PageSize /\ len <= top
    BY <1>0, <2>1
  <2>4. rows \in Seq(Nat \ {0}) /\ Len(rows) = len /\ \A i \in 1..len : rows[i] = top - i + 1
    <3>1. /\ rows \in Seq(Nat \ {0}) /\ Len(rows) = len
          /\ \A i \in 1..len : rows[i] = found[i]
      BY <2>3, FirstRows
    <3>2. \A i \in 1..len : i \in 1..Len(found)  BY <2>3
    <3> HIDE DEF len, rows
    <3> QED BY <2>1, <3>1, <3>2
  <2>5. CASE Len(found) > PageSize
    <3>1. len = PageSize /\ top >= PageSize + 1  BY <1>0, <2>1, <2>5
    <3>2. Last(rows) = rows[len] /\ len \in 1..len /\ rows # <<>>
      <4>1. len \in 1..len /\ len # 0  BY <1>0, <3>1
      <4> HIDE DEF len, rows
      <4>2. Last(rows) = rows[len]  BY <2>4 DEF Last
      <4>3. rows # <<>>  BY <2>4, <4>1
      <4> QED BY <4>1, <4>2, <4>3
    <3>0. next = Last(rows)  BY <2>5
    <3> DEFINE b == top - len
    <3> HIDE DEF len, rows, next
    <3>3. next = top - len + 1  BY <2>4, <3>0, <3>2
    <3>4. b \in Nat /\ top = b + Len(rows) /\ next = b + 1  BY <2>3, <2>4, <3>3
    <3> HIDE DEF b
    <3>5. PageAt(cursor) \in Pages  BY <2>2, <2>4, <3>4 DEF Pages, Cursors
    <3>6. PageAt(cursor).messages = rows /\ PageAt(cursor).next = next  BY <2>2
    <3>7. Ends(PageAt(cursor), b)  BY <1>1, <3>2, <3>4, <3>6 DEF Ends
    <3>8. \A i \in 1..Len(rows) : rows[i] = top - i + 1  BY <2>4
    <3> QED BY <3>4, <3>5, <3>6, <3>7, <3>8
  <2>6. CASE ~(Len(found) > PageSize)
    <3>1. len = top /\ next = Nothing  BY <1>0, <2>1, <2>6
    <3> HIDE DEF len, rows, next
    <3>2. PageAt(cursor) \in Pages  BY <2>2, <2>4, <3>1 DEF Pages, Cursors
    <3>3. Ends(PageAt(cursor), 0)
      <4>1. PageAt(cursor).next = Nothing  BY <2>2, <3>1
      <4> QED BY <1>1, <4>1 DEF Ends
    <3>4. top = 0 + Len(PageAt(cursor).messages)  BY <2>2, <2>4, <3>1
    <3> QED BY <2>2, <2>4, <3>2, <3>3, <3>4
  <2> QED BY <2>5, <2>6
<1>2. CASE chatKind = "DM"
  <2>1. PICK rows \in Seq(Nat \ {0}) :
           /\ rows = Newest(cursor, PageSize)
           /\ Len(rows) = IF top < PageSize THEN top ELSE PageSize
           /\ \A i \in 1..Len(rows) : rows[i] = top - i + 1
    BY <1>0, NewestIs
  <2>2. PageAt(cursor) = [messages |-> rows, next |-> Nothing]
    BY <1>2, <2>1 DEF PageAt, DmPage
  <2> DEFINE b == top - Len(rows)
  <2>3. b \in Nat /\ top = b + Len(rows) /\ (Len(rows) < PageSize => b = 0)
    <3>1. CASE top < PageSize  BY <1>0, <2>1, <3>1
    <3>2. CASE ~(top < PageSize)
      <4>1. Len(rows) = PageSize /\ PageSize <= top  BY <1>0, <2>1, <3>2
      <4> QED BY <1>0, <4>1
    <3> QED BY <3>1, <3>2
  <2> HIDE DEF b
  <2>4. PageAt(cursor) \in Pages  BY <2>2 DEF Pages, Cursors
  <2>5. Ends(PageAt(cursor), b)
    <3>1. PageAt(cursor).messages = rows  BY <2>2
    <3>2. chatKind # "ROOM"  BY <1>2
    <3> QED BY <2>3, <3>1, <3>2 DEF Ends
  <2>6. PageAt(cursor).messages = rows  BY <2>2
  <2>7. \A i \in 1..Len(rows) : rows[i] = top - i + 1  BY <2>1
  <2> QED BY <2>3, <2>4, <2>5, <2>6, <2>7
<1> QED BY <1>1, <1>2 DEF PageTypes

LEMMA NextParamType ==
    ASSUME PageTypes, NEW ps \in Seq(Pages), ps # <<>>
    PROVE  NextParam(ps) \in Cursors
<1>1. Len(ps) \in 1..Len(ps) /\ ps[Len(ps)] \in Pages /\ Last(ps) = ps[Len(ps)]
  BY ElementOfSeq DEF Last
<1>2. PICK page \in Pages : page = Last(ps)  BY <1>1
<1>3. page.next \in Cursors /\ page.messages \in Seq(Nat \ {0})  BY DEF Pages
<1>4. ASSUME ~(Len(page.messages) < PageSize) PROVE Last(page.messages) \in Nat \ {0}
  BY <1>3, <1>4, ElementOfSeq, BoundAssumption DEF Last
<1> QED BY <1>2, <1>3, <1>4 DEF NextParam, RoomNextParam, DmNextParam, Cursors

\* The next page begins with the first message under the pile.
LEMMA NextParamIs ==
    ASSUME PageTypes, NEW ps \in Seq(Pages), ps # <<>>, NEW t \in Nat,
           NEW b \in Nat, Pile(ps, t, b), Ends(ps[Len(ps)], b)
    PROVE  /\ NextParam(ps) = Nothing => b = 0
           /\ NextParam(ps) # Nothing => NextParam(ps) = b + 1
<1>1. PICK n \in Nat \ {0} : n = Len(ps)  OBVIOUS
<1>2. PICK page \in Pages : page = ps[n]  BY <1>1, ElementOfSeq
<1>3. Last(ps) = page /\ Ends(page, b)  BY <1>1, <1>2 DEF Last
<1>4. PICK rows \in Seq(Nat \ {0}) : rows = page.messages  BY DEF Pages
<1>5. CASE chatKind = "ROOM"
  <2>1. NextParam(ps) = page.next  BY <1>3, <1>5 DEF NextParam, RoomNextParam
  <2> QED BY <1>3, <1>5, <2>1, NothingAssumption DEF Ends
<1>6. CASE chatKind = "DM"
  <2>1. NextParam(ps) = IF Len(rows) < PageSize THEN Nothing ELSE Last(rows)
    BY <1>3, <1>4, <1>6 DEF NextParam, DmNextParam
  <2>2. CASE Len(rows) < PageSize  BY <1>3, <1>4, <1>6, <2>1, <2>2 DEF Ends
  <2>3. CASE ~(Len(rows) < PageSize)
    <3>1. PICK off : Stack(ps, off) /\ off[n + 1] = b  BY <1>1 DEF Pile
    <3>2. /\ off[n] = b + Len(rows)
          /\ \A i \in 1..Len(rows) : rows[i] = off[n] - i + 1
      <4>1. n \in 1..n  OBVIOUS
      <4> QED BY <1>1, <1>2, <1>4, <3>1, <4>1 DEF Stack
    <3>3. Len(rows) \in 1..Len(rows)  BY <2>3, BoundAssumption
    <3>4. Last(rows) = b + 1  BY <3>2, <3>3 DEF Last
    <3> QED BY <2>1, <2>3, <3>4, NothingAssumption
  <2> QED BY <2>2, <2>3
<1> QED BY <1>5, <1>6 DEF PageTypes

--------------------------------------------------------------------------------
(* What an event prepends *)

LEMMA PrependIs ==
    ASSUME PageTypes, pages # Nothing, NEW m \in Nat \ {0}, NEW qs,
           qs = IF chatKind = "ROOM" THEN RoomPrepend(pages, m) ELSE DmPrepend(pages, m)
    PROVE  /\ qs \in Seq(Pages) /\ Len(qs) = Len(pages)
           /\ \A j \in 2..Len(pages) : qs[j] = pages[j]
           /\ qs[1].messages = <<m>> \o pages[1].messages /\ qs[1].next = pages[1].next
<1>1. pages \in Seq(Pages) /\ 1 \in 1..Len(pages)  BY DEF PageTypes
<1>2. PICK first \in Pages : first = pages[1]  BY <1>1, ElementOfSeq
<1>3. PICK rows \in Seq(Nat \ {0}) : rows = first.messages  BY DEF Pages
<1> DEFINE one == [messages |-> <<m>> \o rows, next |-> first.next]
<1>4. <<m>> \o rows \in Seq(Nat \ {0})
  <2>1. <<m>> \in Seq(Nat \ {0})  OBVIOUS
  <2> QED BY <2>1, ConcatProperties
<1>5. one \in Pages  BY <1>4 DEF Pages
<1>6. qs = [pages EXCEPT ![1] = one]
  <2>1. CASE chatKind = "ROOM"  BY <1>1, <1>2, <1>3, <2>1 DEF RoomPrepend
  <2>2. CASE chatKind # "ROOM"
    <3>1. qs = [pages EXCEPT ![1] = [pages[1] EXCEPT !.messages = <<m>> \o pages[1].messages]]
      BY <2>2 DEF DmPrepend
    <3>2. \A r : [first EXCEPT !.messages = r] = [messages |-> r, next |-> first.next]
      BY DEF Pages
    <3>3. [first EXCEPT !.messages = <<m>> \o rows] = one  BY <3>2
    <3> QED BY <1>2, <1>3, <3>1, <3>3
  <2> QED BY <2>1, <2>2
<1>7. one.messages = <<m>> \o rows /\ one.next = first.next  OBVIOUS
<1> HIDE DEF one
<1>8. /\ qs \in Seq(Pages) /\ Len(qs) = Len(pages)
      /\ \A j \in 1..Len(pages) : qs[j] = IF j = 1 THEN one ELSE pages[j]
  <2> DEFINE P(S) == pages \in Seq(S) /\ one \in S =>
                        /\ qs \in Seq(S) /\ Len(qs) = Len(pages)
                        /\ \A j \in 1..Len(pages) : qs[j] = IF j = 1 THEN one ELSE pages[j]
  <2>1. \A S : P(S)  BY <1>1, <1>6, ExceptSeq
  <2> QED BY <1>1, <1>5, <2>1, Zenon
<1>9. \A j \in 2..Len(pages) : j \in 1..Len(pages) /\ j # 1  OBVIOUS
<1>10. \A j \in 2..Len(pages) : qs[j] = pages[j]  BY <1>8, <1>9, Zenon
<1>11. qs[1] = one  BY <1>1, <1>8, Zenon
<1> QED BY <1>2, <1>3, <1>7, <1>8, <1>10, <1>11, Zenon

--------------------------------------------------------------------------------
(* The steps *)

LEMMA ReadPageIs ==
    ASSUME PageTypes, ReadPage
    PROVE  \E cursor \in Cursors, page \in Pages :
              /\ fetch # Nothing /\ fetch.left > 0
              /\ cursor = IF fetch.got = <<>> THEN Nothing ELSE NextParam(fetch.got)
              /\ page = PageAt(cursor)
              /\ fetch' \in PageFetches /\ fetch'.older = fetch.older
              /\ fetch'.got = Append(fetch.got, page)
              /\ fetch'.left > 0 => NextParam(fetch'.got) # Nothing
<1> DEFINE cursor == IF fetch.got = <<>> THEN Nothing ELSE NextParam(fetch.got)
           got == Append(fetch.got, PageAt(cursor))
           more == fetch.left > 1 /\ NextParam(got) # Nothing
           left == IF more THEN fetch.left - 1 ELSE 0
           read == IF fetch.read = Nothing THEN posted ELSE fetch.read
<1>1. fetch # Nothing /\ fetch \in PageFetches /\ fetch.left > 0  BY DEF ReadPage, PageTypes
<1>2. fetch.got \in Seq(Pages)  BY <1>1 DEF PageFetches
<1>3. cursor \in Cursors  BY <1>2, NextParamType DEF Cursors
<1>4. PageAt(cursor) \in Pages
  <2>1. (IF cursor = Nothing THEN posted ELSE cursor - 1) \in Nat
    BY <1>3 DEF Cursors, PageTypes
  <2> HIDE DEF cursor
  <2> QED BY <1>3, <2>1, PageAtIs
<1>5. got \in Seq(Pages)  BY <1>2, <1>4, AppendProperties
<1>6. left \in Nat /\ (left > 0 => NextParam(got) # Nothing)
  <2>1. fetch.left \in Nat  BY <1>1 DEF PageFetches
  <2> HIDE DEF got
  <2> QED BY <2>1
<1>7. read \in Nat \cup {Nothing}  BY <1>1 DEF PageFetches, PageTypes
<1>8. fetch' = [fetch EXCEPT !.got = got, !.left = left, !.read = read]
  BY DEF ReadPage
<1> HIDE DEF got, left, read, cursor
<1>9. fetch' \in PageFetches  BY <1>1, <1>5, <1>6, <1>7, <1>8 DEF PageFetches
<1>10. fetch'.got = got /\ fetch'.left = left /\ fetch'.older = fetch.older
  BY <1>1, <1>8 DEF PageFetches
<1> QED BY <1>1, <1>3, <1>4, <1>6, <1>9, <1>10 DEF got, cursor

LEMMA RefetchIs ==
    ASSUME PageTypes, Refetch
    PROVE  \/ fetch # Nothing /\ fetch' = fetch
           \/ \E left \in Nat \ {0} :
                 fetch' = [older |-> FALSE, got |-> <<>>, read |-> Nothing, left |-> left]
<1>1. CASE fetch # Nothing  BY <1>1 DEF Refetch
<1>2. CASE fetch = Nothing
  <2>1. (IF pages = Nothing THEN 1 ELSE Len(pages)) \in Nat \ {0}  BY DEF PageTypes
  <2> QED BY <1>2, <2>1 DEF Refetch
<1> QED BY <1>1, <1>2

LEMMA RefetchTypes ==
    ASSUME PageTypes, Refetch, UNCHANGED <<chatKind, posted, unsent, online, channel, pages, muddled>>
    PROVE  PageTypes'
<1>1. CASE fetch # Nothing /\ fetch' = fetch  BY <1>1 DEF PageTypes
<1>2. ASSUME NEW left \in Nat \ {0},
             fetch' = [older |-> FALSE, got |-> <<>>, read |-> Nothing, left |-> left]
      PROVE  PageTypes'
  <2>1. fetch' \in PageFetches  BY <1>2 DEF PageFetches
  <2>2. fetch'.left > 0 /\ ~fetch'.older  BY <1>2
  <2> QED BY <2>1, <2>2 DEF PageTypes
<1> QED BY <1>1, <1>2, RefetchIs

LEMMA ReadPageTypes == ASSUME PageTypes, ReadPage PROVE PageTypes'
<1>1. PICK cursor \in Cursors, page \in Pages :
         /\ fetch # Nothing
         /\ fetch' \in PageFetches /\ fetch'.got = Append(fetch.got, page)
  BY ReadPageIs
<1>2. fetch.got \in Seq(Pages)  BY <1>1 DEF PageTypes, PageFetches
<1>3. fetch'.got # <<>>  BY <1>1, <1>2, AppendProperties
<1>4. UNCHANGED <<chatKind, posted, unsent, online, channel, pages, muddled>>  BY DEF ReadPage
<1> QED BY <1>1, <1>3, <1>4 DEF PageTypes

LEMMA ReceiveMessageTypes == ASSUME PageTypes, EventsPosted, ReceiveMessage PROVE PageTypes'
<1> DEFINE m == Head(channel)
           qs == IF chatKind = "ROOM" THEN RoomPrepend(pages, m) ELSE DmPrepend(pages, m)
<1>1. pages' = qs /\ channel # <<>> /\ channel' = Tail(channel) /\ muddled' = (muddled \/ pages = Nothing)
      /\ UNCHANGED <<chatKind, posted, online, fetch>>
  BY DEF ReceiveMessage
<1>2. m \in Nat \ {0}
  <2>1. m = channel[1] /\ 1 \in 1..Len(channel)  BY <1>1 DEF PageTypes
  <2> QED BY <2>1 DEF EventsPosted, PageTypes
<1> HIDE DEF m
<1>3. qs \in Seq(Pages) /\ qs # <<>>
  <2>1. CASE pages = Nothing
    <3>1. qs = <<[messages |-> <<m>>, next |-> Nothing]>>
      BY <2>1 DEF RoomPrepend, DmPrepend
    <3>2. [messages |-> <<m>>, next |-> Nothing] \in Pages  BY <1>2 DEF Pages, Cursors
    <3>3. \A page \in Pages : <<page>> \in Seq(Pages) /\ <<page>> # <<>>  OBVIOUS
    <3> QED BY <3>1, <3>2, <3>3
  <2>2. CASE pages # Nothing
    <3>1. qs \in Seq(Pages) /\ Len(qs) = Len(pages)  BY <1>2, <2>2, PrependIs
    <3>2. pages \in Seq(Pages) /\ pages # <<>>  BY <2>2 DEF PageTypes
    <3> HIDE DEF qs
    <3> QED BY <3>1, <3>2
  <2> QED BY <2>1, <2>2
<1> HIDE DEF qs
<1>4. channel' \in Seq(Nat)  BY <1>1 DEF PageTypes
<1>5. muddled' \in BOOLEAN  BY <1>1
<1> QED BY <1>1, <1>3, <1>4, <1>5 DEF PageTypes

LEMMA PageTypesStep ==
    ASSUME PageTypes, EventsPosted, [PagesNext]_pagesVars PROVE PageTypes'
<1>1. CASE OpenChat  BY <1>1, RefetchTypes DEF OpenChat
<1>2. CASE CloseChat  BY <1>2 DEF CloseChat, PageTypes
<1>3. CASE FocusWindow  BY <1>3, RefetchTypes DEF FocusWindow
<1>4. CASE LoadOlder
  <2>1. pages # Nothing /\ fetch' = [older |-> TRUE, got |-> pages, read |-> posted, left |-> 1]
        /\ UNCHANGED <<chatKind, posted, unsent, online, channel, pages, muddled>>
    BY <1>4 DEF LoadOlder, HasNextPage
  <2>2. pages \in Seq(Pages) /\ pages # <<>> /\ posted \in Nat  BY <2>1 DEF PageTypes
  <2>3. fetch' \in PageFetches /\ fetch'.got # <<>>  BY <2>1, <2>2 DEF PageFetches
  <2> QED BY <2>1, <2>3 DEF PageTypes
<1>5. CASE ReadPage  BY <1>5, ReadPageTypes
<1>6. CASE ReceivePages
  <2>1. fetch # Nothing /\ fetch.left = 0 /\ pages' = fetch.got /\ fetch' = Nothing
        /\ muddled' \in BOOLEAN /\ UNCHANGED <<chatKind, posted, online, channel>>
    BY <1>6 DEF ReceivePages
  <2>2. fetch.got \in Seq(Pages) /\ fetch.got # <<>>  BY <2>1 DEF PageTypes, PageFetches
  <2> QED BY <2>1, <2>2 DEF PageTypes
<1>7. CASE FetchFails  BY <1>7 DEF FetchFails, PageTypes
<1>8. CASE CollectPages  BY <1>8 DEF CollectPages, PageTypes
<1>9. CASE Post  BY <1>9 DEF Post, PageTypes
<1>14. ASSUME NEW m \in unsent, EmitNew(m) \/ TellFails(m) PROVE PageTypes'
  <2>1. channel' \in Seq(Nat)
    <3>1. m \in Nat  BY DEF EventsPosted
    <3> QED BY <1>14, <3>1 DEF EmitNew, TellFails, PageTypes
  <2>2. muddled' \in BOOLEAN /\ UNCHANGED <<chatKind, posted, online, pages, fetch>>
    BY <1>14 DEF EmitNew, TellFails
  <2> QED BY <2>1, <2>2 DEF PageTypes
<1>10. CASE ReceiveMessage  BY <1>10, ReceiveMessageTypes
<1>11. CASE Disconnect
  <2>1. muddled' \in BOOLEAN /\ channel' = <<>> /\ online' = FALSE
        /\ UNCHANGED <<chatKind, posted, pages, fetch>>
    BY <1>11 DEF Disconnect
  <2>2. channel' \in Seq(Nat)  BY <2>1
  <2> QED BY <2>1, <2>2 DEF PageTypes
<1>12. CASE Reconnect  BY <1>12 DEF Reconnect, PageTypes
<1>13. CASE UNCHANGED pagesVars  BY <1>13 DEF pagesVars, PageTypes
<1> QED BY <1>1, <1>2, <1>3, <1>4, <1>5, <1>6, <1>7, <1>8, <1>9, <1>10, <1>11, <1>12,
           <1>13, <1>14 DEF PagesNext

LEMMA EventsPostedStep ==
    ASSUME PageTypes, EventsPosted, [PagesNext]_pagesVars PROVE EventsPosted'
<1>0. channel \in Seq(Nat) /\ posted \in Nat  BY DEF PageTypes
<1>1. CASE UNCHANGED <<posted, unsent, channel>>  BY <1>1 DEF EventsPosted
<1>2. CASE Post
  <2>1. posted' = posted + 1 /\ unsent' = unsent \cup {posted + 1} /\ channel' = channel
    BY <1>2 DEF Post
  <2>2. 1..posted \subseteq 1..posted'  BY <1>0, <2>1
  <2>3. posted + 1 \in 1..posted'  BY <1>0, <2>1
  <2> QED BY <2>1, <2>2, <2>3 DEF EventsPosted
<1>3. ASSUME NEW m \in unsent, EmitNew(m) PROVE EventsPosted'
  <2>1. /\ posted' = posted /\ unsent' = unsent \ {m} /\ m \in 1..posted
        /\ channel' = IF online THEN Append(channel, m) ELSE channel
    BY <1>3 DEF EmitNew, EventsPosted
  <2> DEFINE more == Append(channel, m)
  <2>2. /\ Len(more) = Len(channel) + 1 /\ more[Len(channel) + 1] = m
        /\ \A i \in 1..Len(channel) : more[i] = channel[i]
    BY <1>0, <2>1, AppendProperties
  <2>3. Len(channel) \in Nat /\ \A i \in 1..Len(channel) : channel[i] \in 1..posted
    BY <1>0 DEF EventsPosted
  <2> HIDE DEF more
  <2>4. \A i \in 1..Len(more) : more[i] \in 1..posted  BY <2>1, <2>2, <2>3
  <2>5. unsent' \in SUBSET (1..posted')  BY <2>1 DEF EventsPosted
  <2>6. \A i \in 1..Len(channel') : channel'[i] \in 1..posted'
    BY <2>1, <2>3, <2>4 DEF more
  <2> QED BY <2>5, <2>6 DEF EventsPosted
<1>4. ASSUME NEW m \in unsent, TellFails(m) PROVE EventsPosted'
  BY <1>4 DEF TellFails, EventsPosted
<1>5. CASE ReceiveMessage
  <2>1. channel # <<>> /\ channel' = Tail(channel) /\ UNCHANGED <<posted, unsent>>
    BY <1>5 DEF ReceiveMessage
  <2>2. Len(channel') = Len(channel) - 1 /\ \A i \in 1..Len(channel') : channel'[i] = channel[i + 1]
    BY <1>0, <2>1
  <2>3. \A i \in 1..Len(channel') : i + 1 \in 1..Len(channel)  BY <1>0, <2>2
  <2> QED BY <2>1, <2>2, <2>3 DEF EventsPosted
<1>6. CASE Disconnect
  <2>1. channel' = <<>> /\ UNCHANGED <<posted, unsent>>  BY <1>6 DEF Disconnect
  <2> QED BY <2>1 DEF EventsPosted
<1> QED BY <1>1, <1>2, <1>3, <1>4, <1>5, <1>6
        DEF PagesNext, pagesVars, OpenChat, CloseChat, FocusWindow, LoadOlder, ReadPage,
            ReceivePages, FetchFails, CollectPages, Reconnect

\* What follows a message that is there is there.
LEMMA FollowEnds ==
    ASSUME PageTypes, EventsPosted, NEW t \in Nat, t <= posted, Follow(t)
    PROVE  t + Len(channel) <= posted
<1>1. posted \in Nat /\ channel \in Seq(Nat)  BY DEF PageTypes
<1>2. CASE channel = <<>>  BY <1>1, <1>2
<1>3. CASE channel # <<>>
  <2>1. Len(channel) \in 1..Len(channel)  BY <1>1, <1>3
  <2> QED BY <1>1, <2>1 DEF Follow, EventsPosted
<1> QED BY <1>2, <1>3

LEMMA PagesPiledBy ==
    ASSUME chatKind' = chatKind, NEW t \in Nat, NEW b \in Nat, t <= posted', Follow(t)',
           Pile(pages', t, b), Ends(pages'[Len(pages')], b)
    PROVE  PagesPiled'
  BY DEF PagesPiled, Ends

LEMMA ReceivePagesPiled ==
    ASSUME PageTypes, FetchPiled, ReceivePages
    PROVE  PagesPiled'
<1> SUFFICES ASSUME ~muddled' PROVE PagesPiled'  BY DEF PagesPiled
<1>1. /\ fetch # Nothing /\ fetch.left = 0 /\ pages' = fetch.got
      /\ ~(fetch.older /\ muddled) /\ ~Muddles(Shown(fetch.got))
      /\ UNCHANGED <<chatKind, posted, unsent, online, channel>>
  BY DEF ReceivePages
<1>2. PICK got \in Seq(Pages) : got = fetch.got /\ got # <<>>
  BY <1>1 DEF PageTypes, PageFetches
<1>3. PICK t \in Nat, b \in Nat : t <= posted /\ Pile(got, t, b) /\ Ends(got[Len(got)], b)
  BY <1>1, <1>2 DEF FetchPiled
<1>4. (IF Shown(got) = <<>> THEN 0 ELSE Head(Shown(got))) = t
  BY <1>2, <1>3, PileTop
<1>5. Follow(t)  BY <1>1, <1>2, <1>4 DEF Muddles
<1>6. Follow(t)'  BY <1>1, <1>5 DEF Follow
<1> QED BY <1>1, <1>2, <1>3, <1>6, PagesPiledBy

LEMMA ReceiveMessagePiled ==
    ASSUME PageTypes, EventsPosted, PagesPiled, ReceiveMessage PROVE PagesPiled'
<1> DEFINE m == Head(channel)
           qs == IF chatKind = "ROOM" THEN RoomPrepend(pages, m) ELSE DmPrepend(pages, m)
<1>1. /\ pages' = qs /\ channel # <<>> /\ channel' = Tail(channel)
      /\ muddled' = (muddled \/ pages = Nothing)
      /\ UNCHANGED <<chatKind, posted, unsent, online, fetch>>
  BY DEF ReceiveMessage
<1> SUFFICES ASSUME ~muddled, pages # Nothing PROVE PagesPiled'  BY <1>1 DEF PagesPiled
<1>2. PICK t \in Nat, b \in Nat : /\ t <= posted /\ Follow(t)
                                  /\ Pile(pages, t, b) /\ Ends(pages[Len(pages)], b)
  BY DEF PagesPiled
<1>3. posted \in Nat /\ channel \in Seq(Nat)  BY DEF PageTypes
<1>4. /\ m = t + 1 /\ t + 1 <= posted' /\ Follow(t + 1)'
  <2>1. m = channel[1] /\ 1 \in 1..Len(channel)  BY <1>1, <1>3
  <2>2. channel[1] = t + 1  BY <1>2, <2>1 DEF Follow
  <2>3. t + Len(channel) <= posted  BY <1>2, FollowEnds
  <2>4. /\ Len(channel') = Len(channel) - 1
        /\ \A i \in 1..Len(channel') : channel'[i] = channel[i + 1] /\ i + 1 \in 1..Len(channel)
    BY <1>1, <1>3
  <2>5. \A i \in 1..Len(channel') : channel'[i] = t + 1 + i
    <3>1. \A i \in 1..Len(channel) : channel[i] = t + i  BY <1>2 DEF Follow
    <3> QED BY <1>3, <2>4, <3>1
  <2>6. unsent' = (t + 1 + Len(channel') + 1)..posted'
    <3>1. unsent = (t + Len(channel) + 1)..posted  BY <1>2 DEF Follow
    <3>2. t + 1 + Len(channel') + 1 = t + Len(channel) + 1  BY <1>3, <2>4
    <3> QED BY <1>1, <3>1, <3>2
  <2>7. t + 1 <= posted'  BY <1>1, <1>3, <2>1, <2>3
  <2> QED BY <2>1, <2>2, <2>5, <2>6, <2>7 DEF Follow
<1> HIDE DEF m
<1>5. /\ qs \in Seq(Pages) /\ Len(qs) = Len(pages)
      /\ \A j \in 2..Len(pages) : qs[j] = pages[j]
      /\ qs[1].messages = <<m>> \o pages[1].messages /\ qs[1].next = pages[1].next
  <2>1. m \in Nat \ {0}  BY <1>4
  <2>2. qs = IF chatKind = "ROOM" THEN RoomPrepend(pages, m) ELSE DmPrepend(pages, m)
    OBVIOUS
  <2> HIDE DEF qs
  <2> QED BY <2>1, <2>2, PrependIs
<1> HIDE DEF qs
<1>6. pages \in Seq(Pages) /\ pages # <<>>  BY DEF PageTypes
<1>7. Pile(qs, t + 1, b)  BY <1>2, <1>4, <1>5, <1>6, PilePrepend
<1>8. Ends(qs[Len(qs)], b)
  <2>1. PICK n \in Nat \ {0} : n = Len(pages)  BY <1>6
  <2>2. CASE n = 1
    <3>1. pages[1] \in Pages  BY <1>6, <2>1, <2>2, ElementOfSeq
    <3>2. PICK rows \in Seq(Nat \ {0}) : rows = pages[1].messages  BY <3>1 DEF Pages
    <3>3. <<m>> \in Seq(Nat) /\ rows \in Seq(Nat)  BY <1>4
    <3>4. Len(<<m>> \o rows) = Len(rows) + 1 /\ Len(rows) \in Nat
      BY <3>3, ConcatProperties
    <3>5. /\ Len(qs[1].messages) = Len(rows) + 1 /\ qs[1].messages # <<>>
          /\ qs[1].next = pages[1].next
      BY <1>5, <3>2, <3>4
    <3>6. /\ chatKind = "ROOM" => \/ pages[1].next = Nothing /\ b = 0
                                  \/ pages[1].next = b + 1
          /\ chatKind = "DM" => (Len(rows) < PageSize => b = 0)
      BY <1>2, <2>1, <2>2, <3>2 DEF Ends
    <3>7. chatKind = "DM" => (Len(rows) + 1 < PageSize => b = 0)
      BY <3>4, <3>6, BoundAssumption
    <3> QED BY <1>5, <2>1, <2>2, <3>5, <3>6, <3>7 DEF Ends
  <2>3. CASE n # 1
    <3>1. n \in 2..Len(pages)  BY <2>1, <2>3
    <3> QED BY <1>2, <1>5, <2>1, <3>1
  <2> QED BY <2>2, <2>3
<1>9. t + 1 \in Nat  OBVIOUS
<1> QED BY <1>1, <1>4, <1>7, <1>8, <1>9, PagesPiledBy

\* Only the event of the oldest message untold of leaves the pages in order.
LEMMA EmitNewPiled ==
    ASSUME PageTypes, EventsPosted, PagesPiled, NEW m \in unsent, EmitNew(m)
    PROVE  PagesPiled'
<1>1. /\ unsent' = unsent \ {m} /\ UNCHANGED <<chatKind, posted, pages>>
      /\ channel' = IF online THEN Append(channel, m) ELSE channel
      /\ muddled' = (muddled \/ (pages # Nothing /\ (~online \/ \E n \in unsent : n < m)))
  BY DEF EmitNew
<1> SUFFICES ASSUME pages # Nothing, ~muddled, online, \A n \in unsent : ~(n < m)
             PROVE  PagesPiled'
  BY <1>1 DEF PagesPiled
<1>2. PICK t \in Nat, b \in Nat : /\ t <= posted /\ Follow(t)
                                  /\ Pile(pages, t, b) /\ Ends(pages[Len(pages)], b)
  BY DEF PagesPiled
<1>3. PICK n \in Nat : n = Len(channel)  BY DEF PageTypes
<1>4. channel \in Seq(Nat) /\ posted \in Nat  BY DEF PageTypes
<1>5. unsent = (t + n + 1)..posted  BY <1>2, <1>3 DEF Follow
<1>6. m = t + n + 1 /\ m \in Nat
  <2>1. m \in Int /\ t + n + 1 <= m /\ m <= posted  BY <1>4, <1>5
  <2>2. t + n + 1 \in unsent  BY <1>4, <1>5, <2>1
  <2>3. ~(t + n + 1 < m)  BY <2>2
  <2> QED BY <2>1, <2>3
<1>7. channel' = Append(channel, m)  BY <1>1
<1>8. Len(channel') = n + 1 /\ \A i \in 1..(n + 1) : channel'[i] = t + i
  <2>1. Len(channel') = n + 1 /\ channel'[n + 1] = m /\ \A i \in 1..n : channel'[i] = channel[i]
    BY <1>3, <1>4, <1>6, <1>7, AppendProperties
  <2>2. \A i \in 1..n : channel[i] = t + i  BY <1>2, <1>3 DEF Follow
  <2>3. \A i \in 1..(n + 1) : i = n + 1 \/ i \in 1..n  OBVIOUS
  <2> QED BY <1>6, <2>1, <2>2, <2>3
<1>9. unsent' = (t + (n + 1) + 1)..posted'
  <2>1. unsent' = ((t + n + 1)..posted) \ {t + n + 1}  BY <1>1, <1>5, <1>6
  <2>2. ((t + n + 1)..posted) \ {t + n + 1} = (t + (n + 1) + 1)..posted  BY <1>4
  <2> QED BY <1>1, <2>1, <2>2
<1>10. Follow(t)'  BY <1>8, <1>9 DEF Follow
<1> QED BY <1>1, <1>2, <1>10, PagesPiledBy

LEMMA PagesPiledStep ==
    ASSUME PageTypes, EventsPosted, PagesPiled, FetchPiled, [PagesNext]_pagesVars
    PROVE  PagesPiled'
<1>1. CASE UNCHANGED <<chatKind, posted, unsent, channel, pages, muddled>>
  BY <1>1 DEF PagesPiled, Ends, Follow
<1>2. CASE ReceivePages  BY <1>2, ReceivePagesPiled
<1>3. CASE CollectPages  BY <1>3 DEF CollectPages, PagesPiled
<1>4. CASE Post
  <2>1. /\ posted' = posted + 1 /\ unsent' = unsent \cup {posted + 1}
        /\ UNCHANGED <<chatKind, channel, pages, muddled>>
    BY <1>4 DEF Post
  <2> SUFFICES ASSUME pages # Nothing, ~muddled PROVE PagesPiled'  BY <2>1 DEF PagesPiled
  <2>2. PICK t \in Nat, b \in Nat : /\ t <= posted /\ Follow(t)
                                    /\ Pile(pages, t, b) /\ Ends(pages[Len(pages)], b)
    BY DEF PagesPiled
  <2>3. posted \in Nat /\ t + Len(channel) <= posted /\ Len(channel) \in Nat
    BY <2>2, FollowEnds DEF PageTypes
  <2>4. Follow(t)'
    <3>1. unsent = (t + Len(channel) + 1)..posted /\ \A i \in 1..Len(channel) : channel[i] = t + i
      BY <2>2 DEF Follow
    <3>2. unsent' = (t + Len(channel) + 1)..(posted + 1)  BY <2>1, <2>3, <3>1
    <3> QED BY <2>1, <3>1, <3>2 DEF Follow
  <2>5. t <= posted'  BY <2>1, <2>2, <2>3
  <2> QED BY <2>1, <2>2, <2>4, <2>5, PagesPiledBy
<1>5. CASE ReceiveMessage  BY <1>5, ReceiveMessagePiled
<1>6. CASE Disconnect
  <2>1. /\ channel' = <<>> /\ UNCHANGED <<chatKind, posted, unsent, pages>>
        /\ muddled' <=> (muddled \/ (pages # Nothing /\ channel # <<>>))
    BY <1>6 DEF Disconnect
  <2>2. CASE channel = <<>>  BY <2>1, <2>2 DEF PagesPiled, Ends, Follow
  <2>3. CASE channel # <<>>  BY <2>1, <2>3 DEF PagesPiled
  <2> QED BY <2>2, <2>3
<1>7. ASSUME NEW m \in unsent, EmitNew(m) PROVE PagesPiled'  BY <1>7, EmitNewPiled
<1>8. ASSUME NEW m \in unsent, TellFails(m) PROVE PagesPiled'
  BY <1>8 DEF TellFails, PagesPiled
<1> QED BY <1>1, <1>2, <1>3, <1>4, <1>5, <1>6, <1>7, <1>8
        DEF PagesNext, pagesVars, OpenChat, CloseChat, FocusWindow, LoadOlder, ReadPage,
            FetchFails, Reconnect

LEMMA FetchPiledKept ==
    ASSUME PageTypes, FetchPiled, fetch' = fetch, chatKind' = chatKind, posted' \in Nat,
           posted <= posted', muddled => muddled'
    PROVE  FetchPiled'
<1> SUFFICES ASSUME fetch # Nothing, fetch.got # <<>>
             PROVE  /\ fetch.left > 0 => NextParam(fetch.got)' # Nothing
                    /\ (fetch.older => ~muddled') =>
                          \E t, b \in Nat : t <= posted' /\ Pile(fetch.got, t, b)
                                             /\ Ends(fetch.got[Len(fetch.got)], b)'
  BY DEF FetchPiled
<1>1. NextParam(fetch.got)' = NextParam(fetch.got)
  BY DEF NextParam, RoomNextParam, DmNextParam, Last
<1>2. ASSUME fetch.older => ~muddled'
      PROVE  \E t, b \in Nat : t <= posted' /\ Pile(fetch.got, t, b)
                               /\ Ends(fetch.got[Len(fetch.got)], b)'
  <2>1. PICK t \in Nat, b \in Nat : t <= posted /\ Pile(fetch.got, t, b)
                                     /\ Ends(fetch.got[Len(fetch.got)], b)
    BY <1>2 DEF FetchPiled
  <2>2. t <= posted'  BY <2>1 DEF PageTypes
  <2>3. Ends(fetch.got[Len(fetch.got)], b)'  BY <2>1 DEF Ends
  <2> QED BY <2>1, <2>2, <2>3
<1> QED BY <1>1, <1>2 DEF FetchPiled

LEMMA RefetchPiled ==
    ASSUME PageTypes, FetchPiled, Refetch, UNCHANGED <<chatKind, posted, muddled>>
    PROVE  FetchPiled'
<1>1. CASE fetch' = fetch  BY <1>1, FetchPiledKept DEF PageTypes
<1>2. CASE fetch'.got = <<>>  BY <1>2 DEF FetchPiled
<1> QED BY <1>1, <1>2, RefetchIs

LEMMA LoadOlderPiled ==
    ASSUME PageTypes, PagesPiled, LoadOlder PROVE FetchPiled'
<1>1. /\ pages # Nothing /\ NextParam(pages) # Nothing
      /\ fetch' = [older |-> TRUE, got |-> pages, read |-> posted, left |-> 1]
      /\ UNCHANGED <<chatKind, posted, muddled>>
  BY DEF LoadOlder, HasNextPage
<1>2. fetch'.got = pages /\ fetch'.older /\ fetch'.left > 0  BY <1>1
<1>3. NextParam(fetch.got)' # Nothing
  BY <1>1, <1>2 DEF NextParam, RoomNextParam, DmNextParam, Last
<1>4. ASSUME ~muddled'
      PROVE  \E t, b \in Nat : t <= posted' /\ Pile(fetch'.got, t, b)
                               /\ Ends(fetch.got[Len(fetch.got)], b)'
  <2>1. PICK t \in Nat, b \in Nat : t <= posted /\ Pile(pages, t, b) /\ Ends(pages[Len(pages)], b)
    BY <1>1, <1>4 DEF PagesPiled
  <2>2. Ends(fetch.got[Len(fetch.got)], b)'  BY <1>1, <1>2, <2>1 DEF Ends
  <2> QED BY <1>1, <1>2, <2>1, <2>2
<1> QED BY <1>2, <1>3, <1>4 DEF FetchPiled

LEMMA ReadPagePiled ==
    ASSUME PageTypes, FetchPiled, ReadPage PROVE FetchPiled'
<1>1. PICK cursor \in Cursors, page \in Pages :
         /\ fetch # Nothing /\ fetch.left > 0
         /\ cursor = IF fetch.got = <<>> THEN Nothing ELSE NextParam(fetch.got)
         /\ page = PageAt(cursor)
         /\ fetch' \in PageFetches /\ fetch'.older = fetch.older
         /\ fetch'.got = Append(fetch.got, page)
         /\ fetch'.left > 0 => NextParam(fetch'.got) # Nothing
  BY ReadPageIs
<1>2. UNCHANGED <<chatKind, posted, muddled>>  BY DEF ReadPage
<1>3. PICK got \in Seq(Pages) : got = fetch.got  BY <1>1 DEF PageTypes, PageFetches
<1>4. PICK more \in Seq(Pages) : more = Append(got, page) /\ more[Len(more)] = page /\ more # <<>>
  <2> DEFINE qs == Append(got, page)
  <2>1. qs \in Seq(Pages) /\ Len(qs) = Len(got) + 1 /\ qs[Len(got) + 1] = page /\ qs # <<>>
    BY AppendProperties
  <2> QED BY <2>1
<1>5. fetch'.got = more  BY <1>1, <1>3, <1>4
<1>6. fetch'.left > 0 => NextParam(fetch.got)' # Nothing
  <2>1. NextParam(fetch.got)' = NextParam(fetch'.got)
    BY <1>2 DEF NextParam, RoomNextParam, DmNextParam, Last
  <2> QED BY <1>1, <2>1
<1>7. ASSUME fetch'.older => ~muddled'
      PROVE  \E t, b \in Nat : t <= posted /\ Pile(more, t, b) /\ Ends(page, b)
  <2>1. CASE got = <<>>
    <3>1. cursor = Nothing  BY <1>1, <1>3, <2>1
    <3>2. posted \in Nat  BY DEF PageTypes
    <3>3. PICK b \in Nat : /\ posted = b + Len(page.messages)
                           /\ \A i \in 1..Len(page.messages) :
                                 page.messages[i] = posted - i + 1
                           /\ Ends(page, b)
      BY <1>1, <3>1, <3>2, PageAtIs
    <3>4. more = <<page>>  BY <1>4, <2>1
    <3>5. Pile(<<page>>, posted, b)  BY <3>2, <3>3, PileOne
    <3> QED BY <3>2, <3>3, <3>4, <3>5
  <2>2. CASE got # <<>>
    <3>1. fetch.older => ~muddled  BY <1>1, <1>2, <1>7
    <3>2. NextParam(got) # Nothing /\ cursor = NextParam(got)
      BY <1>1, <1>3, <2>2 DEF FetchPiled
    <3>3. PICK t \in Nat, b \in Nat : t <= posted /\ Pile(got, t, b) /\ Ends(got[Len(got)], b)
      BY <1>1, <1>3, <2>2, <3>1 DEF FetchPiled
    <3>4. cursor = b + 1  BY <2>2, <3>2, <3>3, NextParamIs
    <3>5. b = IF cursor = Nothing THEN posted ELSE cursor - 1  BY <3>2, <3>4
    <3>6. PICK c \in Nat : /\ b = c + Len(page.messages)
                           /\ \A i \in 1..Len(page.messages) : page.messages[i] = b - i + 1
                           /\ Ends(page, c)
      BY <1>1, <3>5, PageAtIs
    <3>7. Pile(more, t, c)  BY <1>4, <2>2, <3>3, <3>6, PileAppend
    <3> QED BY <3>3, <3>6, <3>7
  <2> QED BY <2>1, <2>2
<1>8. ASSUME fetch'.older => ~muddled'
      PROVE  \E t, b \in Nat : t <= posted' /\ Pile(fetch'.got, t, b)
                               /\ Ends(fetch.got[Len(fetch.got)], b)'
  <2>1. PICK t \in Nat, b \in Nat : t <= posted /\ Pile(more, t, b) /\ Ends(page, b)
    BY <1>7, <1>8
  <2>2. Ends(fetch.got[Len(fetch.got)], b)'
    BY <1>2, <1>4, <1>5, <2>1 DEF Ends
  <2> QED BY <1>2, <1>5, <2>1, <2>2
<1> QED BY <1>6, <1>8 DEF FetchPiled

LEMMA FetchPiledStep ==
    ASSUME PageTypes, PagesPiled, FetchPiled, [PagesNext]_pagesVars PROVE FetchPiled'
<1>0. posted \in Nat  BY DEF PageTypes
<1>1. CASE UNCHANGED <<fetch, chatKind, posted, muddled>>  BY <1>0, <1>1, FetchPiledKept
<1>2. CASE OpenChat  BY <1>2, RefetchPiled DEF OpenChat
<1>3. CASE FocusWindow  BY <1>3, RefetchPiled DEF FocusWindow
<1>4. CASE LoadOlder  BY <1>4, LoadOlderPiled
<1>5. CASE ReadPage  BY <1>5, ReadPagePiled
<1>6. CASE Post
  <2>1. fetch' = fetch /\ chatKind' = chatKind /\ posted' = posted + 1
        /\ (muddled => muddled')
    BY <1>6 DEF Post
  <2> QED BY <1>0, <2>1, FetchPiledKept
<1>7. CASE ReceiveMessage
  <2>1. UNCHANGED <<fetch, chatKind, posted>> /\ (muddled => muddled')
    BY <1>7 DEF ReceiveMessage
  <2> QED BY <1>0, <2>1, FetchPiledKept
<1>8. CASE Disconnect
  <2>1. UNCHANGED <<fetch, chatKind, posted>> /\ (muddled => muddled')
    BY <1>8 DEF Disconnect
  <2> QED BY <1>0, <2>1, FetchPiledKept
<1>9. CASE fetch' = Nothing  BY <1>9 DEF FetchPiled
<1>10. ASSUME NEW m \in unsent, EmitNew(m) \/ TellFails(m) PROVE FetchPiled'
  <2>1. UNCHANGED <<fetch, chatKind, posted>> /\ (muddled => muddled')
    BY <1>10 DEF EmitNew, TellFails
  <2> QED BY <1>0, <2>1, FetchPiledKept
<1> QED BY <1>1, <1>2, <1>3, <1>4, <1>5, <1>6, <1>7, <1>8, <1>9, <1>10
        DEF PagesNext, pagesVars, CloseChat, ReceivePages, FetchFails, CollectPages,
            Reconnect

--------------------------------------------------------------------------------
(* The theorems about the pages *)

LEMMA PageInductiveInv == PagesSpec => []PageInv
<1>1. PagesInit => PageInv
  <2> SUFFICES ASSUME PagesInit PROVE PageInv  OBVIOUS
  <2>1. /\ chatKind \in {"ROOM", "DM"} /\ posted = 0 /\ unsent = {} /\ channel = <<>>
        /\ pages = Nothing /\ fetch = Nothing
    BY DEF PagesInit
  <2>2. muddled \in BOOLEAN /\ online \in BOOLEAN  BY DEF PagesInit
  <2>3. channel \in Seq(Nat)  BY <2>1
  <2>4. PageTypes  BY <2>1, <2>2, <2>3 DEF PageTypes
  <2>5. EventsPosted  BY <2>1 DEF EventsPosted
  <2> QED BY <2>1, <2>4, <2>5 DEF PageInv, PagesPiled, FetchPiled
<1>2. PageInv /\ [PagesNext]_pagesVars => PageInv'
  BY PageTypesStep, EventsPostedStep, PagesPiledStep, FetchPiledStep DEF PageInv
<1> QED BY <1>1, <1>2, PTL DEF PagesSpec

\* Once the events to come are in, the pages show the newest messages, each
\* once, in order and without a gap, unless a race of an event with a response
\* or with another event, or an event that was lost, came before; for any number
\* of messages, pages of any size and any fetches of them.
THEOREM OnlyRacesMuddleListAlways == PagesSpec => []OnlyRacesMuddleList
<1>1. PageInv => OnlyRacesMuddleList
  <2> DEFINE shown == Shown(pages)
             coming == Reverse(channel)
             all == coming \o shown
  <2> SUFFICES ASSUME PageInv, pages # Nothing, ~muddled
               PROVE  \E newest \in 0..posted :
                         /\ unsent = newest + 1..posted
                         /\ \A i \in 1..Len(all) : all[i] = newest - i + 1
    BY DEF OnlyRacesMuddleList
  <2>1. PICK t \in Nat, b \in Nat : t <= posted /\ Follow(t) /\ Pile(pages, t, b)
    BY DEF PageInv, PagesPiled
  <2>2. PICK n \in Nat : n = Len(channel)  BY DEF PageInv, PageTypes
  <2>3. posted \in Nat /\ channel \in Seq(Nat) /\ t + n <= posted
    BY <2>1, <2>2, FollowEnds DEF PageInv, PageTypes
  <2>4. pages \in Seq(Pages) /\ pages # <<>>  BY DEF PageInv, PageTypes
  <2>5. b <= t /\ shown = Down(t, b)  BY <2>1, <2>4, PileShown
  <2>6. shown \in Seq(Nat) /\ Len(shown) = t - b /\ \A k \in 1..(t - b) : shown[k] = t - k + 1
    <3> HIDE DEF shown
    <3>1. Down(t, b) \in Seq(Nat) /\ Len(Down(t, b)) = t - b
          /\ \A k \in 1..(t - b) : Down(t, b)[k] = t - k + 1
      BY <2>5, DownIs
    <3> QED BY <2>5, <3>1
  <2>7. coming \in Seq(Nat) /\ Len(coming) = n /\ \A k \in 1..n : coming[k] = channel[n - k + 1]
    BY <2>2, <2>3 DEF Reverse
  <2>8. unsent = (t + n) + 1..posted /\ \A i \in 1..n : channel[i] = t + i
    BY <2>1, <2>2 DEF Follow
  <2> HIDE DEF shown, coming
  <2>9. ASSUME NEW i \in 1..Len(all) PROVE all[i] = (t + n) - i + 1
    <3>1. Len(all) = n + (t - b) /\ all[i] = IF i <= n THEN coming[i] ELSE shown[i - n]
      <4>1. /\ Len(all) = Len(coming) + Len(shown)
            /\ \A k \in 1..(Len(coming) + Len(shown)) :
                  all[k] = IF k <= Len(coming) THEN coming[k] ELSE shown[k - Len(coming)]
        BY <2>6, <2>7, ConcatProperties
      <4>2. i \in 1..(Len(coming) + Len(shown))  BY <4>1
      <4> QED BY <2>6, <2>7, <4>1, <4>2
    <3>2. CASE i <= n
      <4>1. i \in 1..n /\ n - i + 1 \in 1..n  BY <3>2
      <4>2. channel[n - i + 1] = t + (n - i + 1)  BY <2>8, <4>1
      <4> QED BY <2>7, <3>1, <3>2, <4>1, <4>2
    <3>3. CASE ~(i <= n)
      <4>1. i - n \in 1..(t - b)  BY <2>5, <3>1, <3>3
      <4>2. shown[i - n] = t - (i - n) + 1  BY <2>6, <4>1
      <4> QED BY <3>1, <3>3, <4>2
    <3> QED BY <3>2, <3>3
  <2>10. t + n \in 0..posted  BY <2>3
  <2> QED BY <2>8, <2>9, <2>10
<1> QED BY <1>1, PageInductiveInv, PTL

\* The pages go back to the first message or offer to load older ones, also
\* when events have made the only page of a DM longer than the server's.
THEOREM OlderReachableAlways == PagesSpec => []OlderReachable
<1>1. PageInv => OlderReachable
  <2> SUFFICES ASSUME PageInv, pages # Nothing, ~muddled, ~HasNextPage
               PROVE  Cardinality(unsent) + Len(channel) + Len(Shown(pages)) = posted
    BY DEF OlderReachable
  <2>1. PICK t \in Nat, b \in Nat : /\ t <= posted /\ Follow(t)
                                    /\ Pile(pages, t, b) /\ Ends(pages[Len(pages)], b)
    BY DEF PageInv, PagesPiled
  <2>2. PICK n \in Nat : n = Len(channel)  BY DEF PageInv, PageTypes
  <2>3. posted \in Nat /\ t + n <= posted
    BY <2>1, <2>2, FollowEnds DEF PageInv, PageTypes
  <2>4. pages \in Seq(Pages) /\ pages # <<>>  BY DEF PageInv, PageTypes
  <2>5. b <= t /\ Shown(pages) = Down(t, b)  BY <2>1, <2>4, PileShown
  <2>6. Len(Shown(pages)) = t - b  BY <2>5, DownIs
  <2>7. b = 0  BY <2>1, <2>4, NextParamIs DEF HasNextPage, PageInv
  <2>8. Cardinality(unsent) = posted - (t + n)
    <3>1. unsent = (t + n + 1)..posted  BY <2>1, <2>2 DEF Follow
    <3>2. t + n + 1 \in Int /\ posted \in Int  BY <2>3
    <3>3. Cardinality((t + n + 1)..posted) =
             IF t + n + 1 > posted THEN 0 ELSE posted - (t + n + 1) + 1
      BY <3>2, FS_Interval
    <3> QED BY <2>3, <3>1, <3>3
  <2> QED BY <2>2, <2>3, <2>6, <2>7, <2>8
<1> QED BY <1>1, PageInductiveInv, PTL

================================================================================
