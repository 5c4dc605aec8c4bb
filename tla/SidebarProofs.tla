------------------------------ MODULE SidebarProofs -----------------------------
(***************************************************************************)
(* What the sidebar shows of a chat (ChatList), for any number of messages *)
(* and fetches: its unread count and preview; and of a friend (Presence),  *)
(* for any number of tabs, heartbeats, removals and sweeps: a status that  *)
(* some sweep can still take back.                                         *)
(*                                                                         *)
(* A count is a number, of nobody knows which messages, so the proof keeps *)
(* a set beside each one: Hidden, what the count of the list owes the      *)
(* user, and Countable, what the count of a response on its way still      *)
(* covers.  Both sets only shrink between the steps that write the number. *)
(*                                                                         *)
(* A status is set by a job that counted the tabs some commands before.    *)
(* Redis answers in order, so a job that counted a tab sets its status     *)
(* before one that counts after the tab went: the proof gives each job     *)
(* the number of commands it has still to go, its Turn, and has every      *)
(* stale job, one that counted a tab which is gone, Covered by a job that  *)
(* takes the user offline after it.                                        *)
(***************************************************************************)
EXTENDS ChatList, Presence, Integers, FiniteSetTheorems, SequenceTheorems, WellFoundedInduction, TLAPS

Marks == Nat \cup {None}

Types ==
    /\ kind \in {"ROOM", "DM"}
    /\ posted \in Seq(BOOLEAN)
    /\ deleted \subseteq DOMAIN posted /\ (kind = "DM" => deleted = {})
    /\ lastRead \in Marks
    /\ channel \in Seq(Nat) /\ Coming \subseteq DOMAIN posted
    /\ active \in {"this", "other", None}
    /\ list \in [unread : Nat, last : Marks] \cup {None}
    /\ fetch \in [step : {"asked", "rows", "counted"}, mark : Marks, last : Marks,
                  counted : Nat, unread : Nat] \cup {None}
    /\ asked \in Nat /\ answered \in Nat
    /\ waiting \subseteq {m \in DOMAIN posted : ~posted[m]}

\* Messages of others that have come, were not shown and are not excused.
Hidden == (waiting \ deleted) \ (excused \cup Coming)

\* Messages of others the count of a response is of, but for a room that was
\* never opened.
Countable ==
    {m \in 1..fetch.counted : /\ ~posted[m] /\ m \notin deleted
                              /\ fetch.mark = None \/ m > fetch.mark}

Counted ==
    fetch # None /\ fetch.step = "counted" =>
        /\ fetch.counted <= Len(posted)
        /\ kind = "DM" \/ fetch.mark # None => Cardinality(Countable) <= fetch.unread

\* Only threads have a preview, of a message there is.
Preview == IF kind = "ROOM" THEN {None} ELSE {None} \cup 1..Len(posted)
Previews ==
    /\ fetch # None => fetch.last \in Preview
    /\ list # None => list.last \in Preview

\* The later messages are still to come.
PreviewFresh == list # None /\ kind = "DM" /\ ~outdated => ToldAfter(list.last) = {}

IInv == Types /\ OnlyRacesHideUnread /\ Counted /\ Previews /\ PreviewFresh

--------------------------------------------------------------------------------
(* Facts about sets and sequences *)

LEMMA SubsetAtMost ==
    ASSUME NEW S, NEW T, IsFiniteSet(S), T \subseteq S, NEW n \in Nat, Cardinality(S) <= n
    PROVE  IsFiniteSet(T) /\ Cardinality(T) <= n
  BY FS_Subset, FS_CardinalityType

LEMMA OneMoreAtMost ==
    ASSUME NEW S, NEW T, NEW m, IsFiniteSet(S), T \subseteq S \cup {m}, NEW n \in Nat, Cardinality(S) <= n
    PROVE  Cardinality(T) <= n + 1
<1>1. /\ IsFiniteSet(S \cup {m}) /\ Cardinality(S) \in Nat
      /\ Cardinality(S \cup {m}) = IF m \in S THEN Cardinality(S) ELSE Cardinality(S) + 1
  BY FS_AddElement, FS_CardinalityType
<1>2. Cardinality(S \cup {m}) <= n + 1
  BY <1>1
<1> QED BY <1>1, <1>2, SubsetAtMost

LEMMA FiniteMessages == ASSUME NEW n \in Nat, NEW S, S \subseteq 1..n PROVE IsFiniteSet(S)
<1>1. IsFiniteSet(1..n)  BY FS_Interval
<1> QED BY <1>1, FS_Subset

LEMMA NothingHidden == Cardinality({}) = 0
  BY FS_EmptySet

\* The events to come, before and after one leaves or arrives.
LEMMA ComingEmitted ==
    ASSUME channel \in Seq(Nat), NEW m \in unsent, m \in Nat, EmitNew(m)
    PROVE  Coming' = Coming /\ channel' \in Seq(Nat)
<1>1. channel' = Append(channel, m) /\ unsent' = unsent \ {m}  BY DEF EmitNew
<1>2. /\ channel' \in Seq(Nat) /\ Len(channel') = Len(channel) + 1 /\ Len(channel) \in Nat
      /\ channel'[Len(channel) + 1] = m /\ \A i \in 1..Len(channel) : channel'[i] = channel[i]
  BY <1>1, AppendProperties
<1>3. InChannel = {channel[i] : i \in 1..Len(channel)}  BY DEF InChannel, ToSet
<1>4. InChannel' = {channel'[i] : i \in 1..Len(channel')}  BY <1>2 DEF InChannel, ToSet
<1>5. 1..Len(channel') = 1..Len(channel) \cup {Len(channel) + 1}
  <2>1. \A n \in Nat : 1..(n + 1) = 1..n \cup {n + 1}  OBVIOUS
  <2>2. Len(channel) \in Nat /\ Len(channel') = Len(channel) + 1  BY <1>2
  <2> QED BY <2>1, <2>2
<1>6. InChannel' = InChannel \cup {m}
  <2> DEFINE n == Len(channel)
  <2>1. InChannel' = {channel'[i] : i \in 1..n \cup {n + 1}}  BY <1>4, <1>5
  <2> HIDE DEF n
  <2>2. \A i \in 1..n : channel'[i] = channel[i]  BY <1>2 DEF n
  <2>3. channel'[n + 1] = m /\ InChannel = {channel[i] : i \in 1..n}  BY <1>2, <1>3 DEF n
  <2> QED BY <2>1, <2>2, <2>3
<1> QED BY <1>1, <1>2, <1>6 DEF Coming

LEMMA ComingReceived ==
    ASSUME channel \in Seq(Nat), channel # <<>>, channel' = Tail(channel), unsent' = unsent
    PROVE  /\ Coming \subseteq Coming' \cup {Head(channel)} /\ Coming' \subseteq Coming
           /\ Head(channel) \in Coming
<1>1. ASSUME NEW i \in DOMAIN channel PROVE channel[i] \in InChannel' \cup {Head(channel)}
  <2>1. CASE i = 1  BY <2>1
  <2>2. CASE i # 1
    <3>1. i - 1 \in DOMAIN channel' /\ channel'[i - 1] = channel[i]  BY <2>2
    <3> QED BY <3>1 DEF InChannel, ToSet
  <2> QED BY <2>1, <2>2
<1>2. ASSUME NEW i \in DOMAIN channel' PROVE channel'[i] \in InChannel
  <2>1. i + 1 \in DOMAIN channel /\ channel'[i] = channel[i + 1]  OBVIOUS
  <2> QED BY <2>1 DEF InChannel, ToSet
<1>3. 1 \in DOMAIN channel /\ Head(channel) = channel[1]  OBVIOUS
<1> QED BY <1>1, <1>2, <1>3 DEF Coming, InChannel, ToSet

LEMMA NoEvents == ASSUME channel' = <<>> PROVE InChannel' = {}
<1>1. ToSet(<<>>) = {}
  <2>1. \A i : i \notin DOMAIN <<>>  OBVIOUS
  <2> QED BY <2>1 DEF ToSet
<1> QED BY <1>1 DEF InChannel

LEMMA FiniteHidden == Types => IsFiniteSet(Hidden)
<1>1. Types => Len(posted) \in Nat /\ Hidden \subseteq 1..Len(posted)
  BY DEF Types, Hidden
<1> QED BY <1>1, FiniteMessages

LEMMA InitInv == Init => IInv
<1> SUFFICES ASSUME Init PROVE IInv  OBVIOUS
<1>1. Types
  <2>1. Coming = {}  BY DEF Init, Coming, InChannel, ToSet
  <2> QED BY <2>1 DEF Init, Types, Marks
<1>2. list = None /\ fetch = None  BY DEF Init
<1> QED BY <1>1, <1>2 DEF IInv, OnlyRacesHideUnread, Counted, Previews, PreviewFresh

--------------------------------------------------------------------------------
(* The types *)

FetchRecords ==
    [step : {"asked", "rows", "counted"}, mark : Marks, last : Marks, counted : Nat, unread : Nat]
ListRecords == [unread : Nat, last : Marks]

LEMMA UnreadFinite ==
    Types => \A mark \in Marks : IsFiniteSet(Unread(mark)) /\ Cardinality(Unread(mark)) \in Nat
<1> SUFFICES ASSUME Types, NEW mark \in Marks
             PROVE  IsFiniteSet(Unread(mark)) /\ Cardinality(Unread(mark)) \in Nat
  OBVIOUS
<1>1. Len(posted) \in Nat /\ Unread(mark) \subseteq 1..Len(posted)
  BY DEF Types, Unread, DmUnread, RoomUnread
<1> QED BY <1>1, FiniteMessages, FS_CardinalityType

LEMMA PostTypes == ASSUME Types, NEW own \in BOOLEAN, Post(own) PROVE Types'
<1>1. /\ posted' = Append(posted, own) /\ posted' \in Seq(BOOLEAN)
      /\ DOMAIN posted \subseteq DOMAIN posted' /\ \A m \in DOMAIN posted : posted'[m] = posted[m]
      /\ Len(posted) + 1 \in DOMAIN posted' /\ posted'[Len(posted) + 1] = own
      /\ Len(posted) + 1 \in Nat
  BY DEF Post, Types
<1>2. Coming' \subseteq DOMAIN posted'
  BY <1>1 DEF Post, Types, Coming, InChannel
<1>3. waiting' \subseteq {m \in DOMAIN posted' : ~posted'[m]}
  BY <1>1 DEF Post, Types
<1>4. deleted' \subseteq DOMAIN posted' /\ (kind' = "DM" => deleted' = {})
  BY <1>1 DEF Post, Types
<1> QED BY <1>1, <1>2, <1>3, <1>4 DEF Post, Types, marks

LEMMA FetchTypes ==
    ASSUME Types, ReadRows \/ CountUnread \/ RefetchList \/ InvalidateList \/ FetchFails
    PROVE  Types'
<1>1. fetch' \in FetchRecords \cup {None}
  <2>1. CASE ReadRows
    <3>1. LastMessage \in Marks /\ lastRead \in Marks  BY DEF LastMessage, Types, Marks
    <3> QED BY <2>1, <3>1 DEF ReadRows, Types, FetchRecords
  <2>2. CASE CountUnread
    <3>1. fetch \in FetchRecords  BY <2>2 DEF CountUnread, Types, FetchRecords
    <3>2. Cardinality(Unread(fetch.mark)) \in Nat /\ Len(posted) \in Nat
      BY <3>1, UnreadFinite DEF FetchRecords, Types
    <3> QED BY <2>2, <3>1, <3>2 DEF CountUnread, FetchRecords
  <2>3. NewFetch \in FetchRecords  BY DEF NewFetch, FetchRecords, Marks
  <2>4. CASE RefetchList \/ InvalidateList \/ FetchFails
    BY <2>3, <2>4 DEF RefetchList, InvalidateList, FetchFails
  <2> QED BY <2>1, <2>2, <2>4
<1>2. UNCHANGED <<kind, server, events, active, list, marks, history>>
  BY DEF ReadRows, CountUnread, RefetchList, InvalidateList, FetchFails
<1> QED BY <1>1, <1>2 DEF Types, FetchRecords, server, events, Coming, InChannel, marks, history

LEMMA ReceiveTypes ==
    ASSUME Types, ReceiveList \/ ReceiveMessage \/ MarkAnswered PROVE Types'
<1>1. CASE ReceiveList
  <2>1. [unread |-> fetch.unread, last |-> fetch.last] \in ListRecords
    BY <1>1 DEF ReceiveList, Types, ListRecords
  <2>2. asked' \in Nat /\ waiting' \subseteq waiting
    BY <1>1 DEF ReceiveList, MarkRead, Types
  <2> QED BY <1>1, <2>1, <2>2 DEF ReceiveList, Types, ListRecords, server, events, Coming, InChannel
<1>2. CASE ReceiveMessage
  <2>1. Head(channel) \in Nat /\ channel' \in Seq(Nat)
    BY <1>2 DEF ReceiveMessage, Types
  <2>2. list' \in ListRecords \cup {None}
    <3>1. list' = IF list = None THEN None
                  ELSE IF kind = "DM" THEN DmNew(Head(channel)) ELSE RoomNew
      BY <1>2 DEF ReceiveMessage
    <3> SUFFICES ASSUME list # None PROVE list' \in ListRecords  BY <3>1
    <3>2. list \in ListRecords /\ list.unread + 1 \in Nat  BY DEF Types, ListRecords
    <3>3. DmNew(Head(channel)) \in ListRecords
      BY <2>1, <3>2 DEF DmNew, ListRecords, Marks
    <3>4. RoomNew \in ListRecords  BY <3>2 DEF RoomNew, ListRecords
    <3> QED BY <3>1, <3>3, <3>4
  <2>3. waiting' \subseteq waiting
    BY <1>2 DEF ReceiveMessage
  <2>4. Coming' \subseteq Coming  BY <1>2, ComingReceived DEF ReceiveMessage, Types
  <2> QED BY <1>2, <2>1, <2>2, <2>3, <2>4 DEF ReceiveMessage, Types, ListRecords, server, marks
<1>3. CASE MarkAnswered
  <2>1. list' \in ListRecords \cup {None}  BY <1>3 DEF MarkAnswered, Types, ListRecords
  <2>2. answered' \in Nat  BY <1>3 DEF MarkAnswered, Types
  <2> QED BY <1>3, <2>1, <2>2 DEF MarkAnswered, Types, ListRecords, server, events, Coming, InChannel
<1> QED BY <1>1, <1>2, <1>3

LEMMA TypesStep == ASSUME Types, [Next]_vars PROVE Types'
<1>1. ASSUME NEW m \in 1..MaxMessages, DeleteMessage(m) PROVE Types'
  BY <1>1 DEF DeleteMessage, Types, events, Coming, InChannel, marks, history
<1>2. CASE ProcessMark
  <2>1. Len(posted) \in Marks  BY DEF Types, Marks
  <2> QED BY <1>2, <2>1 DEF ProcessMark, Types, events, Coming, InChannel, history
<1>3. ASSUME NEW view \in {"this", "other", None}, Select(view) PROVE Types'
  <2>1. asked' \in Nat /\ waiting' \subseteq waiting  BY <1>3 DEF Select, MarkRead, Types
  <2> QED BY <1>3, <2>1 DEF Select, Types, server, events, Coming, InChannel
<1>4. CASE MarkFails
  BY <1>4 DEF MarkFails, Types, server, events, Coming, InChannel, history
<1>5. CASE LoseEvents
  <2>1. Coming' \subseteq Coming /\ channel' \in Seq(Nat)
    BY <1>5, NoEvents DEF LoseEvents, Coming
  <2> QED BY <1>5, <2>1 DEF LoseEvents, Types, server, marks
<1>6. CASE UNCHANGED vars
  BY <1>6 DEF vars, Types, server, events, Coming, InChannel, marks, history
<1>7. ASSUME NEW m \in 1..MaxMessages, EmitNew(m) PROVE Types'
  <2>1. m \in unsent  BY <1>7 DEF EmitNew
  <2>2. Coming' = Coming /\ channel' \in Seq(Nat)  BY <1>7, <2>1, ComingEmitted DEF Types
  <2> QED BY <1>7, <2>2 DEF EmitNew, Types, server, marks, history
<1>8. ASSUME NEW m \in 1..MaxMessages, TellFails(m) PROVE Types'
  <2>1. Coming' \subseteq Coming  BY <1>8 DEF TellFails, Coming, InChannel
  <2> QED BY <1>8, <2>1 DEF TellFails, Types, server, marks
<1> QED BY <1>1, <1>2, <1>3, <1>4, <1>5, <1>6, <1>7, <1>8, PostTypes, FetchTypes, ReceiveTypes DEF Next

--------------------------------------------------------------------------------
(* The count of a response *)

\* A response keeps its count, what it covers only shrinks.
LEMMA CountedKept ==
    ASSUME Types, Counted, UNCHANGED <<kind, fetch>>, deleted \subseteq deleted',
           Len(posted) <= Len(posted)', \A m \in DOMAIN posted : posted'[m] = posted[m]
    PROVE  Counted'
<1> SUFFICES ASSUME fetch # None, fetch.step = "counted"
             PROVE  /\ fetch.counted <= Len(posted')
                    /\ kind = "DM" \/ fetch.mark # None => Cardinality(Countable') <= fetch.unread
  BY DEF Counted
<1>1. fetch \in FetchRecords  BY DEF Types, FetchRecords
<1>2. fetch.counted \in Nat /\ fetch.unread \in Nat  BY <1>1 DEF FetchRecords
<1>3. fetch.counted <= Len(posted) /\ 1..fetch.counted \subseteq DOMAIN posted
  BY <1>2 DEF Counted, Types
<1>4. Countable' \subseteq Countable
  BY <1>3 DEF Countable
<1>5. IsFiniteSet(Countable)
  BY <1>2, FiniteMessages DEF Countable
<1>6. Len(posted) \in Nat /\ Len(posted)' \in Nat
  BY <1>3 DEF Types
<1>7. ASSUME kind = "DM" \/ fetch.mark # None PROVE Cardinality(Countable') <= fetch.unread
  BY <1>2, <1>4, <1>5, <1>7, SubsetAtMost DEF Counted
<1> QED BY <1>2, <1>3, <1>6, <1>7

\* A count is of all that it has to cover.
LEMMA CountUnreadCounted == ASSUME Types, CountUnread PROVE Counted'
<1>1. fetch \in FetchRecords /\ fetch # None  BY DEF CountUnread, Types, FetchRecords
<1>2. /\ fetch' = [fetch EXCEPT !.step = "counted", !.counted = Len(posted),
                                !.unread = Cardinality(Unread(fetch.mark))]
      /\ UNCHANGED <<kind, posted, deleted>>
  BY DEF CountUnread, server
<1>3. /\ fetch'.counted = Len(posted) /\ fetch'.mark = fetch.mark
      /\ fetch'.unread = Cardinality(Unread(fetch.mark)) /\ fetch.mark \in Marks
  BY <1>1, <1>2 DEF FetchRecords
<1>4. ASSUME kind = "DM" \/ fetch.mark # None PROVE Countable' \subseteq Unread(fetch.mark)
  BY <1>2, <1>3, <1>4 DEF Countable, Unread, DmUnread, RoomUnread, Types
<1>5. IsFiniteSet(Unread(fetch.mark)) /\ Cardinality(Unread(fetch.mark)) \in Nat
  BY <1>3, UnreadFinite
<1>6. ASSUME kind = "DM" \/ fetch.mark # None
      PROVE  Cardinality(Countable') <= Cardinality(Unread(fetch.mark))
  BY <1>4, <1>5, <1>6, FS_Subset
<1>7. Len(posted) <= Len(posted)  BY DEF Types
<1> QED BY <1>2, <1>3, <1>6, <1>7 DEF Counted

LEMMA CountedStep == ASSUME Types, Counted, [Next]_vars PROVE Counted'
<1>0. Len(posted) \in Nat  BY DEF Types
<1>1. CASE UNCHANGED <<kind, fetch, posted, deleted>>
  BY <1>0, <1>1, CountedKept
<1>2. ASSUME NEW own \in BOOLEAN, Post(own) PROVE Counted'
  <2>1. Len(posted)' = Len(posted) + 1 /\ \A m \in DOMAIN posted : posted'[m] = posted[m]
    BY <1>2 DEF Post, Types
  <2> QED BY <1>0, <1>2, <2>1, CountedKept DEF Post
<1>3. ASSUME NEW m \in 1..MaxMessages, DeleteMessage(m) PROVE Counted'
  BY <1>0, <1>3, CountedKept DEF DeleteMessage
<1>4. CASE CountUnread
  BY <1>4, CountUnreadCounted
<1>5. CASE ReadRows
  <2>1. fetch'.step = "rows"  BY <1>5 DEF ReadRows, Types
  <2> QED BY <2>1 DEF Counted
<1>6. CASE RefetchList \/ InvalidateList \/ FetchFails \/ ReceiveList
  <2>1. fetch' = None \/ fetch'.step = "asked"
    BY <1>6 DEF RefetchList, InvalidateList, FetchFails, ReceiveList, NewFetch
  <2> QED BY <2>1 DEF Counted
<1>7. CASE \E view \in {"this", "other", None} : Select(view)
  BY <1>1, <1>7 DEF Select, server
<1>8. CASE ProcessMark \/ ReceiveMessage \/ MarkAnswered \/ MarkFails \/ LoseEvents
  BY <1>1, <1>8 DEF ProcessMark, ReceiveMessage, MarkAnswered, MarkFails, LoseEvents, server
<1>9. CASE \E m \in 1..MaxMessages : EmitNew(m) \/ TellFails(m)
  BY <1>1, <1>9 DEF EmitNew, TellFails, server
<1>10. CASE UNCHANGED vars
  BY <1>1, <1>10 DEF vars, server
<1> QED BY <1>2, <1>3, <1>4, <1>5, <1>6, <1>7, <1>8, <1>9, <1>10 DEF Next

--------------------------------------------------------------------------------
(* The count of the list *)

LEMMA HiddenKept ==
    ASSUME Types, OnlyRacesHideUnread, list' = list, Hidden' \subseteq Hidden
    PROVE  OnlyRacesHideUnread'
<1> SUFFICES ASSUME list # None PROVE Cardinality(Hidden') <= list.unread
  BY DEF OnlyRacesHideUnread, Hidden
<1>1. list.unread \in Nat /\ Cardinality(Hidden) <= list.unread
  BY DEF Types, OnlyRacesHideUnread, Hidden
<1> QED BY <1>1, FiniteHidden, SubsetAtMost

\* Waiting messages that a response does not leave out are among those it
\* counted.
LEMMA ReceiveListHidden ==
    ASSUME Types, Types', Counted, ReceiveList PROVE OnlyRacesHideUnread'
<1>0. fetch \in FetchRecords /\ fetch.step = "counted" /\ fetch # None
  BY DEF ReceiveList, Types, FetchRecords
<1>1. /\ fetch.counted \in Nat /\ fetch.mark \in Marks /\ fetch.unread \in Nat
      /\ Len(posted) \in Nat /\ fetch.counted <= Len(posted) /\ DOMAIN posted = 1..Len(posted)
  BY <1>0 DEF FetchRecords, Counted, Types
<1>2. list'.unread = fetch.unread /\ UNCHANGED <<deleted, unsent, channel>> /\ excused' = LeftOut
  BY DEF ReceiveList, server, events
<1>3. waiting' \subseteq waiting /\ waiting' \subseteq DOMAIN posted
  BY DEF ReceiveList, MarkRead, Types
<1>4. CASE kind = "ROOM" /\ fetch.mark = None
  <2>1. Hidden' = {}  BY <1>2, <1>3, <1>4 DEF Hidden, LeftOut, Coming, InChannel
  <2>2. Cardinality(Hidden') <= list'.unread  BY <1>1, <1>2, <2>1, NothingHidden
  <2> QED BY <2>2 DEF OnlyRacesHideUnread, Hidden
<1>5. CASE kind = "DM" \/ fetch.mark # None
  <2>1. ASSUME NEW m \in Hidden' PROVE m \in Countable
    <3>1. m \in waiting /\ m \notin deleted /\ m \notin Coming /\ m \in 1..Len(posted)
          /\ m \notin LeftOut /\ ~posted[m]
      BY <1>1, <1>2, <1>3, <2>1 DEF Hidden, Coming, InChannel, Types
    <3>2. m \notin {n \in DOMAIN posted : fetch.mark # None /\ n <= fetch.mark}
          /\ m \notin ToldAfter(fetch.counted)
      BY <1>5, <3>1 DEF LeftOut, Types
    <3>3. fetch.mark = None \/ m > fetch.mark
      BY <1>1, <3>1, <3>2 DEF Marks
    <3>4. m <= fetch.counted
      BY <1>1, <3>1, <3>2, NoneAssumption DEF ToldAfter, Newer
    <3> QED BY <1>1, <3>1, <3>3, <3>4 DEF Countable
  <2>2. IsFiniteSet(Countable)  BY <1>1, FiniteMessages DEF Countable
  <2>3. Cardinality(Countable) <= fetch.unread  BY <1>0, <1>5 DEF Counted
  <2>4. Cardinality(Hidden') <= fetch.unread  BY <1>1, <2>1, <2>2, <2>3, SubsetAtMost
  <2> QED BY <1>2, <2>4 DEF OnlyRacesHideUnread, Hidden
<1> QED BY <1>4, <1>5 DEF Types

\* An event adds one message and, where the user does not watch, one to the
\* count.
LEMMA ReceiveMessageHidden ==
    ASSUME Types, OnlyRacesHideUnread, ReceiveMessage PROVE OnlyRacesHideUnread'
<1> SUFFICES ASSUME list' # None PROVE Cardinality(Hidden') <= list'.unread
  BY DEF OnlyRacesHideUnread, Hidden
<1>0. list # None /\ list \in ListRecords  BY DEF ReceiveMessage, Types, ListRecords
<1>1. list.unread \in Nat /\ Cardinality(Hidden) <= list.unread /\ IsFiniteSet(Hidden)
  BY <1>0, FiniteHidden DEF ListRecords, OnlyRacesHideUnread, Hidden
<1>2. Coming \subseteq Coming' \cup {Head(channel)}
  BY ComingReceived DEF ReceiveMessage, Types
<1>3. UNCHANGED <<deleted, excused>> /\ waiting' \subseteq waiting
  BY DEF ReceiveMessage, server
<1>4. CASE Background
  <2>1. list'.unread = list.unread + 1
    BY <1>0, <1>4 DEF ReceiveMessage, DmNew, RoomNew, ListRecords
  <2>2. Hidden' \subseteq Hidden \cup {Head(channel)}
    BY <1>2, <1>3 DEF Hidden
  <2> QED BY <1>1, <2>1, <2>2, OneMoreAtMost
<1>5. CASE ~Background
  <2>1. list'.unread = list.unread
    BY <1>0, <1>5 DEF ReceiveMessage, DmNew, RoomNew, ListRecords
  <2>2. waiting' = waiting \ {Head(channel)}
    BY <1>0, <1>5 DEF ReceiveMessage, Background
  <2>3. Hidden' \subseteq Hidden
    BY <1>2, <1>3, <2>2 DEF Hidden
  <2> QED BY <1>1, <2>1, <2>3, SubsetAtMost
<1> QED BY <1>4, <1>5

LEMMA HiddenStep ==
    ASSUME Types, Types', Counted, OnlyRacesHideUnread, [Next]_vars PROVE OnlyRacesHideUnread'
<1>1. ASSUME NEW own \in BOOLEAN, Post(own) PROVE OnlyRacesHideUnread'
  <2>1. Hidden' \subseteq Hidden  BY <1>1 DEF Post, Hidden, Coming, InChannel
  <2> QED BY <1>1, <2>1, HiddenKept DEF Post
<1>2. ASSUME NEW m \in 1..MaxMessages, DeleteMessage(m) PROVE OnlyRacesHideUnread'
  <2>1. Hidden' \subseteq Hidden
    BY <1>2 DEF DeleteMessage, Hidden, history, events, Coming, InChannel
  <2> QED BY <1>2, <2>1, HiddenKept DEF DeleteMessage
<1>3. ASSUME NEW view \in {"this", "other", None}, Select(view) PROVE OnlyRacesHideUnread'
  <2>1. Hidden' \subseteq Hidden
    BY <1>3 DEF Select, MarkRead, Hidden, server, events, Coming, InChannel
  <2> QED BY <1>3, <2>1, HiddenKept DEF Select
<1>4. CASE ReceiveList
  BY <1>4, ReceiveListHidden
<1>5. CASE ReceiveMessage
  BY <1>5, ReceiveMessageHidden
<1>6. CASE MarkAnswered
  <2>1. Hidden' = {}  BY <1>6 DEF MarkAnswered, Hidden, server, events, Coming, InChannel
  <2>2. list' # None => list'.unread = 0  BY <1>6 DEF MarkAnswered, Types
  <2> QED BY <2>1, <2>2, NothingHidden DEF OnlyRacesHideUnread, Hidden
<1>7. CASE LoseEvents
  <2>1. Hidden' \subseteq Hidden  BY <1>7 DEF LoseEvents, Miss, Hidden, server, Coming
  <2> QED BY <1>7, <2>1, HiddenKept DEF LoseEvents
<1>8. CASE UNCHANGED <<waiting, deleted, excused, unsent, channel, list>>
  <2>1. Hidden' \subseteq Hidden  BY <1>8 DEF Hidden, Coming, InChannel
  <2> QED BY <1>8, <2>1, HiddenKept
<1>9. CASE ReadRows \/ CountUnread \/ RefetchList \/ InvalidateList \/ FetchFails
  BY <1>8, <1>9
     DEF ReadRows, CountUnread, RefetchList, InvalidateList, FetchFails, server, events, history
<1>10. CASE ProcessMark \/ MarkFails
  BY <1>8, <1>10 DEF ProcessMark, MarkFails, server, events, history
<1>11. CASE UNCHANGED vars
  BY <1>8, <1>11 DEF vars, server, events, history
<1>12. ASSUME NEW m \in 1..MaxMessages, EmitNew(m) PROVE OnlyRacesHideUnread'
  <2>1. m \in unsent  BY <1>12 DEF EmitNew
  <2>2. Coming' = Coming  BY <1>12, <2>1, ComingEmitted DEF Types
  <2>3. Hidden' \subseteq Hidden  BY <1>12, <2>2 DEF EmitNew, Hidden, server, history
  <2> QED BY <1>12, <2>3, HiddenKept DEF EmitNew
<1>13. ASSUME NEW m \in 1..MaxMessages, TellFails(m) PROVE OnlyRacesHideUnread'
  <2>1. Hidden' \subseteq Hidden
    BY <1>13 DEF TellFails, Miss, Hidden, server, Coming, InChannel
  <2> QED BY <1>13, <2>1, HiddenKept DEF TellFails
<1> QED BY <1>1, <1>2, <1>3, <1>4, <1>5, <1>6, <1>7, <1>9, <1>10, <1>11, <1>12, <1>13 DEF Next

--------------------------------------------------------------------------------
(* The preview *)

\* What there may be a preview of stays.
LEMMA PreviewGrows ==
    ASSUME Types, UNCHANGED kind, Len(posted)' = Len(posted) \/ Len(posted)' = Len(posted) + 1
    PROVE  Preview \subseteq Preview'
<1>1. Len(posted) \in Nat  BY DEF Types
<1> QED BY <1>1 DEF Preview

LEMMA PreviewsStep ==
    ASSUME Types, Previews, [Next]_vars PROVE Previews'
<1>0. Len(posted) \in Nat /\ DOMAIN posted = 1..Len(posted)  BY DEF Types
<1>1. ASSUME NEW own \in BOOLEAN, Post(own) PROVE Previews'
  <2>1. Len(posted)' = Len(posted) + 1  BY <1>1 DEF Post, Types
  <2>2. Preview \subseteq Preview'  BY <1>1, <2>1, PreviewGrows DEF Post
  <2> QED BY <1>1, <2>2 DEF Post, Previews
<1>2. CASE ReadRows
  <2>1. fetch \in FetchRecords /\ fetch' = [fetch EXCEPT !.step = "rows", !.mark = lastRead, !.last = LastMessage]
    BY <1>2 DEF ReadRows, Types, FetchRecords
  <2>2. fetch'.last = LastMessage  BY <2>1 DEF FetchRecords
  <2>3. LastMessage \in Preview  BY <1>0 DEF LastMessage, Types, Preview
  <2> QED BY <1>2, <2>2, <2>3 DEF ReadRows, Previews, Preview, server
<1>3. CASE CountUnread
  <2>1. fetch # None /\ fetch \in FetchRecords  BY <1>3 DEF CountUnread, Types, FetchRecords
  <2>2. fetch'.last = fetch.last  BY <1>3, <2>1 DEF CountUnread, FetchRecords
  <2> QED BY <1>3, <2>1, <2>2 DEF CountUnread, Previews, Preview, server
<1>4. CASE RefetchList \/ InvalidateList \/ FetchFails
  <2>1. fetch' # None => fetch'.last = None
    BY <1>4 DEF RefetchList, InvalidateList, FetchFails, NewFetch
  <2>2. None \in Preview  BY DEF Preview
  <2> QED BY <1>4, <2>1, <2>2
          DEF RefetchList, InvalidateList, FetchFails, Previews, Preview, server
<1>5. CASE ReceiveList
  BY <1>5 DEF ReceiveList, Previews, Preview, server
<1>6. CASE ReceiveMessage
  <2>1. Head(channel) \in 1..Len(posted)
    BY <1>0, <1>6, ComingReceived DEF ReceiveMessage, Types
  <2>2. list' # None => list # None /\ list'.last \in {list.last} \cup
                                         (IF kind = "DM" THEN {Head(channel)} ELSE {})
    BY <1>6 DEF ReceiveMessage, RoomNew, DmNew, Types
  <2> QED BY <1>6, <2>1, <2>2 DEF ReceiveMessage, Previews, Preview, server
<1>7. CASE MarkAnswered
  <2>1. list' # None => list # None /\ list'.last = list.last
    BY <1>7 DEF MarkAnswered, Types
  <2> QED BY <1>7, <2>1 DEF MarkAnswered, Previews, Preview, server
<1>8. CASE UNCHANGED <<kind, posted, list, fetch>>
  BY <1>8 DEF Previews, Preview
<1>9. CASE \/ \E m \in 1..MaxMessages : DeleteMessage(m) \/ EmitNew(m) \/ TellFails(m)
           \/ \E view \in {"this", "other", None} : Select(view)
           \/ ProcessMark \/ MarkFails \/ LoseEvents
  BY <1>8, <1>9
     DEF DeleteMessage, EmitNew, TellFails, Select, ProcessMark, MarkFails, LoseEvents, server
<1>10. CASE UNCHANGED vars
  BY <1>8, <1>10 DEF vars, server
<1> QED BY <1>1, <1>2, <1>3, <1>4, <1>5, <1>6, <1>7, <1>9, <1>10 DEF Next

\* The same preview stays fresh while a message is added only to those to come,
\* and one later than it is not taken away from them without a word.
LEMMA FreshKept ==
    ASSUME PreviewFresh, UNCHANGED kind,
           list' # None => list # None /\ list'.last = list.last,
           outdated => outdated',
           \A m \in DOMAIN posted' : m \in DOMAIN posted \/ m \in Coming',
           list # None /\ kind = "DM" /\ ~outdated' =>
               \A m \in Coming : Newer(m, list.last) => m \in Coming'
    PROVE  PreviewFresh'
<1> SUFFICES ASSUME list' # None, kind' = "DM", ~outdated' PROVE ToldAfter(list.last)' = {}
  BY DEF PreviewFresh
<1>1. list # None /\ list'.last = list.last /\ kind = "DM" /\ ~outdated  OBVIOUS
<1>2. ToldAfter(list.last) = {}  BY <1>1 DEF PreviewFresh
<1>3. ASSUME NEW m \in DOMAIN posted', Newer(m, list.last), m \notin Coming' PROVE FALSE
  <2>1. m \in DOMAIN posted /\ m \notin Coming  BY <1>1, <1>3
  <2> QED BY <1>2, <1>3, <2>1 DEF ToldAfter
<1>4. ToldAfter(list.last)' = {m \in DOMAIN posted' : Newer(m, list.last)} \ Coming'
  BY <1>1 DEF ToldAfter, Newer
<1> QED BY <1>3, <1>4

LEMMA FreshStep ==
    ASSUME Types, PreviewFresh, [Next]_vars PROVE PreviewFresh'
<1>0. channel \in Seq(Nat)  BY DEF Types
<1>1. ASSUME NEW own \in BOOLEAN, Post(own) PROVE PreviewFresh'
  <2>1. DOMAIN posted' = DOMAIN posted \cup {Len(posted) + 1}  BY <1>1 DEF Post, Types
  <2>2. Coming' = Coming \cup {Len(posted) + 1}  BY <1>1 DEF Post, Coming, InChannel
  <2> QED BY <1>1, <2>1, <2>2, FreshKept DEF Post
<1>2. ASSUME NEW m \in 1..MaxMessages, EmitNew(m) PROVE PreviewFresh'
  <2>1. m \in unsent  BY <1>2 DEF EmitNew
  <2>2. Coming' = Coming  BY <1>2, <2>1, ComingEmitted DEF Types
  <2> QED BY <1>2, <2>2, FreshKept DEF EmitNew, server, history
<1>3. CASE ReceiveList
  <2>1. list'.last = fetch.last /\ outdated' = (kind = "DM" /\ ToldAfter(fetch.last) # {})
        /\ UNCHANGED <<kind, posted, unsent, channel>>
    BY <1>3 DEF ReceiveList, server, events
  <2>2. ToldAfter(list.last)' = ToldAfter(fetch.last)
    BY <2>1 DEF ToldAfter, Newer, Coming, InChannel
  <2> QED BY <2>1, <2>2 DEF PreviewFresh
<1>4. CASE ReceiveMessage
  <2> DEFINE m == Head(channel)
  <2>1. UNCHANGED <<kind, posted, unsent>> /\ channel # <<>> /\ channel' = Tail(channel)
    BY <1>4 DEF ReceiveMessage, server
  <2>2. Coming \subseteq Coming' \cup {m} /\ m \in Nat
    BY <1>0, <2>1, ComingReceived
  <2> SUFFICES ASSUME list' # None, kind = "DM", ~outdated' PROVE ToldAfter(list.last)' = {}
    BY <2>1 DEF PreviewFresh
  <2>3. list # None /\ list'.last = m /\ ToldAfter(m) = {}
    BY <1>4 DEF ReceiveMessage, DmNew
  <2> HIDE DEF m
  <2>4. ASSUME NEW k \in DOMAIN posted, Newer(k, m), k \notin Coming' PROVE FALSE
    <3>1. k # m
      <4>1. k \in Nat /\ m # None  BY <2>2, NoneAssumption DEF Types
      <4> QED BY <2>2, <2>4, <4>1 DEF Newer
    <3>2. k \notin Coming  BY <2>2, <2>4, <3>1
    <3> QED BY <2>3, <2>4, <3>2 DEF ToldAfter
  <2>5. ToldAfter(list.last)' = {k \in DOMAIN posted : Newer(k, m)} \ Coming'
    BY <2>1, <2>3 DEF ToldAfter, Newer
  <2> QED BY <2>4, <2>5
<1>5. CASE MarkAnswered
  <2>1. list' # None => list # None /\ list'.last = list.last
    BY <1>5 DEF MarkAnswered, Types
  <2> QED BY <1>5, <2>1, FreshKept DEF MarkAnswered, server, events, Coming, InChannel
<1>6. CASE LoseEvents
  <2>1. Coming' = unsent  BY <1>6, NoEvents DEF LoseEvents, Coming
  <2> QED BY <1>6, <2>1, FreshKept DEF LoseEvents, Miss, server, Coming
<1>7. ASSUME NEW m \in 1..MaxMessages, TellFails(m) PROVE PreviewFresh'
  <2>1. Coming \subseteq Coming' \cup {m}  BY <1>7 DEF TellFails, Coming, InChannel
  <2> QED BY <1>7, <2>1, FreshKept DEF TellFails, Miss, server
<1>8. CASE UNCHANGED <<kind, posted, unsent, channel, list, outdated>>
  BY <1>8 DEF PreviewFresh, ToldAfter, Newer, Coming, InChannel
<1>9. CASE ReadRows \/ CountUnread \/ RefetchList \/ InvalidateList \/ FetchFails
  BY <1>8, <1>9
     DEF ReadRows, CountUnread, RefetchList, InvalidateList, FetchFails, server, events, history
<1>10. CASE \/ \E m \in 1..MaxMessages : DeleteMessage(m)
            \/ \E view \in {"this", "other", None} : Select(view)
            \/ ProcessMark \/ MarkFails
  BY <1>8, <1>10 DEF DeleteMessage, Select, ProcessMark, MarkFails, server, events, history
<1>11. CASE UNCHANGED vars
  BY <1>8, <1>11 DEF vars, server, events, history
<1> QED BY <1>1, <1>2, <1>3, <1>4, <1>5, <1>6, <1>7, <1>9, <1>10, <1>11 DEF Next

\* Without events to come, a fresh preview is of the last message.
LEMMA FreshIsLast ==
    ASSUME Types, Previews, PreviewFresh, list # None, channel = <<>>, unsent = {}, ~outdated
    PROVE  list.last = LastMessage
<1>1. Len(posted) \in Nat /\ DOMAIN posted = 1..Len(posted) /\ (posted = <<>> <=> Len(posted) = 0)
  BY DEF Types
<1>2. CASE kind = "ROOM"  BY <1>2 DEF Previews, Preview, LastMessage
<1>3. CASE kind = "DM"
  <2>1. list.last \in {None} \cup 1..Len(posted)  BY <1>3 DEF Previews, Preview
  <2>2. Coming = {}  BY DEF Coming, InChannel, ToSet
  <2>3. \A m \in 1..Len(posted) : list.last # None /\ ~(m > list.last)
    BY <1>1, <1>3, <2>2 DEF PreviewFresh, ToldAfter, Newer
  <2>4. CASE Len(posted) = 0  BY <1>1, <2>1, <2>4 DEF LastMessage
  <2>5. CASE Len(posted) # 0
    <3>1. Len(posted) \in 1..Len(posted)  BY <1>1, <2>5
    <3>2. list.last \in 1..Len(posted) /\ ~(Len(posted) > list.last)  BY <2>1, <2>3, <3>1
    <3>3. list.last = Len(posted)  BY <1>1, <3>2
    <3> QED BY <1>1, <1>3, <2>5, <3>3 DEF LastMessage
  <2> QED BY <2>4, <2>5
<1> QED BY <1>2, <1>3 DEF Types

--------------------------------------------------------------------------------

LEMMA InductiveInv == Spec => []IInv
<1>1. IInv /\ [Next]_vars => IInv'
  BY TypesStep, CountedStep, HiddenStep, PreviewsStep, FreshStep DEF IInv
<1> QED BY InitInv, <1>1, PTL DEF Spec

\* For any number of messages, deletions, marks and fetches: the count of the
\* list covers every message of others that has come and was not shown, but for
\* those that the late answer to a mark, an old response or a lost event took
\* out of it.
THEOREM OnlyRacesHideUnreadAlways == Spec => []OnlyRacesHideUnread
<1>1. IInv => OnlyRacesHideUnread  BY DEF IInv
<1> QED BY InductiveInv, <1>1, PTL

\* For any number of messages and fetches: once the events to come are in, a
\* thread's preview is its newest message, unless a response was older than an
\* event before it, events came in the other order or were lost.
THEOREM OnlyRacesOutdatePreviewAlways == Spec => []OnlyRacesOutdatePreview
<1>1. IInv => OnlyRacesOutdatePreview  BY FreshIsLast DEF IInv, OnlyRacesOutdatePreview
<1> QED BY InductiveInv, <1>1, PTL

--------------------------------------------------------------------------------
(* The status of a friend: what a job is doing *)

\* What a job is doing while its command is in the queue.
Counting == {"zremTab", "zremActivity", "purge", "zcard"}
Beating == {"zaddTab", "zaddActivity", "sadd"}
Clearing == {"delTabs", "delActivity", "srem"}
Commands == Counting \cup Beating \cup Clearing \cup {"smembers", "top", "get", "set"}

Doings == Commands \cup {"idle", "otherUsers", "friends"}
Derivations == {"none", "online", "afk", "offline"}

\* What a job has derived, it has after counting the tabs and until it is done.
Tasks ==
    {x \in [pc : Doings, tab : Tabs \cup {SomeTab}, isActive : BOOLEAN,
            newStatus : Derivations] :
        /\ x.pc \in {"get", "set", "friends"} => x.newStatus # "none"
        /\ x.pc \in Clearing => x.newStatus = "offline"
        /\ x.pc \notin Clearing \cup {"get", "set", "friends"} => x.newStatus = "none"}

PresenceTypes ==
    /\ tabs = [t \in Tabs |-> tabs[t]]
    /\ tracked \in BOOLEAN /\ collided \in BOOLEAN
    /\ status \in Derivations
    /\ queue \in Seq(AllJobs)
    /\ job \in [AllJobs -> Tasks]

--------------------------------------------------------------------------------
(* The order of the queue *)

NoDuplicates(q) == \A a, b \in 1..Len(q) : q[a] = q[b] => a = b
In(q, i) == \E a \in 1..Len(q) : q[a] = i
InOrder(q, i, k) == \E a, b \in 1..Len(q) : a < b /\ q[a] = i /\ q[b] = k

\* Whether i is in p and where it stands to k depends on the moved job only.
SameButFor(j, q, p) ==
    /\ \A i : i # j => (In(q, i) <=> In(p, i))
    /\ \A i, k : i # j /\ k # j /\ InOrder(q, i, k) => InOrder(p, i, k)

LastIn(j, p) == In(p, j) /\ \A i : In(p, i) /\ i # j => InOrder(p, i, j)

LEMMA AppendedOrder ==
    ASSUME NEW S, NEW q \in Seq(S), NEW j \in S, NoDuplicates(q), ~In(q, j)
    PROVE  /\ NoDuplicates(Append(q, j)) /\ SameButFor(j, q, Append(q, j))
           /\ LastIn(j, Append(q, j))
<1> DEFINE p == Append(q, j)
<1>1. PICK n \in Nat : n = Len(q)  OBVIOUS
<1>2. /\ Len(p) = n + 1 /\ p[n + 1] = j
      /\ \A a \in 1..n : p[a] = q[a]
  BY <1>1
<1> HIDE DEF p
<1>3. NoDuplicates(p)
  BY <1>1, <1>2 DEF NoDuplicates, In
<1>4. SameButFor(j, q, p)
  <2>1. ASSUME NEW i, i # j PROVE In(q, i) <=> In(p, i)
    BY <1>1, <1>2, <2>1 DEF In
  <2>2. ASSUME NEW i, NEW k, i # j, k # j, InOrder(q, i, k) PROVE InOrder(p, i, k)
    BY <1>1, <1>2, <2>2 DEF InOrder
  <2> QED BY <2>1, <2>2 DEF SameButFor
<1>5. LastIn(j, p)
  <2>1. In(p, j)  BY <1>2 DEF In
  <2>2. ASSUME NEW i, i # j, In(p, i) PROVE InOrder(p, i, j)
    BY <1>2, <2>2 DEF In, InOrder
  <2> QED BY <2>1, <2>2 DEF LastIn
<1> QED BY <1>3, <1>4, <1>5 DEF p

LEMMA TailOrder ==
    ASSUME NEW S, NEW q \in Seq(S), q # <<>>, NoDuplicates(q)
    PROVE  /\ Head(q) \in S /\ Tail(q) \in Seq(S)
           /\ In(q, Head(q)) /\ \A i : ~InOrder(q, i, Head(q))
           /\ NoDuplicates(Tail(q)) /\ SameButFor(Head(q), q, Tail(q))
           /\ ~In(Tail(q), Head(q))
<1> DEFINE p == Tail(q)
<1>1. PICK n \in Nat : n = Len(q) /\ n > 0  OBVIOUS
<1>2. PICK h \in S : h = Head(q) /\ h = q[1]  BY <1>1
<1>3. p \in Seq(S) /\ Len(p) = n - 1 /\ \A a \in 1..(n - 1) : p[a] = q[a + 1]
  BY <1>1
<1> HIDE DEF p
<1>4. \A a \in 1..n : q[a] = h => a = 1
  BY <1>1, <1>2 DEF NoDuplicates
<1>5. In(q, h)  BY <1>1, <1>2 DEF In
<1>6. ASSUME NEW i PROVE ~InOrder(q, i, h)
  BY <1>1, <1>4 DEF InOrder
<1>7. NoDuplicates(p)
  BY <1>1, <1>3 DEF NoDuplicates
<1>8. \A a \in 1..(n - 1) : p[a] # h
  BY <1>1, <1>3, <1>4
<1>9. SameButFor(h, q, p)
  <2>1. ASSUME NEW i, i # h, In(q, i) PROVE In(p, i)
    <3>1. PICK a \in 1..n : q[a] = i  BY <1>1, <2>1 DEF In
    <3>2. a - 1 \in 1..(n - 1) /\ (a - 1) + 1 = a  BY <1>1, <1>2, <2>1, <3>1
    <3> QED BY <1>3, <3>1, <3>2, <1>1 DEF In
  <2>2. ASSUME NEW i, i # h, In(p, i) PROVE In(q, i)
    BY <1>1, <1>3, <2>2 DEF In
  <2>3. ASSUME NEW i, NEW k, i # h, k # h, InOrder(q, i, k) PROVE InOrder(p, i, k)
    <3>1. PICK a \in 1..n, b \in 1..n : a < b /\ q[a] = i /\ q[b] = k
      BY <1>1, <2>3 DEF InOrder
    <3>2. a - 1 \in 1..(n - 1) /\ (a - 1) + 1 = a /\ b - 1 \in 1..(n - 1) /\ (b - 1) + 1 = b
      BY <1>1, <1>2, <2>3, <3>1
    <3>3. p[a - 1] = i /\ p[b - 1] = k /\ a - 1 < b - 1  BY <1>3, <3>1, <3>2
    <3> QED BY <1>3, <3>2, <3>3 DEF InOrder
  <2> QED BY <2>1, <2>2, <2>3 DEF SameButFor
<1> QED BY <1>2, <1>3, <1>5, <1>6, <1>7, <1>8, <1>9 DEF p, In

LEMMA RotatedOrder ==
    ASSUME NEW S, NEW q \in Seq(S), q # <<>>, NoDuplicates(q)
    PROVE  LET p == Append(Tail(q), Head(q))
           IN  /\ p \in Seq(S) /\ NoDuplicates(p)
               /\ SameButFor(Head(q), q, p) /\ LastIn(Head(q), p)
<1> DEFINE h == Head(q)
           p == Append(Tail(q), h)
<1>1. /\ h \in S /\ Tail(q) \in Seq(S)
      /\ NoDuplicates(Tail(q)) /\ SameButFor(h, q, Tail(q)) /\ ~In(Tail(q), h)
  BY TailOrder
<1> HIDE DEF h
<1>2. /\ p \in Seq(S) /\ NoDuplicates(p)
      /\ SameButFor(h, Tail(q), p) /\ LastIn(h, p)
  <2>1. PICK t \in Seq(S) : t = Tail(q)  BY <1>1
  <2>2. /\ NoDuplicates(Append(t, h))
        /\ SameButFor(h, t, Append(t, h)) /\ LastIn(h, Append(t, h))
    BY <1>1, <2>1, AppendedOrder
  <2>3. Append(t, h) \in Seq(S)  BY <1>1
  <2> QED BY <2>1, <2>2, <2>3
<1>3. SameButFor(h, q, p)
  BY <1>1, <1>2 DEF SameButFor
<1> QED BY <1>2, <1>3 DEF h

--------------------------------------------------------------------------------
(* Moves of one job *)

Ahead(i, k) == InOrder(queue, i, k)

\* A job is in the queue, once, exactly while it has a command outstanding.
Queued ==
    /\ NoDuplicates(queue)
    /\ \A j \in AllJobs : In(queue, j) <=> job[j].pc \in Commands

Orderly == PresenceTypes /\ Queued

Others(j) ==
    /\ \A i \in AllJobs : i # j => job'[i] = job[i]
    /\ SameButFor(j, queue, queue')

JobsOrderly == job \in [AllJobs -> Tasks] /\ queue \in Seq(AllJobs) /\ Queued

LEMMA JobsOfOrderly ==
    ASSUME Orderly
    PROVE  JobsOrderly
BY DEF Orderly, PresenceTypes, JobsOrderly

\* A job that had nothing outstanding sends a command.
LEMMA Entering ==
    ASSUME JobsOrderly, NEW j \in AllJobs, job[j].pc \notin Commands,
           NEW x \in Tasks, x.pc \in Commands,
           job' = [job EXCEPT ![j] = x], queue' = Append(queue, j)
    PROVE  /\ JobsOrderly' /\ Others(j) /\ job'[j] = x /\ LastIn(j, queue')
<1>1. job \in [AllJobs -> Tasks] /\ queue \in Seq(AllJobs) /\ NoDuplicates(queue)
      /\ ~In(queue, j)
  BY DEF JobsOrderly, Queued
<1>2. /\ job' \in [AllJobs -> Tasks] /\ job'[j] = x
      /\ \A i \in AllJobs : i # j => job'[i] = job[i]
  BY <1>1
<1>3. /\ queue' \in Seq(AllJobs)
      /\ NoDuplicates(queue') /\ SameButFor(j, queue, queue') /\ LastIn(j, queue')
  BY <1>1, AppendedOrder
<1>4. \A i \in AllJobs : In(queue', i) <=> job'[i].pc \in Commands
  BY <1>2, <1>3 DEF JobsOrderly, Queued, SameButFor, LastIn
<1> QED BY <1>2, <1>3, <1>4 DEF JobsOrderly, Queued, Others

\* The job at the head goes on with another command.
LEMMA Rotating ==
    ASSUME JobsOrderly, NEW j \in AllJobs, queue # <<>>, Head(queue) = j,
           NEW x \in Tasks, x.pc \in Commands,
           job' = [job EXCEPT ![j] = x], queue' = Append(Tail(queue), j)
    PROVE  /\ JobsOrderly' /\ Others(j) /\ job'[j] = x /\ LastIn(j, queue')
           /\ \A i : ~Ahead(i, j)
<1>1. job \in [AllJobs -> Tasks] /\ queue \in Seq(AllJobs) /\ NoDuplicates(queue)
  BY DEF JobsOrderly, Queued
<1>2. /\ job' \in [AllJobs -> Tasks] /\ job'[j] = x
      /\ \A i \in AllJobs : i # j => job'[i] = job[i]
  BY <1>1
<1>3. /\ queue' \in Seq(AllJobs)
      /\ NoDuplicates(queue') /\ SameButFor(j, queue, queue') /\ LastIn(j, queue')
  BY <1>1, RotatedOrder
<1>4. \A i : ~Ahead(i, j)
  BY <1>1, TailOrder DEF Ahead
<1>5. \A i \in AllJobs : In(queue', i) <=> job'[i].pc \in Commands
  BY <1>2, <1>3 DEF JobsOrderly, Queued, SameButFor, LastIn
<1> QED BY <1>2, <1>3, <1>4, <1>5 DEF JobsOrderly, Queued, Others

\* The job at the head is done with Redis.
LEMMA Leaving ==
    ASSUME JobsOrderly, NEW j \in AllJobs, queue # <<>>, Head(queue) = j,
           NEW x \in Tasks, x.pc \notin Commands,
           job' = [job EXCEPT ![j] = x], queue' = Tail(queue)
    PROVE  /\ JobsOrderly' /\ Others(j) /\ job'[j] = x
           /\ \A i : ~Ahead(i, j)
<1>1. job \in [AllJobs -> Tasks] /\ queue \in Seq(AllJobs) /\ NoDuplicates(queue)
  BY DEF JobsOrderly, Queued
<1>2. /\ job' \in [AllJobs -> Tasks] /\ job'[j] = x
      /\ \A i \in AllJobs : i # j => job'[i] = job[i]
  BY <1>1
<1>3. /\ queue' \in Seq(AllJobs) /\ ~In(queue', j)
      /\ NoDuplicates(queue') /\ SameButFor(j, queue, queue')
      /\ \A i : ~Ahead(i, j)
  BY <1>1, TailOrder DEF Ahead
<1>4. \A i \in AllJobs : In(queue', i) <=> job'[i].pc \in Commands
  BY <1>2, <1>3 DEF JobsOrderly, Queued, SameButFor
<1> QED BY <1>2, <1>3, <1>4 DEF JobsOrderly, Queued, Others

\* A job goes on without a command before and after.
LEMMA Staying ==
    ASSUME JobsOrderly, NEW j \in AllJobs, job[j].pc \notin Commands,
           NEW x \in Tasks, x.pc \notin Commands,
           job' = [job EXCEPT ![j] = x], queue' = queue
    PROVE  /\ JobsOrderly' /\ Others(j) /\ job'[j] = x
<1>1. job \in [AllJobs -> Tasks]
  BY DEF JobsOrderly
<1>2. /\ job' \in [AllJobs -> Tasks] /\ job'[j] = x
      /\ \A i \in AllJobs : i # j => job'[i] = job[i]
  BY <1>1
<1>3. SameButFor(j, queue, queue')
  BY DEF SameButFor
<1>4. \A i \in AllJobs : In(queue', i) <=> job'[i].pc \in Commands
  BY <1>2 DEF JobsOrderly, Queued
<1> QED BY <1>2, <1>3, <1>4 DEF JobsOrderly, Queued, Others

--------------------------------------------------------------------------------
(* The invariant *)

Off(j) == job[j].newStatus = "offline"

\* j counted a tab and has not set the status it derived from that ...
Stale(j) ==
    \/ job[j].pc = "top"
    \/ job[j].pc \in {"get", "set"} /\ ~Off(j)

\* ... j will count the tabs, or found none and has not set the status.
Taking(j) ==
    \/ job[j].pc \in Counting
    \/ job[j].pc \in {"get", "set"} /\ Off(j)

\* j has set the status to offline, or found it so, and is cleaning up.
Past(j) == Off(j) /\ job[j].pc \notin {"get", "set"}

NoTabs == \A t \in Tabs : tabs[t] = "absent"
Shown == status \notin {"none", "offline"}
Heard == \E j \in AllJobs : job[j].pc \in Beating
Known == tracked \/ Heard

\* The commands j has answered before it has set the status, on its longest way.
Turn(j) ==
    CASE job[j].pc = "zremTab" -> 6
      [] job[j].pc = "zremActivity" -> 5
      [] job[j].pc = "purge" -> 4
      [] job[j].pc \in {"zcard", "top"} -> 3
      [] job[j].pc = "get" -> 2
      [] job[j].pc = "set" -> 1
      [] OTHER -> 0

\* The queue is served in turn: m sets the status, or even reads it, after b sets it.
SetsAfter(b, m) == Turn(b) < Turn(m) \/ (Turn(b) = Turn(m) /\ Ahead(b, m))
GetsAfter(b, m) == Turn(b) + 1 < Turn(m) \/ (Turn(b) + 1 = Turn(m) /\ Ahead(b, m))

\* k has not set the status when m reads it.
Undecided(k, m) ==
    /\ job[k].pc \in {"get", "set"}
    /\ Turn(m) < Turn(k) + 1 \/ (Turn(m) = Turn(k) + 1 /\ Ahead(m, k))
    /\ job[k].pc = "set" => status # "offline"

\* m takes the user offline after b has set a status; or m may find the user
\* offline already, but then nobody will drop the user from presence:tracked.
Spares(b, m) ==
    /\ job[m].pc \in {"zcard", "get"}
    /\ SetsAfter(b, m)
    /\ Known
    /\ \A k \in AllJobs : Off(k) => Undecided(k, m)
Covers(b, m) ==
    /\ Taking(m)
    /\ \/ job[m].pc = "set" /\ SetsAfter(b, m)
       \/ GetsAfter(b, m)
       \/ Spares(b, m)

\* b is about to set a status and nobody is taking the user offline.
Lonely(b) ==
    /\ job[b].pc = "set"
    /\ Known
    /\ \A k \in AllJobs : ~Off(k)

Covered(b) == Lonely(b) \/ \E m \in AllJobs : Covers(b, m)

\* Without a collision nobody takes a user with tabs offline ...
OfflineWithoutTabs == \A k \in AllJobs : Off(k) => NoTabs
\* ... a user with a tab is tracked, or a heartbeat is about to see to that ...
TabsKnown == ~NoTabs => Known
\* ... once the tabs are gone no job that counted one has the last word ...
StaleCovered == NoTabs => \A b \in AllJobs : Stale(b) => Covered(b)
\* ... and who is shown is about to be taken offline, or is tracked and stays so.
ShownWatched ==
    Shown => \/ \E j \in AllJobs : Taking(j)
             \/ Known /\ \A k \in AllJobs : ~Past(k)

PresenceInv ==
    /\ Orderly
    /\ ~collided => OfflineWithoutTabs /\ TabsKnown /\ StaleCovered /\ ShownWatched

--------------------------------------------------------------------------------
(* What a step of j does to the other jobs *)

LEMMA Kept ==
    ASSUME NEW j \in AllJobs, Others(j), NEW i \in AllJobs, i # j
    PROVE  /\ job'[i] = job[i]
           /\ Off(i)' <=> Off(i)
           /\ Stale(i)' <=> Stale(i)
           /\ Taking(i)' <=> Taking(i)
           /\ Past(i)' <=> Past(i)
           /\ Turn(i)' = Turn(i)
<1>1. job'[i] = job[i]  BY DEF Others
<1> QED BY <1>1 DEF Off, Stale, Taking, Past, Turn

LEMMA OrderKept ==
    ASSUME NEW j \in AllJobs, Others(j),
           NEW i \in AllJobs, NEW k \in AllJobs, i # j, k # j
    PROVE  /\ Ahead(i, k) => Ahead(i, k)'
           /\ SetsAfter(i, k) => SetsAfter(i, k)'
           /\ GetsAfter(i, k) => GetsAfter(i, k)'
           /\ (status' = status \/ status' # "offline")
                 /\ Undecided(i, k) => Undecided(i, k)'
<1>1. /\ Ahead(i, k) => Ahead(i, k)'
      /\ Ahead(k, i) => Ahead(k, i)'
  BY DEF Others, SameButFor, Ahead
<1>2. /\ Turn(i)' = Turn(i) /\ Turn(k)' = Turn(k)
      /\ job'[i] = job[i]
  BY Kept
<1>3. SetsAfter(i, k) => SetsAfter(i, k)'  BY <1>1, <1>2 DEF SetsAfter
<1>4. GetsAfter(i, k) => GetsAfter(i, k)'  BY <1>1, <1>2 DEF GetsAfter
<1>5. ASSUME status' = status \/ status' # "offline", Undecided(i, k)
      PROVE  Undecided(i, k)'
  BY <1>1, <1>2, <1>5 DEF Undecided
<1> QED BY <1>1, <1>3, <1>4, <1>5

\* A stale job that does not move stays covered unless a taking job moves.
LEMMA StaysCovered ==
    ASSUME NEW j \in AllJobs, Others(j), ~Taking(j),
           status' = status \/ status' # "offline",
           Off(j)' => Past(j), Known => Known' \/ Past(j),
           NEW b \in AllJobs, b # j, Covered(b)
    PROVE  Covered(b)'
<1>1. Past(j) => Off(j) /\ job[j].pc \notin {"get", "set"}  BY DEF Past
<1>2. ASSUME Lonely(b) PROVE Lonely(b)'
  <2>1. job[b].pc = "set" /\ Known /\ \A k \in AllJobs : ~Off(k)
    BY <1>2 DEF Lonely
  <2>2. job'[b].pc = "set"  BY <2>1, Kept
  <2>3. Known'  BY <1>1, <2>1
  <2>4. ASSUME NEW k \in AllJobs PROVE ~Off(k)'
    BY <1>1, <2>1, Kept
  <2> QED BY <2>2, <2>3, <2>4 DEF Lonely
<1>3. ASSUME NEW m \in AllJobs, Covers(b, m) PROVE Covers(b, m)'
  <2>1. m # j /\ Taking(m)  BY <1>3 DEF Covers
  <2>2. Taking(m)' /\ job'[m] = job[m]  BY <2>1, Kept
  <2>3. CASE job[m].pc = "set" /\ SetsAfter(b, m)
    BY <2>1, <2>2, <2>3, OrderKept DEF Covers
  <2>4. CASE GetsAfter(b, m)
    BY <2>1, <2>2, <2>4, OrderKept DEF Covers
  <2>5. CASE Spares(b, m)
    <3>1. /\ job[m].pc \in {"zcard", "get"} /\ SetsAfter(b, m) /\ Known
          /\ \A k \in AllJobs : Off(k) => Undecided(k, m)
      BY <2>5 DEF Spares
    <3>2. \A k \in AllJobs : Off(k) => job[k].pc \in {"get", "set"}
      BY <3>1 DEF Undecided
    <3>3. ~Past(j)  BY <1>1, <3>2
    <3>4. Known' /\ SetsAfter(b, m)'  BY <2>1, <3>1, <3>3, OrderKept
    <3>5. ASSUME NEW k \in AllJobs, Off(k)' PROVE Undecided(k, m)'
      <4>1. k # j  BY <3>3, <3>5
      <4>2. Off(k)  BY <3>5, <4>1, Kept
      <4> QED BY <2>1, <3>1, <4>1, <4>2, OrderKept
    <3>6. Spares(b, m)'  BY <2>2, <3>1, <3>4, <3>5 DEF Spares
    <3> QED BY <2>2, <3>6 DEF Covers
  <2> QED BY <1>3, <2>3, <2>4, <2>5 DEF Covers
<1> QED BY <1>2, <1>3 DEF Covered

--------------------------------------------------------------------------------
(* What a step of the head of the queue does to the stale jobs *)

Foremost(j) == \A i : ~Ahead(i, j)

Turns == {"top", "get", "set"} \cup Counting

\* Turns are numbers, and those of stale jobs are between 1 and 3.
LEMMA TurnValues ==
    ASSUME NEW i \in AllJobs
    PROVE  /\ Turn(i) \in 0..6
           /\ Stale(i) => Turn(i) \in 1..3 /\ job[i].pc \in Commands
           /\ Stale(i) /\ Turn(i) = 1 => job[i].pc = "set"
           /\ Taking(i) => job[i].pc \in Commands
           /\ job[i].pc = "set" => Turn(i) = 1
           /\ job[i].pc = "get" => Turn(i) = 2
           /\ job[i].pc = "zcard" => Turn(i) = 3
           /\ job[i].pc \in Counting => Turn(i) > 2
           /\ job[i].pc \in Counting /\ Turn(i) = 3 => job[i].pc = "zcard"
BY DEF Turn, Stale, Taking, Commands, Counting

\* The job that moved to the end of the queue has the others ahead of it.
LEMMA AllAhead ==
    ASSUME JobsOrderly', NEW j \in AllJobs, LastIn(j, queue'),
           NEW i \in AllJobs, i # j, job'[i].pc \in Commands
    PROVE  Ahead(i, j)'
<1>1. In(queue', i)  BY DEF JobsOrderly, Queued
<1> QED BY <1>1 DEF LastIn, Ahead

\* A stale job that moves on stays before the job it is covered by.
LEMMA MovesCovered ==
    ASSUME NEW j \in AllJobs, Others(j), Stale(j), ~Off(j),
           job[j].pc \in {"top", "get"}, Turn(j)' + 1 = Turn(j), ~Off(j)', status' = status, Known => Known',
           Covered(j)
    PROVE  Covered(j)'
<1>1. ~Taking(j) /\ ~Off(j) /\ ~Lonely(j)
  BY DEF Stale, Taking, Counting, Lonely
<1>2. PICK m \in AllJobs : Covers(j, m)  BY <1>1 DEF Covered
<1>3. Taking(m) /\ m # j  BY <1>1, <1>2 DEF Covers
<1>4. Taking(m)' /\ job'[m] = job[m] /\ Turn(m)' = Turn(m)  BY <1>3, Kept
<1>5. /\ Turn(j) \in 0..6 /\ Turn(m) \in 0..6
      /\ Turn(j)' \in 0..6
  <2>1. Turn(j)' \in 0..6  BY DEF Turn
  <2> QED BY <2>1, TurnValues
<1>6. SetsAfter(j, m) => SetsAfter(j, m)'  BY <1>4, <1>5 DEF SetsAfter
<1>7. GetsAfter(j, m) => GetsAfter(j, m)'  BY <1>4, <1>5 DEF GetsAfter
<1>8. ASSUME Spares(j, m) PROVE Spares(j, m)'
  <2>1. ASSUME NEW k \in AllJobs, Off(k)' PROVE Undecided(k, m)'
    <3>1. k # j /\ Off(k)  BY <2>1, Kept
    <3>2. Undecided(k, m)  BY <1>8, <3>1 DEF Spares
    <3> QED BY <1>3, <3>1, <3>2, OrderKept
  <2> QED BY <1>4, <1>6, <1>8, <2>1 DEF Spares
<1>9. Covers(j, m)'  BY <1>2, <1>4, <1>6, <1>7, <1>8 DEF Covers
<1> QED BY <1>9 DEF Covered

\* A stale job stays covered by a taking job that does not move.
LEMMA TakingOthers ==
    ASSUME NEW j \in AllJobs, Others(j), status' = status \/ status' # "offline",
           NEW b \in AllJobs, NEW m \in AllJobs, b # j, m # j, Covers(b, m), Known => Known',
           Spares(b, m) /\ Off(j)' => Undecided(j, m)'
    PROVE  Covers(b, m)'
<1>1. Taking(m)' /\ job'[m] = job[m]  BY Kept DEF Covers
<1>2. /\ GetsAfter(b, m) => GetsAfter(b, m)'
      /\ SetsAfter(b, m) => SetsAfter(b, m)'
  BY OrderKept
<1>3. ASSUME Spares(b, m) PROVE Spares(b, m)'
  <2>1. /\ job[m].pc \in {"zcard", "get"} /\ SetsAfter(b, m) /\ Known
        /\ \A k \in AllJobs : Off(k) => Undecided(k, m)
    BY <1>3 DEF Spares
  <2>2. ASSUME NEW k \in AllJobs, Off(k)', k # j PROVE Undecided(k, m)'
    <3>1. Undecided(k, m)  BY <2>1, <2>2, Kept
    <3> QED BY <2>2, <3>1, OrderKept
  <2> QED BY <1>1, <1>2, <1>3, <2>1, <2>2 DEF Spares
<1> QED BY <1>1, <1>2, <1>3 DEF Covers

\* While the tabs are counted, and when none is found.
LEMMA CountingCovers ==
    ASSUME JobsOrderly', NEW j \in AllJobs, Others(j), Foremost(j), LastIn(j, queue'),
           job[j].pc \in Counting, ~Off(j), Turn(j)' + 1 = Turn(j), Taking(j)',
           job[j].pc = "zcard" => job'[j].pc = "get",
           job[j].pc # "zcard" => ~Off(j)',
           status' = status, Known => Known',
           NEW b \in AllJobs, Stale(b), Covered(b)
    PROVE  Covered(b)'
<1>1. b # j  BY DEF Stale, Counting
<1>2. /\ job'[b] = job[b] /\ Turn(b)' = Turn(b)
      /\ Ahead(b, j)'
  <2>1. job'[b] = job[b] /\ Turn(b)' = Turn(b)  BY <1>1, Kept
  <2>2. job[b].pc \in Commands  BY TurnValues
  <2> QED BY <1>1, <2>1, <2>2, AllAhead
<1>3. /\ Turn(j) \in 3..6 /\ Turn(b) \in 1..3
      /\ Turn(j)' \in 0..6
      /\ job[j].pc = "zcard" => Turn(j) = 3
  <2>1. Turn(j)' \in 0..6  BY DEF Turn
  <2> QED BY <2>1, TurnValues
<1>4. ASSUME Lonely(b) PROVE Covered(b)'
  <2>1. job[b].pc = "set" /\ Known /\ \A k \in AllJobs : ~Off(k)  BY <1>4 DEF Lonely
  <2>2. CASE job[j].pc = "zcard"
    <3>1. Turn(b) = 1 /\ Turn(j) = 3  BY <2>1, <2>2, TurnValues
    <3>2. GetsAfter(b, j)'  BY <1>2, <1>3, <3>1 DEF GetsAfter
    <3>3. Covers(b, j)'  BY <3>2 DEF Covers
    <3> QED BY <3>3 DEF Covered
  <2>3. CASE job[j].pc # "zcard"
    <3>1. \A k \in AllJobs : ~Off(k)'  BY <2>1, <2>3, Kept
    <3>2. Lonely(b)'  BY <1>2, <2>1, <3>1 DEF Lonely
    <3> QED BY <3>2 DEF Covered
  <2> QED BY <2>2, <2>3
<1>5. ASSUME NEW m \in AllJobs, Covers(b, m), m # j PROVE Covers(b, m)'
  <2>1. ASSUME Spares(b, m), Off(j)' PROVE Undecided(j, m)'
    <3>1. job'[j].pc = "get"  BY <2>1
    <3>2. Turn(j)' = 2  BY <3>1 DEF Turn
    <3>3. job[m].pc \in {"zcard", "get"}  BY <2>1 DEF Spares
    <3>4. job'[m] = job[m] /\ Turn(m)' \in {2, 3}  BY <1>5, <3>3, Kept, TurnValues
    <3>5. job'[m].pc \in Commands  BY <3>3, <3>4 DEF Commands, Counting
    <3>6. Ahead(m, j)'  BY <1>5, <3>5, AllAhead
    <3> QED BY <3>1, <3>2, <3>4, <3>6 DEF Undecided
  <2> QED BY <1>1, <1>5, <2>1, TakingOthers
<1>6. ASSUME Covers(b, j) PROVE Covers(b, j)'
  <2>1. ~Ahead(b, j) /\ job[j].pc # "set"  BY DEF Foremost, Counting
  <2>2. CASE GetsAfter(b, j)
    <3>1. Turn(b) + 1 < Turn(j)  BY <2>1, <2>2 DEF GetsAfter
    <3>2. GetsAfter(b, j)'  BY <1>2, <1>3, <3>1 DEF GetsAfter
    <3> QED BY <3>2 DEF Covers
  <2>3. CASE Spares(b, j)
    <3>1. /\ job[j].pc = "zcard" /\ SetsAfter(b, j) /\ Known
          /\ \A k \in AllJobs : Off(k) => Undecided(k, j)
      BY <2>3 DEF Spares, Counting
    <3>2. Turn(b) < Turn(j)  BY <2>1, <3>1 DEF SetsAfter
    <3>3. SetsAfter(b, j)'  BY <1>2, <1>3, <3>2 DEF SetsAfter
    <3>4. ASSUME NEW k \in AllJobs, k # j, Off(k)' PROVE Undecided(k, j)'
      <4>1. /\ job'[k] = job[k] /\ Turn(k)' = Turn(k)
            /\ Turn(k) \in 0..6 /\ Undecided(k, j)
        BY <3>1, <3>4, Kept, TurnValues
      <4>2. /\ job[k].pc \in {"get", "set"}
            /\ Turn(j) < Turn(k) + 1 \/ Turn(j) = Turn(k) + 1
            /\ job[k].pc = "set" => status # "offline"
        BY <4>1 DEF Undecided
      <4>3. Turn(j)' < Turn(k)' + 1  BY <1>3, <4>1, <4>2
      <4> QED BY <4>1, <4>2, <4>3 DEF Undecided
    <3>5. Undecided(j, j)'  BY <1>3, <3>1 DEF Undecided
    <3>6. Spares(b, j)'  BY <3>1, <3>3, <3>4, <3>5 DEF Spares
    <3> QED BY <3>6 DEF Covers
  <2> QED BY <1>6, <2>1, <2>2, <2>3 DEF Covers
<1> QED BY <1>4, <1>5, <1>6 DEF Covered

\* Of a stale job and one that takes the user offline at the head of the queue,
\* about to read the status: the stale one sets first, and nothing is decided.
LEMMA ReadsWhenCovering ==
    ASSUME NEW j \in AllJobs, Foremost(j), job[j].pc = "get",
           NEW b \in AllJobs, Stale(b), Covers(b, j)
    PROVE  /\ job[b].pc = "set" /\ Known
           /\ \A k \in AllJobs : Off(k) => /\ job[k].pc \in {"get", "set"}
                                           /\ job[k].pc = "set" => status # "offline"
<1>1. /\ Turn(j) = 2 /\ Turn(b) \in 1..3
      /\ Turn(b) = 1 => job[b].pc = "set"
  BY TurnValues
<1>2. ~Ahead(b, j)  BY DEF Foremost
<1>3. ~GetsAfter(b, j)  BY <1>1, <1>2 DEF GetsAfter
<1>4. Spares(b, j)  BY <1>3 DEF Covers
<1>5. SetsAfter(b, j) /\ Known /\ \A k \in AllJobs : Off(k) => Undecided(k, j)
  BY <1>4 DEF Spares
<1>6. Turn(b) = 1  BY <1>1, <1>2, <1>5 DEF SetsAfter
<1> QED BY <1>1, <1>5, <1>6 DEF Undecided

\* The status is not yet offline: the job will set it, after the stale ones.
LEMMA ReadingCovers ==
    ASSUME JobsOrderly', NEW j \in AllJobs, Others(j), Foremost(j), LastIn(j, queue'),
           job[j].pc = "get", Off(j), job'[j].pc = "set", Off(j)',
           status # "offline", status' = status, Known => Known',
           NEW b \in AllJobs, Stale(b), Covered(b)
    PROVE  Covered(b)'
<1>1. b # j /\ ~Lonely(b)  BY DEF Stale, Lonely
<1>2. Turn(j)' = 1  BY DEF Turn
<1>3. ASSUME NEW m \in AllJobs, m # j, Covers(b, m) PROVE Covers(b, m)'
  <2>1. ASSUME Spares(b, m) PROVE Undecided(j, m)'
    <3>1. job[m].pc \in {"zcard", "get"} /\ Undecided(j, m)  BY <2>1 DEF Spares
    <3>2. job'[m] = job[m] /\ Turn(m)' = Turn(m) /\ Turn(m) \in {2, 3} /\ Turn(j) = 2
      BY <1>3, <3>1, Kept, TurnValues
    <3>3. ~Ahead(m, j)  BY DEF Foremost
    <3>4. Turn(m) = 2  BY <3>1, <3>2, <3>3 DEF Undecided
    <3>5. job'[m].pc \in Commands  BY <3>1, <3>2 DEF Commands, Counting
    <3>6. Ahead(m, j)'  BY <1>3, <3>5, AllAhead
    <3> QED BY <1>2, <3>2, <3>4, <3>6 DEF Undecided
  <2> QED BY <1>1, <1>3, <2>1, TakingOthers
<1>4. ASSUME Covers(b, j) PROVE Covers(b, j)'
  <2>1. job[b].pc = "set"  BY <1>4, ReadsWhenCovering
  <2>2. job'[b] = job[b] /\ Turn(b)' = 1  BY <1>1, <2>1, Kept, TurnValues
  <2>3. job'[b].pc \in Commands  BY <2>1, <2>2 DEF Commands
  <2>4. Ahead(b, j)'  BY <1>1, <2>3, AllAhead
  <2>5. SetsAfter(b, j)'  BY <1>2, <2>2, <2>4 DEF SetsAfter
  <2>6. Taking(j)'  BY DEF Taking
  <2> QED BY <2>5, <2>6 DEF Covers
<1> QED BY <1>1, <1>3, <1>4 DEF Covered

\* The status is offline already: another job sees to it, or none does any more.
LEMMA LeavingCovers ==
    ASSUME NEW j \in AllJobs, Others(j), Foremost(j),
           job[j].pc = "get", Off(j), ~Off(j)',
           status = "offline", status' = status, Known => Known',
           NEW b \in AllJobs, Stale(b), Covered(b)
    PROVE  Covered(b)'
<1>1. b # j /\ ~Lonely(b)  BY DEF Stale, Lonely
<1>2. ASSUME NEW m \in AllJobs, m # j, Covers(b, m) PROVE Covers(b, m)'
  BY <1>1, <1>2, TakingOthers
<1>3. ASSUME Covers(b, j) PROVE Covered(b)'
  <2>1. /\ job[b].pc = "set" /\ Known
        /\ \A k \in AllJobs : Off(k) => job[k].pc = "get"
    BY <1>3, ReadsWhenCovering
  <2>2. job'[b] = job[b] /\ Turn(b)' = 1  BY <1>1, <2>1, Kept, TurnValues
  <2>3. ASSUME NEW k \in AllJobs, Off(k)'
        PROVE  k # j /\ job'[k].pc = "get" /\ Turn(k)' = 2
    <3>1. k # j /\ Off(k)  BY <2>3, Kept
    <3>2. job'[k] = job[k] /\ Turn(k)' = Turn(k) /\ Turn(k) = 2
      BY <2>1, <3>1, Kept, TurnValues
    <3> QED BY <2>1, <3>1, <3>2
  <2>4. CASE \A k \in AllJobs : ~Off(k)'
    <3>1. Lonely(b)'  BY <2>1, <2>2, <2>4 DEF Lonely
    <3> QED BY <3>1 DEF Covered
  <2>5. CASE ~\A k \in AllJobs : ~Off(k)'
    <3>1. PICK k \in AllJobs : Off(k)'  BY <2>5
    <3>2. job'[k].pc = "get" /\ Turn(k)' = 2  BY <2>3, <3>1
    <3>3. SetsAfter(b, k)'  BY <2>2, <3>2 DEF SetsAfter
    <3>4. ASSUME NEW i \in AllJobs, Off(i)' PROVE Undecided(i, k)'
      <4>1. job'[i].pc = "get" /\ Turn(i)' = 2  BY <2>3, <3>4
      <4> QED BY <3>2, <4>1 DEF Undecided
    <3>5. Spares(b, k)'  BY <2>1, <3>2, <3>3, <3>4 DEF Spares
    <3>6. Taking(k)'  BY <3>1, <3>2 DEF Taking
    <3>7. Covers(b, k)'  BY <3>5, <3>6 DEF Covers
    <3> QED BY <3>7 DEF Covered
  <2> QED BY <2>4, <2>5
<1> QED BY <1>1, <1>2, <1>3 DEF Covered

\* The status becomes offline: the jobs still stale are covered by others.
LEMMA SettingCovers ==
    ASSUME NEW j \in AllJobs, Others(j), Foremost(j),
           job[j].pc = "set", Off(j), status' = "offline", Known => Known',
           NEW b \in AllJobs, Stale(b), Covered(b)
    PROVE  Covered(b)'
<1>1. b # j /\ ~Lonely(b)  BY DEF Stale, Lonely
<1>2. PICK m \in AllJobs : Covers(b, m)  BY <1>1 DEF Covered
<1>3. /\ Turn(j) = 1 /\ Turn(b) \in 1..3 /\ Turn(m) \in 0..6
      /\ job[m].pc \in {"zcard", "get"} => Turn(m) \in {2, 3}
  BY TurnValues
<1>4. ~Ahead(b, j) /\ ~Ahead(m, j)  BY DEF Foremost
<1>5. ~Spares(b, m)
  <2>1. SUFFICES ASSUME Spares(b, m) PROVE FALSE  OBVIOUS
  <2>2. Undecided(j, m) /\ Turn(m) \in {2, 3}  BY <1>3, <2>1 DEF Spares
  <2> QED BY <1>3, <1>4, <2>2 DEF Undecided
<1>6. m # j
  BY <1>2, <1>3, <1>4, <1>5 DEF Covers, SetsAfter, GetsAfter
<1>7. /\ Taking(m)' /\ job'[m] = job[m]
      /\ GetsAfter(b, m) => GetsAfter(b, m)'
      /\ SetsAfter(b, m) => SetsAfter(b, m)'
  BY <1>1, <1>2, <1>6, Kept, OrderKept DEF Covers
<1>8. Covers(b, m)'  BY <1>2, <1>5, <1>7 DEF Covers
<1> QED BY <1>8 DEF Covered

--------------------------------------------------------------------------------
(* The parts of the invariant *)

LEMMA HeardKept ==
    ASSUME NEW j \in AllJobs, Others(j), tracked => tracked',
           job[j].pc \notin Beating \/ job'[j].pc \in Beating
    PROVE  Known => Known'
<1>1. ASSUME Heard PROVE Heard'
  <2>1. PICK i \in AllJobs : job[i].pc \in Beating  BY <1>1 DEF Heard
  <2>2. job'[i].pc \in Beating  BY <2>1, Kept
  <2> QED BY <2>2 DEF Heard, Beating
<1> QED BY <1>1 DEF Known

LEMMA KeepsOffline ==
    ASSUME OfflineWithoutTabs, NEW j \in AllJobs, Others(j),
           Off(j)' => NoTabs, NoTabs => NoTabs'
    PROVE  OfflineWithoutTabs'
<1>1. ASSUME NEW k \in AllJobs, Off(k)' PROVE NoTabs'
  <2>1. NoTabs  BY <1>1, Kept DEF OfflineWithoutTabs
  <2> QED BY <2>1
<1> QED BY <1>1 DEF OfflineWithoutTabs

LEMMA KeepsTabsKnown ==
    ASSUME OfflineWithoutTabs, TabsKnown, NEW j \in AllJobs,
           NoTabs => NoTabs', Known => Known' \/ Past(j)
    PROVE  TabsKnown'
BY DEF TabsKnown, OfflineWithoutTabs, Past

LEMMA KeepsWatched ==
    ASSUME OfflineWithoutTabs, TabsKnown, ShownWatched, NEW j \in AllJobs, Others(j),
           Shown' => Shown,
           Taking(j) /\ Shown' /\ NoTabs => Taking(j)',
           Past(j)' /\ Shown' => Past(j),
           Known => Known' \/ Past(j)
    PROVE  ShownWatched'
<1>1. SUFFICES ASSUME Shown'
      PROVE  (\E i \in AllJobs : Taking(i)') \/ (Known' /\ \A k \in AllJobs : ~Past(k)')
  BY DEF ShownWatched
<1>2. ASSUME Known, \A k \in AllJobs : ~Past(k)
      PROVE  Known' /\ \A k \in AllJobs : ~Past(k)'
  <2>1. ASSUME NEW k \in AllJobs PROVE ~Past(k)'
    BY <1>1, <1>2, Kept
  <2> QED BY <1>2, <2>1
<1>3. CASE ~NoTabs
  <2>1. Known /\ \A k \in AllJobs : ~Past(k)
    BY <1>3 DEF TabsKnown, OfflineWithoutTabs, Past
  <2> QED BY <1>2, <2>1
<1>4. CASE NoTabs /\ \E i \in AllJobs : Taking(i)
  <2>1. PICK i \in AllJobs : Taking(i)  BY <1>4
  <2>2. Taking(i)'  BY <1>1, <1>4, <2>1, Kept
  <2> QED BY <2>2
<1>5. CASE Known /\ \A k \in AllJobs : ~Past(k)
  BY <1>2, <1>5
<1> QED BY <1>1, <1>3, <1>4, <1>5 DEF ShownWatched

\* A step of a job that is not about to set the status, before or after.
LEMMA BystanderStep ==
    ASSUME PresenceInv, NEW j \in AllJobs, Orderly', Others(j), collided => collided',
           ~Taking(j), ~Stale(j)', Off(j)' => Past(j),
           Known => Known' \/ Past(j), status' = status,
           ~collided' => (NoTabs => NoTabs') \/ (Known' /\ \A k \in AllJobs : ~Off(k)'),
           NoTabs' => NoTabs \/ Off(j)
    PROVE  PresenceInv'
<1>1. SUFFICES ASSUME ~collided'
      PROVE  OfflineWithoutTabs' /\ TabsKnown' /\ StaleCovered' /\ ShownWatched'
  BY DEF PresenceInv
<1>2. /\ OfflineWithoutTabs /\ TabsKnown /\ StaleCovered /\ ShownWatched
      /\ Past(j) => Off(j)
  BY <1>1 DEF PresenceInv, Past
<1>3. OfflineWithoutTabs' /\ TabsKnown'
  <2>1. CASE NoTabs => NoTabs'
    <3>1. Off(j)' => NoTabs  BY <1>2 DEF OfflineWithoutTabs
    <3> QED BY <1>2, <2>1, <3>1, KeepsOffline, KeepsTabsKnown
  <2>2. CASE Known' /\ \A k \in AllJobs : ~Off(k)'
    BY <2>2 DEF OfflineWithoutTabs, TabsKnown
  <2> QED BY <1>1, <2>1, <2>2
<1>4. StaleCovered'
  <2>1. SUFFICES ASSUME NoTabs', NEW b \in AllJobs, Stale(b)' PROVE Covered(b)'
    BY DEF StaleCovered
  <2>2. NoTabs  BY <1>2, <2>1 DEF OfflineWithoutTabs
  <2>3. b # j /\ Stale(b)  BY <2>1, Kept
  <2>4. Covered(b)  BY <1>2, <2>2, <2>3 DEF StaleCovered
  <2> QED BY <2>3, <2>4, StaysCovered
<1>5. ShownWatched'
  <2>1. Shown' => Shown  BY DEF Shown
  <2>2. Past(j)' => Past(j)  BY DEF Past, Off
  <2> QED BY <1>2, <2>1, <2>2, KeepsWatched
<1> QED BY <1>3, <1>4, <1>5

\* Such a step that touches neither the tabs nor presence:tracked.
LEMMA QuietStep ==
    ASSUME PresenceInv, NEW j \in AllJobs, JobsOrderly', Others(j),
           UNCHANGED <<tabs, tracked, status, collided>>,
           ~Taking(j), ~Stale(j)', Off(j)' => Past(j), job[j].pc \notin Beating
    PROVE  PresenceInv'
<1>1. tabs' = tabs /\ status' = status  OBVIOUS
<1>2. (tracked' <=> tracked) /\ (collided' <=> collided)  OBVIOUS
<1>3. Orderly'
  BY <1>1 DEF PresenceInv, Orderly, PresenceTypes, JobsOrderly
<1>4. NoTabs' <=> NoTabs  BY <1>1 DEF NoTabs
<1>5. Known => Known'  BY <1>2, HeardKept
<1> QED BY <1>1, <1>2, <1>3, <1>4, <1>5, BystanderStep

--------------------------------------------------------------------------------
(* The commands *)

Consistent(pc, newStatus) ==
    /\ pc \in {"get", "set", "friends"} => newStatus # "none"
    /\ pc \in Clearing => newStatus = "offline"
    /\ pc \notin Clearing \cup {"get", "set", "friends"} => newStatus = "none"

Moved(j, pc, newStatus) ==
    /\ JobsOrderly' /\ Others(j)
    /\ job'[j].pc = pc /\ job'[j].newStatus = newStatus

LEMMA TaskFacts ==
    ASSUME JobsOrderly, NEW j \in AllJobs
    PROVE  /\ job[j] \in Tasks
           /\ job[j].pc \in Doings /\ job[j].newStatus \in Derivations
           /\ Consistent(job[j].pc, job[j].newStatus)
<1>1. job[j] \in Tasks  BY DEF JobsOrderly
<1> QED BY <1>1 DEF Tasks, Consistent

LEMMA ChangedPc ==
    ASSUME NEW x \in Tasks, NEW pc \in Doings, Consistent(pc, x.newStatus)
    PROVE  LET y == [x EXCEPT !.pc = pc]
           IN  y \in Tasks /\ y.pc = pc /\ y.newStatus = x.newStatus
BY DEF Tasks, Consistent

LEMMA IdleTask ==
    ASSUME NEW t \in Tabs \cup {SomeTab}
    PROVE  /\ Idle(t) \in Tasks /\ Idle(t).pc = "idle" /\ Idle(t).newStatus = "none"
BY DEF Idle, Tasks, Doings, Derivations, Clearing

LEMMA Sending ==
    ASSUME JobsOrderly, NEW j \in AllJobs, NEW x \in Tasks, x.pc \in Commands, Send(j, x)
    PROVE  /\ Moved(j, x.pc, x.newStatus)
           /\ job[j].pc = "idle" /\ job[j].newStatus = "none"
<1>1. /\ job[j].pc = "idle"
      /\ job' = [job EXCEPT ![j] = x] /\ queue' = Append(queue, j)
  BY DEF Send
<1>2. job[j].pc \notin Commands  BY <1>1 DEF Commands, Counting, Beating, Clearing
<1>3. JobsOrderly' /\ Others(j) /\ job'[j] = x  BY <1>1, <1>2, Entering
<1>4. job[j].newStatus = "none"  BY <1>1, TaskFacts DEF Consistent, Clearing
<1> QED BY <1>1, <1>3, <1>4 DEF Moved

LEMMA Continuing ==
    ASSUME JobsOrderly, NEW j \in AllJobs, NEW pc \in Commands,
           queue # <<>>, Head(queue) = j, Continue(j, pc), Consistent(pc, job[j].newStatus)
    PROVE  /\ Moved(j, pc, job[j].newStatus)
           /\ LastIn(j, queue') /\ Foremost(j)
<1> DEFINE x == [job[j] EXCEPT !.pc = pc]
<1>1. x \in Tasks /\ x.pc = pc /\ x.newStatus = job[j].newStatus
  BY TaskFacts, ChangedPc DEF Doings
<1>2. job' = [job EXCEPT ![j] = x] /\ queue' = Append(Tail(queue), j)
  BY DEF Continue
<1> HIDE DEF x
<1>3. /\ JobsOrderly' /\ Others(j) /\ job'[j] = x /\ LastIn(j, queue')
      /\ \A i : ~Ahead(i, j)
  BY <1>1, <1>2, Rotating
<1> QED BY <1>1, <1>3 DEF Moved, Foremost

LEMMA Deriving ==
    ASSUME JobsOrderly, NEW j \in AllJobs, NEW new \in {"online", "afk", "offline"},
           queue # <<>>, Head(queue) = j, Derived(j, new)
    PROVE  /\ Moved(j, "get", new)
           /\ LastIn(j, queue') /\ Foremost(j)
<1> DEFINE x == [job[j] EXCEPT !.pc = "get", !.newStatus = new]
<1>1. /\ "get" \in Doings /\ new \in Derivations /\ Consistent("get", new)
      /\ "get" \in Commands
  BY DEF Doings, Derivations, Consistent, Commands, Clearing
<1>2. x \in Tasks /\ x.pc = "get" /\ x.newStatus = new
  <2>1. PICK y \in Tasks : y = job[j]  BY TaskFacts
  <2>2. x = [y EXCEPT !.pc = "get", !.newStatus = new]  BY <2>1
  <2> HIDE DEF x
  <2> QED BY <1>1, <2>2 DEF Tasks, Consistent
<1>3. job' = [job EXCEPT ![j] = x] /\ queue' = Append(Tail(queue), j)
  BY DEF Derived
<1> HIDE DEF x
<1>4. /\ JobsOrderly' /\ Others(j) /\ job'[j] = x /\ LastIn(j, queue')
      /\ \A i : ~Ahead(i, j)
  BY <1>1, <1>2, <1>3, Rotating
<1> QED BY <1>2, <1>4 DEF Moved, Foremost

LEMMA LeavingIdle ==
    ASSUME JobsOrderly, NEW j \in AllJobs, queue # <<>>, Head(queue) = j, Leave(j, "idle")
    PROVE  Moved(j, "idle", "none") /\ Foremost(j)
<1>1. /\ Idle(SomeTab) \in Tasks /\ Idle(SomeTab).newStatus = "none"
      /\ Idle(SomeTab).pc = "idle" /\ "idle" \notin Commands
  BY IdleTask DEF Commands, Counting, Beating, Clearing
<1>2. job' = [job EXCEPT ![j] = Idle(SomeTab)] /\ queue' = Tail(queue)
  BY DEF Leave
<1>3. /\ JobsOrderly' /\ Others(j) /\ job'[j] = Idle(SomeTab)
      /\ \A i : ~Ahead(i, j)
  BY <1>1, <1>2, Leaving
<1> QED BY <1>1, <1>3 DEF Moved, Foremost

LEMMA LeavingTo ==
    ASSUME JobsOrderly, NEW j \in AllJobs, NEW pc \in {"otherUsers", "friends"},
           queue # <<>>, Head(queue) = j, Leave(j, pc), Consistent(pc, job[j].newStatus)
    PROVE  Moved(j, pc, job[j].newStatus) /\ Foremost(j)
<1> DEFINE x == [job[j] EXCEPT !.pc = pc]
<1>1. /\ x \in Tasks /\ x.pc = pc /\ x.newStatus = job[j].newStatus
      /\ pc \notin Commands
  BY TaskFacts, ChangedPc DEF Doings, Commands, Counting, Beating, Clearing
<1>2. job' = [job EXCEPT ![j] = x] /\ queue' = Tail(queue)
  BY DEF Leave
<1> HIDE DEF x
<1>3. /\ JobsOrderly' /\ Others(j) /\ job'[j] = x
      /\ \A i : ~Ahead(i, j)
  BY <1>1, <1>2, Leaving
<1> QED BY <1>1, <1>3 DEF Moved, Foremost

--------------------------------------------------------------------------------
(* Steps that touch no job *)

LEMMA NoJobMoves ==
    ASSUME PresenceInv, Orderly', UNCHANGED <<tracked, status, queue, job, collided>>,
           NoTabs' <=> NoTabs
    PROVE  PresenceInv'
<1>1. job' = job /\ queue' = queue /\ status' = status  OBVIOUS
<1>2. (tracked' <=> tracked) /\ (collided' <=> collided)  OBVIOUS
<1>3. ASSUME NEW i \in AllJobs
      PROVE  /\ Off(i)' <=> Off(i)
             /\ Stale(i)' <=> Stale(i)
             /\ Taking(i)' <=> Taking(i)
             /\ Past(i)' <=> Past(i)
             /\ Turn(i)' = Turn(i)
             /\ \A k \in AllJobs : Ahead(i, k)' <=> Ahead(i, k)
  BY <1>1 DEF Off, Stale, Taking, Past, Turn, Ahead
<1>4. Heard' <=> Heard  BY <1>1 DEF Heard
<1>5. Known' <=> Known  BY <1>2, <1>4 DEF Known
<1>6. ASSUME NEW b \in AllJobs, NEW m \in AllJobs
      PROVE  /\ SetsAfter(b, m)' <=> SetsAfter(b, m)
             /\ GetsAfter(b, m)' <=> GetsAfter(b, m)
             /\ Undecided(b, m)' <=> Undecided(b, m)
  <2>1. SetsAfter(b, m)' <=> SetsAfter(b, m)  BY <1>3 DEF SetsAfter
  <2>2. GetsAfter(b, m)' <=> GetsAfter(b, m)  BY <1>3 DEF GetsAfter
  <2>3. Undecided(b, m)' <=> Undecided(b, m)  BY <1>1, <1>3 DEF Undecided
  <2> QED BY <2>1, <2>2, <2>3
<1>7. ASSUME NEW b \in AllJobs, NEW m \in AllJobs
      PROVE  Spares(b, m)' <=> Spares(b, m)
  BY <1>1, <1>3, <1>5, <1>6 DEF Spares
<1>8. ASSUME NEW b \in AllJobs, NEW m \in AllJobs
      PROVE  Covers(b, m)' <=> Covers(b, m)
  BY <1>1, <1>3, <1>6, <1>7 DEF Covers
<1>9. ASSUME NEW b \in AllJobs PROVE Lonely(b)' <=> Lonely(b)
  BY <1>1, <1>3, <1>5 DEF Lonely
<1>10. ASSUME NEW b \in AllJobs PROVE Covered(b)' <=> Covered(b)
  BY <1>8, <1>9 DEF Covered
<1>11. OfflineWithoutTabs' <=> OfflineWithoutTabs  BY <1>3 DEF OfflineWithoutTabs
<1>12. TabsKnown' <=> TabsKnown  BY <1>5 DEF TabsKnown
<1>13. StaleCovered' <=> StaleCovered  BY <1>3, <1>10 DEF StaleCovered
<1>14. ShownWatched' <=> ShownWatched
  <2>1. Shown' <=> Shown  BY <1>1 DEF Shown
  <2> QED BY <2>1, <1>3, <1>5 DEF ShownWatched
<1> QED BY <1>2, <1>11, <1>12, <1>13, <1>14 DEF PresenceInv

LEMMA VanishStep ==
    ASSUME PresenceInv, NEW t \in Tabs, Vanish(t)
    PROVE  PresenceInv'
<1>1. UNCHANGED <<tabs, tracked, status, queue, job, collided>>
  BY DEF Vanish, redis
<1>2. Orderly' /\ (NoTabs' <=> NoTabs)
  BY <1>1 DEF PresenceInv, Orderly, PresenceTypes, Queued, NoTabs
<1> QED BY <1>1, <1>2, NoJobMoves

LEMMA AgeActivityStep ==
    ASSUME PresenceInv, NEW t \in Tabs, AgeActivity(t)
    PROVE  PresenceInv'
<1>1. UNCHANGED <<tabs, tracked, status, queue, job, collided>>
  BY DEF AgeActivity
<1>2. Orderly' /\ (NoTabs' <=> NoTabs)
  BY <1>1 DEF PresenceInv, Orderly, PresenceTypes, Queued, NoTabs
<1> QED BY <1>1, <1>2, NoJobMoves

LEMMA ExpireTabStep ==
    ASSUME PresenceInv, NEW t \in Tabs, ExpireTab(t)
    PROVE  PresenceInv'
<1>1. /\ tabs[t] = "live" /\ tabs' = [tabs EXCEPT ![t] = "expired"]
      /\ UNCHANGED <<tracked, status, queue, job, collided>>
  BY DEF ExpireTab
<1>2. tabs = [u \in Tabs |-> tabs[u]]
  BY DEF PresenceInv, Orderly, PresenceTypes
<1>3. tabs' = [u \in Tabs |-> tabs'[u]] /\ tabs'[t] = "expired"
  BY <1>1, <1>2
<1>4. ~NoTabs /\ ~NoTabs'
  BY <1>1, <1>3 DEF NoTabs
<1>5. Orderly'
  BY <1>1, <1>3 DEF PresenceInv, Orderly, PresenceTypes, Queued
<1> QED BY <1>1, <1>4, <1>5, NoJobMoves

--------------------------------------------------------------------------------
(* Steps of jobs that are not about to set the status *)

LEMMA SendStep ==
    ASSUME PresenceInv, NEW j \in AllJobs, NEW x \in Tasks,
           x.pc \in {"zaddTab", "zremTab", "smembers"}, Send(j, x),
           UNCHANGED <<tabs, tracked, status, collided>>
    PROVE  PresenceInv'
<1>1. JobsOrderly  BY JobsOfOrderly DEF PresenceInv
<1>2. x.pc \in Commands /\ x.newStatus = "none"
  BY DEF Tasks, Commands, Counting, Beating, Clearing
<1>3. /\ JobsOrderly' /\ Others(j)
      /\ job'[j].pc \in {"zaddTab", "zremTab", "smembers"} /\ job'[j].newStatus = "none"
      /\ job[j].pc = "idle"
  BY <1>1, <1>2, Sending DEF Moved
<1>4. ~Taking(j) /\ ~Stale(j)' /\ ~Off(j)' /\ job[j].pc \notin Beating
  BY <1>3 DEF Taking, Stale, Off, Beating, Counting
<1> QED BY <1>3, <1>4, QuietStep

LEMMA BrowserTasks ==
    ASSUME NEW t \in Tabs \cup {SomeTab}, NEW isActive \in BOOLEAN
    PROVE  /\ [Idle(t) EXCEPT !.pc = "zaddTab", !.isActive = isActive] \in Tasks
           /\ [Idle(t) EXCEPT !.pc = "zaddTab", !.isActive = isActive].pc = "zaddTab"
           /\ [Idle(t) EXCEPT !.pc = "zremTab"] \in Tasks
           /\ [Idle(t) EXCEPT !.pc = "zremTab"].pc = "zremTab"
           /\ [Idle(t) EXCEPT !.pc = "smembers"] \in Tasks
           /\ [Idle(t) EXCEPT !.pc = "smembers"].pc = "smembers"
BY DEF Idle, Tasks, Doings, Commands, Counting, Beating, Clearing, Derivations

LEMMA OpenStep ==
    ASSUME PresenceInv, NEW j \in Jobs, NEW t \in Tabs, Open(j, t)
    PROVE  PresenceInv'
<1>1. /\ Send(j, [Idle(t) EXCEPT !.pc = "zaddTab", !.isActive = TRUE])
      /\ UNCHANGED <<tabs, tracked, status, collided>> /\ j \in AllJobs
  BY DEF Open, redis, AllJobs
<1> QED BY <1>1, BrowserTasks, SendStep

LEMMA HeartbeatStep ==
    ASSUME PresenceInv, NEW j \in Jobs, NEW t \in Tabs, NEW isActive \in BOOLEAN,
           Heartbeat(j, t, isActive)
    PROVE  PresenceInv'
<1>1. /\ Send(j, [Idle(t) EXCEPT !.pc = "zaddTab", !.isActive = isActive])
      /\ UNCHANGED <<tabs, tracked, status, collided>> /\ j \in AllJobs
  BY DEF Heartbeat, redis, AllJobs
<1> QED BY <1>1, BrowserTasks, SendStep

LEMMA CloseStep ==
    ASSUME PresenceInv, NEW j \in Jobs, NEW t \in Tabs, Close(j, t)
    PROVE  PresenceInv'
<1>1. /\ Send(j, [Idle(t) EXCEPT !.pc = "zremTab"])
      /\ UNCHANGED <<tabs, tracked, status, collided>> /\ j \in AllJobs
  BY DEF Close, redis, AllJobs
<1> QED BY <1>1, BrowserTasks, SendStep

LEMMA StartSweepStep ==
    ASSUME PresenceInv, NEW j \in Sweepers, StartSweep(j)
    PROVE  PresenceInv'
<1>1. /\ Send(j, [Idle(SomeTab) EXCEPT !.pc = "smembers"])
      /\ UNCHANGED <<tabs, tracked, status, collided>> /\ j \in AllJobs
  BY DEF StartSweep, redis, AllJobs
<1> QED BY <1>1, BrowserTasks, SendStep

LEMMA SmembersStep ==
    ASSUME PresenceInv, NEW j \in AllJobs, Smembers(j)
    PROVE  PresenceInv'
<1>1. /\ queue # <<>> /\ Head(queue) = j /\ job[j].pc = "smembers"
      /\ Leave(j, "otherUsers") \/ Leave(j, "idle")
      /\ UNCHANGED <<tabs, tracked, status, collided>>
  BY DEF Smembers, Answered, redis
<1>2. JobsOrderly  BY JobsOfOrderly DEF PresenceInv
<1>3. job[j].newStatus = "none"  BY <1>1, <1>2, TaskFacts DEF Consistent, Clearing
<1>4. Consistent("otherUsers", "none")  BY DEF Consistent, Clearing
<1>5. /\ JobsOrderly' /\ Others(j)
      /\ job'[j].pc \in {"otherUsers", "idle"} /\ job'[j].newStatus = "none"
  BY <1>1, <1>2, <1>3, <1>4, LeavingTo, LeavingIdle DEF Moved
<1>6. ~Taking(j) /\ ~Stale(j)' /\ ~Off(j)' /\ job[j].pc \notin Beating
  BY <1>1, <1>5 DEF Taking, Stale, Off, Beating, Counting
<1> QED BY <1>1, <1>5, <1>6, QuietStep

LEMMA ReachUserStep ==
    ASSUME PresenceInv, NEW j \in Sweepers, ReachUser(j)
    PROVE  PresenceInv'
<1> DEFINE x == [job[j] EXCEPT !.pc = "purge"]
<1>1. /\ j \in AllJobs /\ job[j].pc = "otherUsers"
      /\ job' = [job EXCEPT ![j] = x] /\ queue' = Append(queue, j)
      /\ UNCHANGED <<tabs, tracked, status, collided>>
  BY DEF ReachUser, redis, AllJobs
<1>2. JobsOrderly  BY JobsOfOrderly DEF PresenceInv
<1>3. job[j].newStatus = "none"  BY <1>1, <1>2, TaskFacts DEF Consistent, Clearing
<1>4. /\ "purge" \in Commands /\ "purge" \in Doings /\ Consistent("purge", "none")
      /\ "otherUsers" \notin Commands
  BY DEF Commands, Doings, Counting, Beating, Clearing, Consistent
<1>5. x \in Tasks /\ x.pc = "purge" /\ x.newStatus = "none"
  BY <1>1, <1>2, <1>3, <1>4, TaskFacts, ChangedPc
<1> HIDE DEF x
<1>6. JobsOrderly' /\ Others(j) /\ job'[j].pc = "purge" /\ job'[j].newStatus = "none"
  BY <1>1, <1>2, <1>4, <1>5, Entering
<1>7. ~Taking(j) /\ ~Stale(j)' /\ ~Off(j)' /\ job[j].pc \notin Beating
  BY <1>1, <1>6 DEF Taking, Stale, Off, Beating, Counting
<1> QED BY <1>1, <1>6, <1>7, QuietStep

LEMMA EmitPresenceChangedStep ==
    ASSUME PresenceInv, NEW j \in AllJobs, EmitPresenceChanged(j)
    PROVE  PresenceInv'
<1>1. /\ job[j].pc = "friends"
      /\ UNCHANGED <<tabs, tracked, status, collided>>
  BY DEF EmitPresenceChanged, redis
<1>2. JobsOrderly  BY JobsOfOrderly DEF PresenceInv
<1>3. /\ "delTabs" \in Commands /\ "delTabs" \in Doings
      /\ "friends" \notin Commands /\ "idle" \notin Commands
      /\ Consistent("delTabs", "offline")
  BY DEF Commands, Doings, Counting, Beating, Clearing, Consistent
<1>4. CASE job[j].newStatus = "offline"
  <2> DEFINE x == [job[j] EXCEPT !.pc = "delTabs"]
  <2>1. job' = [job EXCEPT ![j] = x] /\ queue' = Append(queue, j)
    BY <1>4 DEF EmitPresenceChanged, CleansUp
  <2>2. x \in Tasks /\ x.pc = "delTabs"
    BY <1>2, <1>3, <1>4, TaskFacts, ChangedPc
  <2> HIDE DEF x
  <2>3. JobsOrderly' /\ Others(j) /\ job'[j].pc = "delTabs"
    BY <1>1, <1>2, <1>3, <2>1, <2>2, Entering
  <2>4. ~Taking(j) /\ ~Stale(j)' /\ Past(j) /\ job[j].pc \notin Beating
    BY <1>1, <1>4, <2>3 DEF Taking, Stale, Off, Past, Beating, Counting
  <2> QED BY <1>1, <2>3, <2>4, QuietStep
<1>5. CASE job[j].newStatus # "offline"
  <2>1. job' = [job EXCEPT ![j] = Idle(SomeTab)] /\ queue' = queue
    BY <1>5 DEF EmitPresenceChanged, CleansUp
  <2>2. /\ JobsOrderly' /\ Others(j) /\ job'[j] = Idle(SomeTab)
        /\ Idle(SomeTab).pc = "idle" /\ Idle(SomeTab).newStatus = "none"
    BY <1>1, <1>2, <1>3, <2>1, IdleTask, Staying
  <2>3. ~Taking(j) /\ ~Stale(j)' /\ ~Off(j)' /\ job[j].pc \notin Beating
    BY <1>1, <2>2 DEF Taking, Stale, Off, Beating, Counting
  <2> QED BY <1>1, <2>2, <2>3, QuietStep
<1> QED BY <1>4, <1>5

\* What a heartbeat's write shows while nothing has collided.
LEMMA HeartbeatAlone ==
    ASSUME JobsOrderly, NEW j \in AllJobs, job[j].newStatus = "none", HeartbeatWrite(j)
    PROVE  /\ collided => collided'
           /\ ~collided' => \A k \in AllJobs : ~Off(k)
<1>1. (~TakingOffline(j) /\ ~(job[j].newStatus = "offline")) => \A k \in AllJobs : ~Off(k)
  BY DEF TakingOffline, Off
<1> QED BY <1>1 DEF HeartbeatWrite

LEMMA ZaddTabStep ==
    ASSUME PresenceInv, NEW j \in AllJobs, ZaddTab(j)
    PROVE  PresenceInv'
<1>1. /\ queue # <<>> /\ Head(queue) = j /\ job[j].pc = "zaddTab" /\ HeartbeatWrite(j)
      /\ tabs' = [tabs EXCEPT ![job[j].tab] = "live"]
      /\ Continue(j, "zaddActivity") \/ Continue(j, "sadd")
      /\ UNCHANGED <<tracked, status>> /\ collided' \in BOOLEAN
  BY DEF ZaddTab, Answered, HeartbeatWrite, PresenceInv, Orderly, PresenceTypes
<1>2. JobsOrderly /\ Orderly  BY JobsOfOrderly DEF PresenceInv
<1>3. job[j].newStatus = "none"  BY <1>1, <1>2, TaskFacts DEF Consistent, Clearing
<1>4. /\ "zaddActivity" \in Commands /\ "sadd" \in Commands
      /\ Consistent("zaddActivity", "none") /\ Consistent("sadd", "none")
  BY DEF Commands, Beating, Clearing, Consistent
<1>5. /\ JobsOrderly' /\ Others(j)
      /\ job'[j].pc \in {"zaddActivity", "sadd"} /\ job'[j].newStatus = "none"
  BY <1>1, <1>2, <1>3, <1>4, Continuing DEF Moved
<1>6. Known'
  <2>1. Heard'  BY <1>5 DEF Heard, Beating
  <2> QED BY <2>1 DEF Known
<1>7. ~Taking(j) /\ ~Stale(j)' /\ ~Off(j)'
  BY <1>1, <1>5 DEF Taking, Stale, Off, Counting
<1>8. /\ tabs' = [t \in Tabs |-> tabs'[t]]
      /\ NoTabs' => NoTabs
  BY <1>1, <1>2 DEF Orderly, PresenceTypes, NoTabs
<1>9. /\ collided => collided'
      /\ ~collided' => \A k \in AllJobs : ~Off(k)'
  <2>1. \A k \in AllJobs : ~Off(k) => ~Off(k)'  BY <1>5, <1>7, Kept
  <2> QED BY <1>1, <1>2, <1>3, <2>1, HeartbeatAlone
<1>10. Orderly'
  <2>1. tracked' \in BOOLEAN /\ collided' \in BOOLEAN
    BY <1>1, <1>2 DEF Orderly, PresenceTypes
  <2> QED BY <1>1, <1>2, <1>5, <1>8, <2>1 DEF Orderly, PresenceTypes, JobsOrderly
<1>11. status' = status  BY <1>1
<1> QED BY <1>5, <1>6, <1>7, <1>8, <1>9, <1>10, <1>11, BystanderStep

\* A step that leaves the tabs alone and forgets nobody but what it is past.
LEMMA TabsKeptStep ==
    ASSUME PresenceInv, NEW j \in AllJobs, JobsOrderly', Others(j),
           tabs' = tabs, status' = status, tracked' \in BOOLEAN, collided' \in BOOLEAN,
           collided => collided', Known => Known' \/ Past(j),
           ~Taking(j), ~Stale(j)', Off(j)' => Past(j)
    PROVE  PresenceInv'
<1>1. Orderly'
  BY DEF PresenceInv, Orderly, PresenceTypes, JobsOrderly
<1>2. NoTabs' <=> NoTabs  BY DEF NoTabs
<1> QED BY <1>1, <1>2, BystanderStep

LEMMA ZaddActivityStep ==
    ASSUME PresenceInv, NEW j \in AllJobs, ZaddActivity(j)
    PROVE  PresenceInv'
<1>1. /\ queue # <<>> /\ Head(queue) = j /\ job[j].pc = "zaddActivity" /\ HeartbeatWrite(j)
      /\ Continue(j, "sadd") /\ UNCHANGED <<tabs, tracked, status>>
  BY DEF ZaddActivity, Answered
<1>2. JobsOrderly /\ Orderly  BY JobsOfOrderly DEF PresenceInv
<1>3. job[j].newStatus = "none"  BY <1>1, <1>2, TaskFacts DEF Consistent, Clearing
<1>4. "sadd" \in Commands /\ Consistent("sadd", "none")
  BY DEF Commands, Beating, Clearing, Consistent
<1>5. JobsOrderly' /\ Others(j) /\ job'[j].pc = "sadd" /\ job'[j].newStatus = "none"
  BY <1>1, <1>2, <1>3, <1>4, Continuing DEF Moved
<1>6. Known'
  <2>1. Heard'  BY <1>5 DEF Heard, Beating
  <2> QED BY <2>1 DEF Known
<1>7. ~Taking(j) /\ ~Stale(j)' /\ ~Off(j)'
  BY <1>1, <1>5 DEF Taking, Stale, Off, Counting
<1>8. /\ tracked' \in BOOLEAN /\ collided' \in BOOLEAN /\ (collided => collided')
  BY <1>1, <1>2 DEF HeartbeatWrite, Orderly, PresenceTypes
<1>9. tabs' = tabs /\ status' = status  BY <1>1
<1> QED BY <1>5, <1>6, <1>7, <1>8, <1>9, TabsKeptStep

LEMMA SaddStep ==
    ASSUME PresenceInv, NEW j \in AllJobs, Sadd(j)
    PROVE  PresenceInv'
<1>1. /\ queue # <<>> /\ Head(queue) = j /\ job[j].pc = "sadd" /\ HeartbeatWrite(j)
      /\ Leave(j, "idle") /\ tabs' = tabs /\ status' = status
  BY DEF Sadd, Answered
<1>2. tracked' = TRUE  BY DEF Sadd
<1>3. JobsOrderly /\ Orderly  BY JobsOfOrderly DEF PresenceInv
<1>4. JobsOrderly' /\ Others(j) /\ job'[j].pc = "idle" /\ job'[j].newStatus = "none"
  BY <1>1, <1>3, LeavingIdle DEF Moved
<1>5. Known' /\ tracked' \in BOOLEAN
  BY <1>2 DEF Known
<1>6. ~Taking(j) /\ ~Stale(j)' /\ ~Off(j)'
  BY <1>1, <1>4 DEF Taking, Stale, Off, Counting
<1>7. collided' \in BOOLEAN /\ (collided => collided')
  BY <1>1, <1>3 DEF HeartbeatWrite, Orderly, PresenceTypes
<1> QED BY <1>1, <1>4, <1>5, <1>6, <1>7, TabsKeptStep

LEMMA DelTabsStep ==
    ASSUME PresenceInv, NEW j \in AllJobs, DelTabs(j)
    PROVE  PresenceInv'
<1>1. /\ queue # <<>> /\ Head(queue) = j /\ job[j].pc = "delTabs"
      /\ tabs' = [t \in Tabs |-> "absent"]
      /\ Continue(j, "delActivity") /\ UNCHANGED <<tracked, status, collided>>
  BY DEF DelTabs, Answered
<1>2. JobsOrderly /\ Orderly  BY JobsOfOrderly DEF PresenceInv
<1>3. job[j].newStatus = "offline"  BY <1>1, <1>2, TaskFacts DEF Consistent, Clearing
<1>4. "delActivity" \in Commands /\ Consistent("delActivity", "offline")
  BY DEF Commands, Clearing, Consistent
<1>5. JobsOrderly' /\ Others(j) /\ job'[j].pc = "delActivity"
  BY <1>1, <1>2, <1>3, <1>4, Continuing DEF Moved
<1>6. ~Taking(j) /\ ~Stale(j)' /\ Off(j) /\ Past(j) /\ job[j].pc \notin Beating
  BY <1>1, <1>3, <1>5 DEF Taking, Stale, Off, Past, Counting, Beating
<1>7. (tracked' <=> tracked) /\ (collided' <=> collided) /\ status' = status
  BY <1>1
<1>8. Known => Known'  BY <1>5, <1>6, <1>7, HeardKept
<1>9. tabs' = [t \in Tabs |-> tabs'[t]] /\ NoTabs'
  BY <1>1 DEF NoTabs
<1>10. Orderly'
  BY <1>1, <1>2, <1>5, <1>9 DEF Orderly, PresenceTypes, JobsOrderly
<1> QED BY <1>5, <1>6, <1>7, <1>8, <1>9, <1>10, BystanderStep

LEMMA DelActivityStep ==
    ASSUME PresenceInv, NEW j \in AllJobs, DelActivity(j)
    PROVE  PresenceInv'
<1>1. /\ queue # <<>> /\ Head(queue) = j /\ job[j].pc = "delActivity"
      /\ Continue(j, "srem") /\ UNCHANGED <<tabs, tracked, status, collided>>
  BY DEF DelActivity, Answered
<1>2. JobsOrderly  BY JobsOfOrderly DEF PresenceInv
<1>3. job[j].newStatus = "offline"  BY <1>1, <1>2, TaskFacts DEF Consistent, Clearing
<1>4. "srem" \in Commands /\ Consistent("srem", "offline")
  BY DEF Commands, Clearing, Consistent
<1>5. JobsOrderly' /\ Others(j) /\ job'[j].pc = "srem"
  BY <1>1, <1>2, <1>3, <1>4, Continuing DEF Moved
<1>6. ~Taking(j) /\ ~Stale(j)' /\ Past(j) /\ job[j].pc \notin Beating
  BY <1>1, <1>3, <1>5 DEF Taking, Stale, Off, Past, Counting, Beating
<1> QED BY <1>1, <1>5, <1>6, QuietStep

LEMMA SremStep ==
    ASSUME PresenceInv, NEW j \in AllJobs, Srem(j)
    PROVE  PresenceInv'
<1>1. /\ queue # <<>> /\ Head(queue) = j /\ job[j].pc = "srem"
      /\ Leave(j, "idle") /\ tabs' = tabs /\ status' = status
  BY DEF Srem, Answered
<1>2. tracked' = FALSE /\ collided' = collided  BY DEF Srem
<1>3. JobsOrderly /\ Orderly  BY JobsOfOrderly DEF PresenceInv
<1>4. job[j].newStatus = "offline"  BY <1>1, <1>3, TaskFacts DEF Consistent, Clearing
<1>5. JobsOrderly' /\ Others(j) /\ job'[j].pc = "idle" /\ job'[j].newStatus = "none"
  BY <1>1, <1>3, LeavingIdle DEF Moved
<1>6. ~Taking(j) /\ ~Stale(j)' /\ ~Off(j)' /\ Past(j)
  BY <1>1, <1>4, <1>5 DEF Taking, Stale, Off, Past, Counting
<1>7. tracked' \in BOOLEAN /\ collided' \in BOOLEAN /\ (collided => collided')
  BY <1>2, <1>3 DEF Orderly, PresenceTypes
<1> QED BY <1>1, <1>5, <1>6, <1>7, TabsKeptStep

--------------------------------------------------------------------------------
(* Steps of a job that counts the tabs *)

\* The tabs go: the job that saw to it covers all that counted them.
LEMMA TabsGone ==
    ASSUME JobsOrderly', NEW j \in AllJobs, Others(j), LastIn(j, queue'),
           \/ job[j].pc = "zremTab" /\ job'[j].pc = "zremActivity"
           \/ job[j].pc = "purge" /\ job'[j].pc = "zcard",
           Known', \A k \in AllJobs : ~Off(k)',
           NEW b \in AllJobs, Stale(b)'
    PROVE  Covered(b)'
<1>1. b # j /\ Taking(j)'
  BY DEF Stale, Taking, Counting
<1>2. Stale(b) /\ job'[b] = job[b] /\ Turn(b)' = Turn(b)  BY <1>1, Kept
<1>3. Turn(b)' \in 1..3 /\ job'[b].pc \in Commands  BY <1>2, TurnValues
<1>4. Ahead(b, j)'  BY <1>1, <1>3, AllAhead
<1>5. CASE job'[j].pc = "zremActivity"
  <2>1. Turn(j)' = 5  BY <1>5 DEF Turn
  <2>2. GetsAfter(b, j)'  BY <1>3, <2>1 DEF GetsAfter
  <2>3. Covers(b, j)'  BY <1>1, <2>2 DEF Covers
  <2> QED BY <2>3 DEF Covered
<1>6. CASE job'[j].pc = "zcard"
  <2>1. Turn(j)' = 3  BY <1>6 DEF Turn
  <2>2. SetsAfter(b, j)'  BY <1>3, <1>4, <2>1 DEF SetsAfter
  <2>3. Spares(b, j)'  BY <1>6, <2>2 DEF Spares
  <2>4. Covers(b, j)'  BY <1>1, <2>3 DEF Covers
  <2> QED BY <2>4 DEF Covered
<1> QED BY <1>5, <1>6

LEMMA CountingStep ==
    ASSUME PresenceInv, NEW j \in AllJobs, Orderly', Others(j), Foremost(j),
           LastIn(j, queue'), ~Off(j),
           \/ job[j].pc = "zremTab" /\ job'[j].pc = "zremActivity" /\ ~Off(j)'
           \/ job[j].pc = "zremActivity" /\ job'[j].pc = "purge" /\ ~Off(j)'
           \/ job[j].pc = "purge" /\ job'[j].pc = "zcard" /\ ~Off(j)'
           \/ job[j].pc = "zcard" /\ job'[j].pc = "get" /\ Off(j)' /\ NoTabs,
           UNCHANGED <<tracked, status, collided>>,
           NoTabs => NoTabs', NoTabs' => NoTabs \/ job[j].pc \in {"zremTab", "purge"}
    PROVE  PresenceInv'
<1>1. /\ job[j].pc \in Counting /\ job[j].pc \notin Beating
      /\ Taking(j)' /\ ~Stale(j)'
  BY DEF Counting, Beating, Taking, Stale
<1>2. Turn(j)' + 1 = Turn(j)  BY DEF Turn
<1>3. status' = status /\ (tracked' <=> tracked) /\ (collided' <=> collided)
  OBVIOUS
<1>4. Known => Known'  BY <1>1, <1>3, HeardKept
<1>5. SUFFICES ASSUME ~collided'
      PROVE  OfflineWithoutTabs' /\ TabsKnown' /\ StaleCovered' /\ ShownWatched'
  BY DEF PresenceInv
<1>6. OfflineWithoutTabs /\ TabsKnown /\ StaleCovered /\ ShownWatched
  BY <1>3, <1>5 DEF PresenceInv
<1>7. Off(j)' => NoTabs  OBVIOUS
<1>8. OfflineWithoutTabs' /\ TabsKnown'
  BY <1>4, <1>6, <1>7, KeepsOffline, KeepsTabsKnown
<1>9. StaleCovered'
  <2>1. SUFFICES ASSUME NoTabs', NEW b \in AllJobs, Stale(b)' PROVE Covered(b)'
    BY DEF StaleCovered
  <2>2. b # j /\ Stale(b)  BY <1>1, <2>1, Kept
  <2>3. JobsOrderly'  BY DEF Orderly, PresenceTypes, JobsOrderly
  <2>4. CASE NoTabs
    <3>1. Covered(b)  BY <1>6, <2>2, <2>4 DEF StaleCovered
    <3> QED BY <1>1, <1>2, <1>3, <1>4, <2>2, <2>3, <3>1, CountingCovers
  <2>5. CASE ~NoTabs
    <3>1. Known' /\ \A k \in AllJobs : ~Off(k)
      BY <1>4, <1>6, <2>5 DEF TabsKnown, OfflineWithoutTabs
    <3>2. ~Off(j)'  BY <2>5
    <3>3. \A k \in AllJobs : ~Off(k)'  BY <3>1, <3>2, Kept
    <3>4. \/ job[j].pc = "zremTab" /\ job'[j].pc = "zremActivity"
          \/ job[j].pc = "purge" /\ job'[j].pc = "zcard"
      BY <2>1, <2>5
    <3> QED BY <2>1, <2>3, <3>1, <3>3, <3>4, TabsGone
  <2> QED BY <2>4, <2>5
<1>10. ShownWatched'
  <2>1. Shown' => Shown  BY <1>3 DEF Shown
  <2>2. ~Past(j)'  BY DEF Past
  <2> QED BY <1>1, <1>4, <1>6, <2>1, <2>2, KeepsWatched
<1> QED BY <1>8, <1>9, <1>10

LEMMA ZremTabStep ==
    ASSUME PresenceInv, NEW j \in AllJobs, ZremTab(j)
    PROVE  PresenceInv'
<1>1. /\ queue # <<>> /\ Head(queue) = j /\ job[j].pc = "zremTab"
      /\ tabs' = [tabs EXCEPT ![job[j].tab] = "absent"]
      /\ Continue(j, "zremActivity") /\ UNCHANGED <<tracked, status, collided>>
  BY DEF ZremTab, Answered
<1>2. JobsOrderly /\ Orderly  BY JobsOfOrderly DEF PresenceInv
<1>3. job[j].newStatus = "none"  BY <1>1, <1>2, TaskFacts DEF Consistent, Clearing
<1>4. "zremActivity" \in Commands /\ Consistent("zremActivity", "none")
  BY DEF Commands, Counting, Clearing, Consistent
<1>5. /\ JobsOrderly' /\ Others(j) /\ LastIn(j, queue') /\ Foremost(j)
      /\ job'[j].pc = "zremActivity" /\ ~Off(j) /\ ~Off(j)'
  BY <1>1, <1>2, <1>3, <1>4, Continuing DEF Moved, Off
<1>6. tabs' = [t \in Tabs |-> tabs'[t]] /\ (NoTabs => NoTabs')
  BY <1>1, <1>2 DEF Orderly, PresenceTypes, NoTabs
<1>7. Orderly'
  BY <1>1, <1>2, <1>5, <1>6 DEF Orderly, PresenceTypes, JobsOrderly
<1> QED BY <1>1, <1>5, <1>6, <1>7, CountingStep

LEMMA ZremActivityStep ==
    ASSUME PresenceInv, NEW j \in AllJobs, ZremActivity(j)
    PROVE  PresenceInv'
<1>1. /\ queue # <<>> /\ Head(queue) = j /\ job[j].pc = "zremActivity" /\ tabs' = tabs
      /\ Continue(j, "purge") /\ UNCHANGED <<tracked, status, collided>>
  BY DEF ZremActivity, Answered
<1>2. JobsOrderly /\ Orderly  BY JobsOfOrderly DEF PresenceInv
<1>3. job[j].newStatus = "none"  BY <1>1, <1>2, TaskFacts DEF Consistent, Clearing
<1>4. "purge" \in Commands /\ Consistent("purge", "none")
  BY DEF Commands, Counting, Clearing, Consistent
<1>5. /\ JobsOrderly' /\ Others(j) /\ LastIn(j, queue') /\ Foremost(j)
      /\ job'[j].pc = "purge" /\ ~Off(j) /\ ~Off(j)'
  BY <1>1, <1>2, <1>3, <1>4, Continuing DEF Moved, Off
<1>6. NoTabs' <=> NoTabs  BY <1>1 DEF NoTabs
<1>7. Orderly'
  BY <1>1, <1>2, <1>5 DEF Orderly, PresenceTypes, JobsOrderly
<1> QED BY <1>1, <1>5, <1>6, <1>7, CountingStep

LEMMA PurgeStep ==
    ASSUME PresenceInv, NEW j \in AllJobs, Purge(j)
    PROVE  PresenceInv'
<1>1. /\ queue # <<>> /\ Head(queue) = j /\ job[j].pc = "purge"
      /\ tabs' = [t \in Tabs |-> IF tabs[t] = "expired" THEN "absent" ELSE tabs[t]]
      /\ Continue(j, "zcard") /\ UNCHANGED <<tracked, status, collided>>
  BY DEF Purge, Answered
<1>2. JobsOrderly /\ Orderly  BY JobsOfOrderly DEF PresenceInv
<1>3. job[j].newStatus = "none"  BY <1>1, <1>2, TaskFacts DEF Consistent, Clearing
<1>4. "zcard" \in Commands /\ Consistent("zcard", "none")
  BY DEF Commands, Counting, Clearing, Consistent
<1>5. /\ JobsOrderly' /\ Others(j) /\ LastIn(j, queue') /\ Foremost(j)
      /\ job'[j].pc = "zcard" /\ ~Off(j) /\ ~Off(j)'
  BY <1>1, <1>2, <1>3, <1>4, Continuing DEF Moved, Off
<1>6. tabs' = [t \in Tabs |-> tabs'[t]] /\ (NoTabs => NoTabs')
  BY <1>1 DEF NoTabs
<1>7. Orderly'
  BY <1>1, <1>2, <1>5, <1>6 DEF Orderly, PresenceTypes, JobsOrderly
<1> QED BY <1>1, <1>5, <1>6, <1>7, CountingStep

LEMMA CountTabsStep ==
    ASSUME PresenceInv, NEW j \in AllJobs, CountTabs(j)
    PROVE  PresenceInv'
<1>1. /\ queue # <<>> /\ Head(queue) = j /\ job[j].pc = "zcard" /\ tabs' = tabs
      /\ UNCHANGED <<tracked, status, collided>>
  BY DEF CountTabs, Answered, redis
<1>2. JobsOrderly /\ Orderly  BY JobsOfOrderly DEF PresenceInv
<1>3. job[j].newStatus = "none" /\ ~Off(j)
  BY <1>1, <1>2, TaskFacts DEF Consistent, Clearing, Off
<1>4. NoTabs' <=> NoTabs  BY <1>1 DEF NoTabs
<1>5. CASE NoTabs
  <2>1. Derived(j, "offline")  BY <1>5 DEF CountTabs, NoTabs
  <2>2. /\ JobsOrderly' /\ Others(j) /\ LastIn(j, queue') /\ Foremost(j)
        /\ job'[j].pc = "get" /\ Off(j)'
    BY <1>1, <1>2, <2>1, Deriving DEF Moved, Off
  <2>3. Orderly'
    BY <1>1, <1>2, <2>2 DEF Orderly, PresenceTypes, JobsOrderly
  <2> QED BY <1>1, <1>3, <1>4, <1>5, <2>2, <2>3, CountingStep
<1>6. CASE ~NoTabs
  <2>1. Continue(j, "top")  BY <1>6 DEF CountTabs, NoTabs
  <2>2. "top" \in Commands /\ Consistent("top", "none")
    BY DEF Commands, Counting, Clearing, Consistent
  <2>3. JobsOrderly' /\ Others(j) /\ job'[j].pc = "top" /\ ~Off(j)'
    BY <1>1, <1>2, <1>3, <2>1, <2>2, Continuing DEF Moved, Off
  <2>4. Orderly'
    BY <1>1, <1>2, <2>3 DEF Orderly, PresenceTypes, JobsOrderly
  <2>5. status' = status /\ (tracked' <=> tracked) /\ (collided' <=> collided)
    BY <1>1
  <2>6. job[j].pc \notin Beating  BY <1>1 DEF Beating
  <2>7. Known => Known'  BY <2>3, <2>5, <2>6, HeardKept
  <2>8. SUFFICES ASSUME ~collided'
        PROVE  OfflineWithoutTabs' /\ TabsKnown' /\ StaleCovered' /\ ShownWatched'
    BY <2>4 DEF PresenceInv
  <2>9. OfflineWithoutTabs /\ TabsKnown /\ ShownWatched
    BY <2>5, <2>8 DEF PresenceInv
  <2>10. OfflineWithoutTabs' /\ TabsKnown'
    BY <1>4, <2>3, <2>7, <2>9, KeepsOffline, KeepsTabsKnown
  <2>11. StaleCovered'  BY <1>4, <1>6 DEF StaleCovered
  <2>12. ShownWatched'
    <3>1. Shown' => Shown  BY <2>5 DEF Shown
    <3>2. ~Past(j)'  BY <2>3 DEF Past
    <3> QED BY <1>6, <2>3, <2>7, <2>9, <3>1, <3>2, KeepsWatched
  <2> QED BY <2>10, <2>11, <2>12
<1> QED BY <1>5, <1>6

--------------------------------------------------------------------------------
(* Steps of a job that is about to set the status *)

LEMMA StaleGoesOn ==
    ASSUME PresenceInv, NEW j \in AllJobs, JobsOrderly', Others(j), Stale(j), ~Off(j),
           \/ job[j].pc = "top" /\ job'[j].pc = "get"
           \/ job[j].pc = "get" /\ job'[j].pc = "set",
           ~Off(j)', UNCHANGED <<tabs, tracked, status, collided>>
    PROVE  PresenceInv'
<1>1. tabs' = tabs /\ status' = status /\ (tracked' <=> tracked) /\ (collided' <=> collided)
  OBVIOUS
<1>2. Orderly'
  BY <1>1 DEF PresenceInv, Orderly, PresenceTypes, JobsOrderly
<1>3. Turn(j)' + 1 = Turn(j)  BY DEF Turn
<1>4. ~Taking(j) /\ job[j].pc \notin Beating /\ ~Past(j)'
  BY DEF Taking, Counting, Beating, Past
<1>5. Known => Known'  BY <1>1, <1>4, HeardKept
<1>6. NoTabs' <=> NoTabs  BY <1>1 DEF NoTabs
<1>7. SUFFICES ASSUME ~collided'
      PROVE  OfflineWithoutTabs' /\ TabsKnown' /\ StaleCovered' /\ ShownWatched'
  BY <1>2 DEF PresenceInv
<1>8. OfflineWithoutTabs /\ TabsKnown /\ StaleCovered /\ ShownWatched
  BY <1>1, <1>7 DEF PresenceInv
<1>9. OfflineWithoutTabs' /\ TabsKnown'
  BY <1>5, <1>6, <1>8, KeepsOffline, KeepsTabsKnown
<1>10. StaleCovered'
  <2>1. SUFFICES ASSUME NoTabs', NEW b \in AllJobs, Stale(b)' PROVE Covered(b)'
    BY DEF StaleCovered
  <2>2. Stale(b)  BY <2>1, Kept
  <2>3. Covered(b)  BY <1>6, <1>8, <2>1, <2>2 DEF StaleCovered
  <2>4. CASE b = j
    BY <1>1, <1>3, <1>5, <2>3, <2>4, MovesCovered
  <2>5. CASE b # j
    BY <1>1, <1>4, <1>5, <2>3, <2>5, StaysCovered
  <2> QED BY <2>4, <2>5
<1>11. ShownWatched'
  <2>1. Shown' => Shown  BY <1>1 DEF Shown
  <2> QED BY <1>4, <1>5, <1>8, <2>1, KeepsWatched
<1> QED BY <1>9, <1>10, <1>11

LEMMA LatestActivityStep ==
    ASSUME PresenceInv, NEW j \in AllJobs, LatestActivity(j)
    PROVE  PresenceInv'
<1>1. /\ queue # <<>> /\ Head(queue) = j /\ job[j].pc = "top"
      /\ Derived(j, "online") \/ Derived(j, "afk")
      /\ UNCHANGED <<tabs, tracked, status, collided>>
  BY DEF LatestActivity, Answered, redis
<1>2. JobsOrderly  BY JobsOfOrderly DEF PresenceInv
<1>3. job[j].newStatus = "none"  BY <1>1, <1>2, TaskFacts DEF Consistent, Clearing
<1>4. JobsOrderly' /\ Others(j) /\ job'[j].pc = "get" /\ ~Off(j)'
  BY <1>1, <1>2, Deriving DEF Moved, Off
<1>5. Stale(j) /\ ~Off(j)  BY <1>1, <1>3 DEF Stale, Off
<1> QED BY <1>1, <1>4, <1>5, StaleGoesOn

\* A job that takes the user offline reads the status, or sets it.
LEMMA OfflineGoesOn ==
    ASSUME PresenceInv, NEW j \in AllJobs, JobsOrderly', Others(j), Foremost(j), Off(j),
           \/ /\ job[j].pc = "get" /\ job'[j].pc = "set" /\ Off(j)'
              /\ status # "offline" /\ status' = status /\ LastIn(j, queue')
           \/ /\ job[j].pc = "get" /\ job'[j].pc = "idle" /\ ~Off(j)'
              /\ status = "offline" /\ status' = status
           \/ /\ job[j].pc = "set" /\ job'[j].pc = "friends" /\ Off(j)'
              /\ status' = "offline",
           UNCHANGED <<tabs, tracked, collided>>
    PROVE  PresenceInv'
<1>1. tabs' = tabs /\ (tracked' <=> tracked) /\ (collided' <=> collided)
  OBVIOUS
<1>2. Orderly'
  BY <1>1 DEF PresenceInv, Orderly, PresenceTypes, JobsOrderly, Derivations
<1>3. job[j].pc \notin Beating  BY DEF Beating
<1>4. Known => Known'  BY <1>1, <1>3, HeardKept
<1>5. NoTabs' <=> NoTabs  BY <1>1 DEF NoTabs
<1>6. SUFFICES ASSUME ~collided'
      PROVE  OfflineWithoutTabs' /\ TabsKnown' /\ StaleCovered' /\ ShownWatched'
  BY <1>2 DEF PresenceInv
<1>7. OfflineWithoutTabs /\ TabsKnown /\ StaleCovered /\ ShownWatched
  BY <1>1, <1>6 DEF PresenceInv
<1>8. NoTabs  BY <1>7 DEF OfflineWithoutTabs
<1>9. OfflineWithoutTabs' /\ TabsKnown'
  BY <1>4, <1>5, <1>7, <1>8, KeepsOffline, KeepsTabsKnown
<1>10. StaleCovered'
  <2>1. SUFFICES ASSUME NEW b \in AllJobs, Stale(b)' PROVE Covered(b)'
    BY DEF StaleCovered
  <2>2. ~Stale(j)'  BY DEF Stale
  <2>3. Stale(b)  BY <2>1, <2>2, Kept
  <2>4. Covered(b)  BY <1>7, <1>8, <2>3 DEF StaleCovered
  <2>5. CASE job'[j].pc = "set"
    BY <1>4, <2>3, <2>4, <2>5, ReadingCovers
  <2>6. CASE job'[j].pc = "idle"
    BY <1>4, <2>3, <2>4, <2>6, LeavingCovers
  <2>7. CASE job'[j].pc = "friends"
    BY <1>4, <2>3, <2>4, <2>7, SettingCovers
  <2> QED BY <2>5, <2>6, <2>7
<1>11. ShownWatched'
  <2>1. Shown' => Shown /\ Taking(j)' /\ ~Past(j)'
    BY DEF Shown, Taking, Past
  <2> QED BY <1>4, <1>7, <2>1, KeepsWatched
<1> QED BY <1>9, <1>10, <1>11

LEMMA GetStatusStep ==
    ASSUME PresenceInv, NEW j \in AllJobs, GetStatus(j)
    PROVE  PresenceInv'
<1>1. /\ queue # <<>> /\ Head(queue) = j /\ job[j].pc = "get"
      /\ \/ status = job[j].newStatus /\ Leave(j, "idle")
         \/ status # job[j].newStatus /\ Continue(j, "set")
      /\ UNCHANGED <<tabs, tracked, status, collided>>
  BY DEF GetStatus, Answered, redis
<1>2. JobsOrderly  BY JobsOfOrderly DEF PresenceInv
<1>3. job[j].newStatus # "none"  BY <1>1, <1>2, TaskFacts DEF Consistent
<1>4. "set" \in Commands /\ Consistent("set", job[j].newStatus)
  BY <1>3 DEF Commands, Consistent, Clearing
<1>5. CASE status = job[j].newStatus /\ Leave(j, "idle")
  <2>1. JobsOrderly' /\ Others(j) /\ Foremost(j) /\ job'[j].pc = "idle" /\ ~Off(j)'
    BY <1>1, <1>2, <1>5, LeavingIdle DEF Moved, Off
  <2>2. CASE Off(j)
    <3>1. status = "offline"  BY <1>5, <2>2 DEF Off
    <3> QED BY <1>1, <2>1, <2>2, <3>1, OfflineGoesOn
  <2>3. CASE ~Off(j)
    <3>1. ~Taking(j) /\ ~Stale(j)' /\ job[j].pc \notin Beating
      BY <1>1, <2>1, <2>3 DEF Taking, Stale, Beating, Counting
    <3> QED BY <1>1, <2>1, <3>1, QuietStep
  <2> QED BY <2>2, <2>3
<1>6. CASE status # job[j].newStatus /\ Continue(j, "set")
  <2>1. /\ JobsOrderly' /\ Others(j) /\ Foremost(j) /\ LastIn(j, queue')
        /\ job'[j].pc = "set" /\ (Off(j)' <=> Off(j))
    BY <1>1, <1>2, <1>4, <1>6, Continuing DEF Moved, Off
  <2>2. CASE Off(j)
    <3>1. status # "offline"  BY <1>6, <2>2 DEF Off
    <3> QED BY <1>1, <2>1, <2>2, <3>1, OfflineGoesOn
  <2>3. CASE ~Off(j)
    <3>1. Stale(j)  BY <1>1, <2>3 DEF Stale
    <3> QED BY <1>1, <2>1, <2>3, <3>1, StaleGoesOn
  <2> QED BY <2>2, <2>3
<1> QED BY <1>1, <1>5, <1>6

LEMMA SetStatusStep ==
    ASSUME PresenceInv, NEW j \in AllJobs, SetStatus(j)
    PROVE  PresenceInv'
<1>1. /\ queue # <<>> /\ Head(queue) = j /\ job[j].pc = "set"
      /\ status' = job[j].newStatus /\ Leave(j, "friends")
      /\ UNCHANGED <<tabs, tracked, collided>>
  BY DEF SetStatus, Answered
<1>2. JobsOrderly /\ Orderly  BY JobsOfOrderly DEF PresenceInv
<1>3. job[j].newStatus # "none" /\ job[j].newStatus \in Derivations
  BY <1>1, <1>2, TaskFacts DEF Consistent
<1>4. Consistent("friends", job[j].newStatus)
  BY <1>3 DEF Consistent, Clearing
<1>5. /\ JobsOrderly' /\ Others(j) /\ Foremost(j)
      /\ job'[j].pc = "friends" /\ (Off(j)' <=> Off(j))
  BY <1>1, <1>2, <1>4, LeavingTo DEF Moved, Off
<1>6. CASE Off(j)
  <2>1. status' = "offline"  BY <1>1, <1>6 DEF Off
  <2> QED BY <1>1, <1>5, <1>6, <2>1, OfflineGoesOn
<1>7. CASE ~Off(j)
  <2>1. tabs' = tabs /\ (tracked' <=> tracked) /\ (collided' <=> collided)
    BY <1>1
  <2>2. Orderly'
    BY <1>1, <1>2, <1>3, <1>5, <2>1 DEF Orderly, PresenceTypes, JobsOrderly
  <2>3. /\ status' # "offline" /\ ~Off(j)' /\ ~Stale(j)' /\ Stale(j)
        /\ ~Taking(j) /\ job[j].pc \notin Beating
    BY <1>1, <1>5, <1>7 DEF Off, Stale, Taking, Counting, Beating
  <2>4. Known => Known'  BY <1>5, <2>1, <2>3, HeardKept
  <2>5. NoTabs' <=> NoTabs  BY <2>1 DEF NoTabs
  <2>6. SUFFICES ASSUME ~collided'
        PROVE  OfflineWithoutTabs' /\ TabsKnown' /\ StaleCovered' /\ ShownWatched'
    BY <2>2 DEF PresenceInv
  <2>7. OfflineWithoutTabs /\ TabsKnown /\ StaleCovered
    BY <2>1, <2>6 DEF PresenceInv
  <2>8. OfflineWithoutTabs' /\ TabsKnown'
    BY <1>5, <2>3, <2>4, <2>5, <2>7, KeepsOffline, KeepsTabsKnown
  <2>9. StaleCovered'
    <3>1. SUFFICES ASSUME NoTabs', NEW b \in AllJobs, Stale(b)' PROVE Covered(b)'
      BY DEF StaleCovered
    <3>2. b # j /\ Stale(b)  BY <1>5, <2>3, <3>1, Kept
    <3>3. Covered(b)  BY <2>5, <2>7, <3>1, <3>2 DEF StaleCovered
    <3> QED BY <1>5, <2>3, <2>4, <3>2, <3>3, StaysCovered
  <2>10. ShownWatched'
    <3>1. (\E i \in AllJobs : Taking(i)) \/ (Known /\ \A k \in AllJobs : ~Off(k))
      <4>1. CASE ~NoTabs  BY <2>7, <4>1 DEF TabsKnown, OfflineWithoutTabs
      <4>2. CASE NoTabs
        <5>1. Covered(j)  BY <2>3, <2>7, <4>2 DEF StaleCovered
        <5> QED BY <5>1 DEF Covered, Lonely, Covers
      <4> QED BY <4>1, <4>2
    <3>2. CASE \E i \in AllJobs : Taking(i)
      <4>1. PICK i \in AllJobs : Taking(i)  BY <3>2
      <4>2. Taking(i)'  BY <1>5, <2>3, <4>1, Kept
      <4> QED BY <4>2 DEF ShownWatched
    <3>3. CASE Known /\ \A k \in AllJobs : ~Off(k)
      <4>1. \A k \in AllJobs : ~Off(k)'  BY <1>5, <2>3, <3>3, Kept
      <4>2. \A k \in AllJobs : ~Past(k)'  BY <4>1 DEF Past
      <4> QED BY <2>4, <3>3, <4>2 DEF ShownWatched
    <3> QED BY <3>1, <3>2, <3>3
  <2> QED BY <2>8, <2>9, <2>10
<1> QED BY <1>6, <1>7

--------------------------------------------------------------------------------
(* The theorem *)

LEMMA PresenceInvInit == PresenceInit => PresenceInv
<1> SUFFICES ASSUME PresenceInit PROVE PresenceInv  OBVIOUS
<1>1. /\ tabs = [t \in Tabs |-> "absent"] /\ status = "none" /\ queue = <<>>
      /\ job = [j \in AllJobs |-> Idle(SomeTab)]
  BY DEF PresenceInit
<1>2. tracked = FALSE /\ collided = FALSE  BY DEF PresenceInit
<1>3. \A j \in AllJobs : job[j].pc = "idle" /\ job[j].newStatus = "none"
  BY <1>1, IdleTask
<1>4. PresenceTypes
  <2>1. job \in [AllJobs -> Tasks]  BY <1>1, IdleTask
  <2>2. queue \in Seq(AllJobs) /\ status \in Derivations
    BY <1>1 DEF Derivations
  <2>3. tracked \in BOOLEAN /\ collided \in BOOLEAN  BY <1>2
  <2>4. tabs = [t \in Tabs |-> tabs[t]]  BY <1>1
  <2> QED BY <2>1, <2>2, <2>3, <2>4 DEF PresenceTypes
<1>5. Queued
  <2>1. "idle" \notin Commands  BY DEF Commands, Counting, Beating, Clearing
  <2>2. Len(queue) = 0  BY <1>1
  <2> QED BY <1>3, <2>1, <2>2 DEF Queued, NoDuplicates, In
<1>6. NoTabs /\ ~Shown  BY <1>1 DEF NoTabs, Shown
<1>7. \A j \in AllJobs : ~Off(j) /\ ~Stale(j)  BY <1>3 DEF Off, Stale
<1>8. OfflineWithoutTabs /\ TabsKnown /\ StaleCovered /\ ShownWatched
  BY <1>6, <1>7 DEF OfflineWithoutTabs, TabsKnown, StaleCovered, ShownWatched
<1> QED BY <1>4, <1>5, <1>8 DEF PresenceInv, Orderly

LEMMA PresenceInvNext ==
    ASSUME PresenceInv, [PresenceNext]_presenceVars
    PROVE  PresenceInv'
<1>1. CASE Browser
  BY <1>1, OpenStep, CloseStep, HeartbeatStep, VanishStep DEF Browser
<1>2. CASE RedisStep
  BY <1>2, ZaddTabStep, ZaddActivityStep, SaddStep, ZremTabStep, ZremActivityStep,
     PurgeStep, CountTabsStep, LatestActivityStep, GetStatusStep, SetStatusStep,
     DelTabsStep, DelActivityStep, SremStep, SmembersStep DEF RedisStep
<1>3. CASE \E j \in Sweepers : StartSweep(j) \/ ReachUser(j)
  BY <1>3, StartSweepStep, ReachUserStep
<1>4. CASE \E j \in AllJobs : EmitPresenceChanged(j)
  BY <1>4, EmitPresenceChangedStep
<1>5. CASE \E t \in Tabs : ExpireTab(t) \/ AgeActivity(t)
  BY <1>5, ExpireTabStep, AgeActivityStep
<1>6. CASE UNCHANGED presenceVars
  <2>1. UNCHANGED <<tabs, tracked, status, queue, job, collided>>
    BY <1>6 DEF presenceVars
  <2>2. Orderly' /\ (NoTabs' <=> NoTabs)
    BY <2>1 DEF PresenceInv, Orderly, PresenceTypes, Queued, NoTabs
  <2> QED BY <2>1, <2>2, NoJobMoves
<1> QED BY <1>1, <1>2, <1>3, <1>4, <1>5, <1>6 DEF PresenceNext

\* With no command outstanding nobody takes the user offline or beats.
LEMMA PresenceInvImplies == PresenceInv => NobodyForgotten
<1> SUFFICES ASSUME PresenceInv, ~collided, queue = <<>>, Shown PROVE tracked
  BY DEF NobodyForgotten, Shown
<1>1. \A j \in AllJobs : job[j].pc \notin Commands
  <2>1. Len(queue) = 0  OBVIOUS
  <2> QED BY <2>1 DEF PresenceInv, Orderly, Queued, In
<1>2. \A j \in AllJobs : ~Taking(j)  BY <1>1, TurnValues
<1>3. ~Heard  BY <1>1 DEF Heard, Commands
<1>4. Known  BY <1>2 DEF PresenceInv, ShownWatched
<1> QED BY <1>3, <1>4 DEF Known

\* Nobody is shown whom no sweep will find (removeTab, runSweep and maybeEmit of
\* presence.service.ts, with any number of tabs, jobs and sweeps).
THEOREM NobodyForgottenAlways == PresenceSpec => []NobodyForgotten
<1>1. PresenceInit => PresenceInv  BY PresenceInvInit
<1>2. PresenceInv /\ [PresenceNext]_presenceVars => PresenceInv'
  BY PresenceInvNext
<1>3. PresenceInv => NobodyForgotten  BY PresenceInvImplies
<1> QED BY <1>1, <1>2, <1>3, PTL DEF PresenceSpec

================================================================================
