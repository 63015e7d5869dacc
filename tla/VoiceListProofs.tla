--------------------------- MODULE VoiceListProofs ---------------------------
(* Proofs about the room list of module VoiceChannels: it uses the voice    *)
(* sessions as module VoiceSession describes them, so that what is proved   *)
(* of them holds whatever the list, its effects and its requests do; and it *)
(* is as new as the news the page was sent.                                 *)
EXTENDS VoiceNewsProofs

\* A POST request learns its room when it is stored.
Requests ==
    {[op |-> "create", room |-> NoRoom, stored |-> FALSE]}
    \cup [op: {"create", "delete"}, room: Namespace, stored: BOOLEAN]

Page(last) ==
    [list: 0 .. last, events: Seq(1 .. last), gets: Seq(0 .. last), online: BOOLEAN,
     asked: Seq(Requests), confirm: Namespace \cup {NoRoom},
     seen: 0 .. last, missed: BOOLEAN]

(* The page knows versions that exist, and asks for rooms that do.          *)
ListInv ==
    /\ versions \in Seq(SUBSET Namespace) /\ Len(versions) \in Nat \ {0}
    /\ news \in SUBSET (1 .. Len(versions))
    /\ page \in Page(Len(versions))

-----------------------------------------------------------------------------

LEMMA PageGrows ==
    ASSUME NEW n \in Nat, NEW p \in Page(n)
    PROVE  p \in Page(n + 1)
<1>1. 0 .. n \subseteq 0 .. n + 1 /\ 1 .. n \subseteq 1 .. n + 1
  OBVIOUS
<1>2. Seq(1 .. n) \subseteq Seq(1 .. n + 1) /\ Seq(0 .. n) \subseteq Seq(0 .. n + 1)
  BY <1>1
<1> QED
  BY <1>1, <1>2 DEF Page

LEMMA DirectoryTyped ==
    ASSUME ListInv
    PROVE  /\ Directory \in SUBSET Namespace /\ Unused \in SUBSET Namespace
           /\ page.list # 0 => Rooms \in SUBSET Namespace
<1>1. \A i \in 1 .. Len(versions) : versions[i] \in SUBSET Namespace
  BY DEF ListInv
<1>2. page.list \in 0 .. Len(versions) /\ Len(versions) \in Nat \ {0}
  BY DEF ListInv, Page
<1> QED
  BY <1>1, <1>2 DEF Directory, Rooms, Unused

\* An edit of the directory.
LEMMA VersionAdded ==
    ASSUME ListInv, NEW rooms \in SUBSET Namespace,
           Announced(rooms) \/ Unannounced(rooms)
    PROVE  /\ versions' \in Seq(SUBSET Namespace) /\ Len(versions') = Len(versions) + 1
           /\ news' \in SUBSET (1 .. Len(versions'))
           /\ Announced(rooms) => Len(versions') \in news'
           /\ ~Announced(rooms) => untold'
<1> DEFINE n == Len(versions)
<1>1. n \in Nat \ {0} /\ versions \in Seq(SUBSET Namespace) /\ news \in SUBSET (1 .. n)
  BY DEF ListInv
<1>2. versions' = Append(versions, rooms)
  BY DEF Announced, Unannounced
<1>3. versions' \in Seq(SUBSET Namespace) /\ Len(versions') = n + 1
  BY <1>1, <1>2, AppendProperties
<1>4. /\ news' = news \cup {Len(versions')} \/ news' = news
      /\ Announced(rooms) => Len(versions') \in news'
      /\ ~Announced(rooms) => untold'
  BY DEF Announced, Unannounced
<1> HIDE DEF n
<1>5. n + 1 \in 1 .. n + 1 /\ 1 .. n \subseteq 1 .. n + 1
  BY <1>1
<1> QED
  BY <1>1, <1>3, <1>4, <1>5 DEF n

\* A step of the page alone.
LEMMA PageKeeps ==
    ASSUME ListInv, UNCHANGED <<versions, news>>, page' \in Page(Len(versions))
    PROVE  ListInv'
BY DEF ListInv

LEMMA ReceivedTyped ==
    ASSUME NEW n \in Nat, NEW p \in Page(n), NEW v \in 0 .. n
    PROVE  RoomsReceived(p, v) \in Page(n)
BY DEF RoomsReceived, Page

LEMMA LoadingTyped ==
    ASSUME NEW n \in Nat, NEW p \in Page(n)
    PROVE  Loading(p) \in Page(n)
<1>1. Append(p.gets, 0) \in Seq(0 .. n)
  BY AppendProperties DEF Page
<1> QED
  BY <1>1 DEF Loading, Page

LEMMA WithoutTyped ==
    ASSUME NEW S, NEW s \in Seq(S), NEW i \in DOMAIN s
    PROVE  Without(s, i) \in Seq(S)
<1>1. /\ Len(s) \in Nat /\ i \in 1 .. Len(s)
      /\ \A j \in 1 .. Len(s) : s[j] \in S
  BY LenProperties
<1>2. SubSeq(s, 1, i - 1) \in Seq(S) /\ SubSeq(s, i + 1, Len(s)) \in Seq(S)
  BY <1>1, SubSeqProperties
<1> QED
  BY <1>2, ConcatProperties DEF Without

LEMMA AnsweredTyped ==
    ASSUME NEW n \in Nat, page \in Page(n), NEW i \in DOMAIN page.asked
    PROVE  /\ Answered(i) \in Page(n) /\ page.asked[i] \in Requests
           /\ Answered(i).list = page.list /\ Answered(i).seen = page.seen
           /\ Answered(i).events = page.events /\ Answered(i).gets = page.gets
           /\ Answered(i).online = page.online /\ Answered(i).missed = page.missed
<1>1. page.asked \in Seq(Requests)
  BY DEF Page
<1>2. Without(page.asked, i) \in Seq(Requests)
  BY <1>1, WithoutTyped
<1>3. page.asked[i] \in Requests
  BY <1>1
<1> QED
  BY <1>2, <1>3 DEF Answered, Page

LEMMA AskingTyped ==
    ASSUME NEW n \in Nat, NEW p \in Page(n), NEW op, NEW r,
           [op |-> op, room |-> r, stored |-> FALSE] \in Requests
    PROVE  /\ Asking(p, op, r) \in Page(n)
           /\ Asking(p, op, r).list = p.list /\ Asking(p, op, r).seen = p.seen
           /\ Asking(p, op, r).events = p.events /\ Asking(p, op, r).gets = p.gets
           /\ Asking(p, op, r).online = p.online
           /\ Asking(p, op, r).missed = p.missed
<1>1. p.asked \in Seq(Requests)
  BY DEF Page
<1>2. Append(p.asked, [op |-> op, room |-> r, stored |-> FALSE]) \in Seq(Requests)
  BY <1>1, AppendProperties
<1> QED
  BY <1>2 DEF Asking, Page

LEMMA GetStepKeeps ==
    ASSUME ListInv, NEW i \in DOMAIN page.gets,
           GetReads(i) \/ GetAnswers(i) \/ GetFails(i)
    PROVE  ListInv'
<1> DEFINE n == Len(versions)
<1>1. n \in Nat \ {0} /\ page \in Page(n) /\ page.gets \in Seq(0 .. n)
  BY DEF ListInv, Page
<1>2. Without(page.gets, i) \in Seq(0 .. n) /\ page.gets[i] \in 0 .. n
  BY <1>1, WithoutTyped
<1>3. CASE GetReads(i)
  <2>1. [page.gets EXCEPT ![i] = n] \in Seq(0 .. n)
    <3>1. n \in 0 .. n /\ i \in 1 .. Len(page.gets)
      BY <1>1, LenProperties
    <3> QED
      BY <1>1, <3>1, ExceptSeq
  <2>2. /\ page' = [page EXCEPT !.gets = [page.gets EXCEPT ![i] = n]]
        /\ UNCHANGED <<versions, news>>
    BY <1>3 DEF GetReads
  <2>3. page' \in Page(n)
    BY <1>1, <2>1, <2>2 DEF Page
  <2> QED
    BY <2>2, <2>3, PageKeeps
<1>4. CASE GetAnswers(i)
  <2> DEFINE p == [page EXCEPT !.gets = Without(@, i)]
  <2>1. p \in Page(n)
    BY <1>1, <1>2 DEF Page
  <2>2. page' = RoomsReceived(p, page.gets[i]) /\ UNCHANGED <<versions, news>>
    BY <1>4 DEF GetAnswers, store
  <2> HIDE DEF p
  <2> QED
    BY <1>1, <1>2, <2>1, <2>2, ReceivedTyped, PageKeeps
<1>5. CASE GetFails(i)
  <2>1. /\ page' = [page EXCEPT !.gets = Without(page.gets, i), !.missed = TRUE]
        /\ UNCHANGED <<versions, news>>
    BY <1>5 DEF GetFails, store
  <2>2. page' \in Page(n)
    BY <1>1, <1>2, <2>1 DEF Page
  <2> QED
    BY <2>1, <2>2, PageKeeps
<1> QED
  BY <1>3, <1>4, <1>5

LEMMA PageStepKeeps ==
    ASSUME ListInv,
           \/ \E v \in news : PublishRooms(v)
           \/ VoiceRoomsUpdated \/ LoadFirst \/ Disconnect \/ Reconnect
           \/ LeaveDeleted \/ ClickRoom
           \/ SubmitCreate \/ ClickDelete \/ ConfirmTimeout
           \/ \E i \in DOMAIN page.asked :
                 CreateAnswers(i) \/ DeleteAnswers(i) \/ RequestFails(i)
    PROVE  ListInv'
<1> DEFINE n == Len(versions)
<1>1. n \in Nat \ {0} /\ page \in Page(n) /\ news \in SUBSET (1 .. n)
  BY DEF ListInv
<1>2. ASSUME NEW v \in news, PublishRooms(v) PROVE ListInv'
  <2>1. page.events \in Seq(1 .. n) /\ v \in 1 .. n
    BY <1>1 DEF Page
  <2>2. Append(page.events, v) \in Seq(1 .. n)
    BY <2>1, AppendProperties
  <2>3. PICK events \in Seq(1 .. n) : page' = [page EXCEPT !.events = events]
    BY <1>2, <2>1, <2>2 DEF PublishRooms
  <2>4. page' \in Page(n)
    BY <1>1, <2>3 DEF Page
  <2> QED
    BY <1>1, <1>2, <2>4 DEF PublishRooms, ListInv
<1>3. CASE VoiceRoomsUpdated
  <2> DEFINE p == [page EXCEPT !.events = Tail(@)]
             v == Head(page.events)
  <2>1. page.events \in Seq(1 .. n) /\ page.events # <<>>
    BY <1>1, <1>3 DEF VoiceRoomsUpdated, Page
  <2>2. v \in 1 .. n /\ Tail(page.events) \in Seq(1 .. n)
    BY <2>1, HeadTailProperties
  <2>3. p \in Page(n)
    BY <1>1, <2>2 DEF Page
  <2>4. page' = RoomsReceived(p, v) /\ UNCHANGED <<versions, news>>
    BY <1>3 DEF VoiceRoomsUpdated, store
  <2> HIDE DEF p, v
  <2>5. v \in 0 .. n
    BY <1>1, <2>2
  <2> QED
    BY <1>1, <2>3, <2>4, <2>5, ReceivedTyped, PageKeeps
<1>4. CASE LoadFirst
  BY <1>1, <1>4, LoadingTyped, PageKeeps DEF LoadFirst, store
<1>5. CASE Disconnect
  <2>1. /\ page' = [page EXCEPT !.online = FALSE, !.events = <<>>]
        /\ UNCHANGED <<versions, news>> /\ <<>> \in Seq(1 .. n)
    BY <1>5 DEF Disconnect, store
  <2>2. page' \in Page(n)
    BY <1>1, <2>1 DEF Page
  <2> QED
    BY <2>1, <2>2, PageKeeps
<1>6. CASE Reconnect
  <2> DEFINE p == [page EXCEPT !.online = TRUE]
  <2>1. p \in Page(n)
    BY <1>1 DEF Page
  <2>2. page' = Loading(p) /\ UNCHANGED <<versions, news>>
    BY <1>6 DEF Reconnect, store
  <2> HIDE DEF p
  <2> QED
    BY <1>1, <2>1, <2>2, LoadingTyped, PageKeeps
<1>7. CASE LeaveDeleted \/ ClickRoom
  BY <1>1, <1>7, PageKeeps DEF LeaveDeleted, ClickRoom, store
<1>8. CASE SubmitCreate
  <2>1. [op |-> "create", room |-> NoRoom, stored |-> FALSE] \in Requests
    BY DEF Requests
  <2> QED
    BY <1>1, <1>8, <2>1, AskingTyped, PageKeeps DEF SubmitCreate, store
<1>9. CASE ClickDelete
  <2> DEFINE p == [page EXCEPT !.confirm = NoRoom]
  <2>1. PICK r \in Rooms : \/ page' = [page EXCEPT !.confirm = r]
                           \/ page' = Asking(p, "delete", r)
    BY <1>9 DEF ClickDelete
  <2>2. r \in Namespace /\ UNCHANGED <<versions, news>>
    BY <1>9, DirectoryTyped DEF ClickDelete, store
  <2>3. p \in Page(n)
    BY <1>1 DEF Page
  <2>4. [op |-> "delete", room |-> r, stored |-> FALSE] \in Requests
    BY <2>2 DEF Requests
  <2>5. [page EXCEPT !.confirm = r] \in Page(n)
    BY <1>1, <2>2 DEF Page
  <2> HIDE DEF p
  <2>6. page' \in Page(n)
    BY <1>1, <2>1, <2>3, <2>4, <2>5, AskingTyped
  <2> QED
    BY <2>2, <2>6, PageKeeps
<1>10. CASE ConfirmTimeout
  <2>1. page' \in Page(n) /\ UNCHANGED <<versions, news>>
    BY <1>1, <1>10 DEF ConfirmTimeout, store, Page
  <2> QED
    BY <2>1, PageKeeps
<1>11. ASSUME NEW i \in DOMAIN page.asked,
              CreateAnswers(i) \/ DeleteAnswers(i) \/ RequestFails(i)
       PROVE  ListInv'
  <2>1. Answered(i) \in Page(n)
    BY <1>1, AnsweredTyped
  <2>2. Loading(Answered(i)) \in Page(n)
    BY <1>1, <2>1, LoadingTyped
  <2> QED
    BY <1>11, <2>1, <2>2, PageKeeps
    DEF CreateAnswers, DeleteAnswers, RequestFails, store
<1> QED
  BY <1>2, <1>3, <1>4, <1>5, <1>6, <1>7, <1>8, <1>9, <1>10, <1>11

\* What an edit for the request i leaves of the page.
LEMMA ServedPage ==
    ASSUME ListInv, NEW i \in DOMAIN page.asked, NEW r \in Namespace, NEW rooms,
           Served(i, r, rooms)
    PROVE  /\ page' \in Page(Len(versions))
           /\ page'.list = page.list /\ page'.seen = page.seen
           /\ page'.events = page.events /\ page'.gets = page.gets
           /\ page'.online = page.online /\ page'.missed = page.missed
<1> DEFINE n == Len(versions)
           q == [page.asked[i] EXCEPT !.room = r, !.stored = TRUE]
<1>1. n \in Nat \ {0} /\ page \in Page(n) /\ page.asked \in Seq(Requests)
  BY DEF ListInv, Page
<1>2. page.asked[i] \in Requests
  BY <1>1, AnsweredTyped
<1>3. q \in Requests
  <2>1. page.asked[i] \in [op: {"create", "delete"}, room: Namespace \cup {NoRoom},
                           stored: BOOLEAN]
    <3>1. CASE page.asked[i] = [op |-> "create", room |-> NoRoom, stored |-> FALSE]
      BY <3>1
    <3>2. CASE page.asked[i] \in [op: {"create", "delete"}, room: Namespace,
                                  stored: BOOLEAN]
      BY <3>2
    <3> QED
      BY <1>2, <3>1, <3>2 DEF Requests
  <2>2. q \in [op: {"create", "delete"}, room: Namespace, stored: BOOLEAN]
    BY <2>1
  <2> QED
    BY <2>2 DEF Requests
<1>4. [page.asked EXCEPT ![i] = q] \in Seq(Requests)
  <2> HIDE DEF q
  <2>1. i \in 1 .. Len(page.asked)
    BY <1>1, LenProperties
  <2> QED
    BY <1>1, <1>3, <2>1, ExceptSeq
<1>5. CASE page' = Answered(i)
  BY <1>1, <1>5, AnsweredTyped
<1>6. CASE page' = [page EXCEPT !.asked = [page.asked EXCEPT ![i] = q]]
  <2> HIDE DEF n, q
  <2> QED
    BY <1>1, <1>4, <1>6 DEF Page, n
<1> QED
  BY <1>5, <1>6 DEF Served

\* The three edits: what they do to the page, and to the directory.
LEMMA EditIs ==
    ASSUME ListInv,
           EditByOthers \/ \E i \in DOMAIN page.asked : CreateStored(i) \/ DeleteStored(i)
    PROVE  /\ page' \in Page(Len(versions))
           /\ page'.list = page.list /\ page'.seen = page.seen
           /\ page'.events = page.events /\ page'.gets = page.gets
           /\ page'.online = page.online /\ page'.missed = page.missed
           /\ \E rooms \in SUBSET Namespace : Announced(rooms) \/ Unannounced(rooms)
<1>1. CASE EditByOthers
  <2>1. page' = page
    BY <1>1 DEF EditByOthers
  <2>2. \E rooms \in SUBSET Namespace : Announced(rooms) \/ Unannounced(rooms)
    BY <1>1, DirectoryTyped DEF EditByOthers
  <2> QED
    BY <2>1, <2>2 DEF ListInv
<1>2. ASSUME NEW i \in DOMAIN page.asked, NEW r \in Namespace,
             NEW rooms \in SUBSET Namespace, Served(i, r, rooms)
      PROVE  /\ page' \in Page(Len(versions))
             /\ page'.list = page.list /\ page'.seen = page.seen
             /\ page'.events = page.events /\ page'.gets = page.gets
             /\ page'.online = page.online /\ page'.missed = page.missed
             /\ Announced(rooms) \/ Unannounced(rooms)
  BY <1>2, ServedPage DEF Served
<1>3. ASSUME NEW i \in DOMAIN page.asked, CreateStored(i) \/ DeleteStored(i)
      PROVE  \E r \in Namespace, rooms \in SUBSET Namespace : Served(i, r, rooms)
  <2>1. CASE CreateStored(i)
    BY <2>1, DirectoryTyped DEF CreateStored
  <2>2. CASE DeleteStored(i)
    BY <2>2, DirectoryTyped DEF DeleteStored
  <2> QED
    BY <1>3, <2>1, <2>2
<1> QED
  BY <1>1, <1>2, <1>3

LEMMA EditKeeps ==
    ASSUME ListInv,
           EditByOthers \/ \E i \in DOMAIN page.asked : CreateStored(i) \/ DeleteStored(i)
    PROVE  ListInv'
<1>1. PICK rooms \in SUBSET Namespace : Announced(rooms) \/ Unannounced(rooms)
  BY EditIs
<1>2. /\ versions' \in Seq(SUBSET Namespace) /\ Len(versions') = Len(versions) + 1
      /\ news' \in SUBSET (1 .. Len(versions'))
  BY <1>1, VersionAdded
<1>3. Len(versions) \in Nat \ {0} /\ page' \in Page(Len(versions))
  BY EditIs DEF ListInv
<1>4. page' \in Page(Len(versions) + 1) /\ Len(versions) + 1 \in Nat \ {0}
  BY <1>3, PageGrows
<1> QED
  BY <1>2, <1>4 DEF ListInv

LEMMA ListInvInductive == ListInv /\ [ChannelsNext]_channelVars => ListInv'
<1> SUFFICES ASSUME ListInv, [ChannelsNext]_channelVars
             PROVE  ListInv'
  OBVIOUS
<1>1. CASE ListStep
  BY <1>1, PageStepKeeps, GetStepKeeps, EditKeeps DEF ListStep
<1>2. CASE UNCHANGED <<store, page>>
  BY <1>2 DEF ListInv, store
<1> QED
  BY <1>1, <1>2 DEF ChannelsNext, channelVars

LEMMA ListInit == ChannelsInit => ListInv
<1> SUFFICES ASSUME ChannelsInit PROVE ListInv
  OBVIOUS
<1>1. PICK r \in Namespace : versions = <<{r}>>
  BY DEF ChannelsInit
<1>2. versions \in Seq(SUBSET Namespace) /\ Len(versions) = 1
  BY <1>1
<1>3. <<>> \in Seq(1 .. 1) /\ <<>> \in Seq(0 .. 1) /\ <<>> \in Seq(Requests)
  OBVIOUS
<1>4. page \in Page(1) /\ news = {}
  BY <1>3 DEF ChannelsInit, Page, NoRoom
<1> QED
  BY <1>2, <1>4 DEF ListInv

-----------------------------------------------------------------------------
(* The list uses the sessions.                                              *)

LEMMA ListStepIsVoiceStep ==
    ASSUME ListInv, ListStep
    PROVE  [SessionNext]_sessionVars
<1>1. Me \in User
  BY ChannelsAssumption
<1>2. CASE LeaveDeleted
  BY <1>1, <1>2 DEF LeaveDeleted, SessionNext, VoiceStep
<1>3. ASSUME NEW r \in Namespace, Join(r) PROVE [SessionNext]_sessionVars
  BY <1>1, <1>3 DEF Join, SessionNext, VoiceStep
<1>4. CASE ClickRoom
  BY <1>3, <1>4, DirectoryTyped DEF ClickRoom
<1>5. ASSUME NEW i \in DOMAIN page.asked, CreateAnswers(i)
      PROVE  [SessionNext]_sessionVars
  <2>1. page.asked[i] \in Requests /\ page.asked[i].stored
    BY <1>5, AnsweredTyped DEF CreateAnswers, ListInv
  <2>2. page.asked[i].room \in Namespace
    BY <2>1 DEF Requests
  <2> QED
    BY <1>3, <1>5, <2>2 DEF CreateAnswers
<1>6. CASE UNCHANGED sessionVars
  BY <1>6
<1>7. ASSUME NEW i \in DOMAIN page.gets, GetReads(i) \/ GetAnswers(i) \/ GetFails(i)
      PROVE  UNCHANGED sessionVars
  BY <1>7 DEF GetReads, GetAnswers, GetFails
<1>8. ASSUME NEW i \in DOMAIN page.asked, \/ CreateStored(i) \/ DeleteStored(i)
                                          \/ DeleteAnswers(i) \/ RequestFails(i)
      PROVE  UNCHANGED sessionVars
  BY <1>8 DEF CreateStored, DeleteStored, Served, DeleteAnswers, RequestFails
<1>9. CASE \/ EditByOthers \/ (\E v \in news : PublishRooms(v)) \/ VoiceRoomsUpdated
           \/ LoadFirst \/ Disconnect \/ Reconnect
           \/ SubmitCreate \/ ClickDelete \/ ConfirmTimeout
  BY <1>9 DEF EditByOthers, PublishRooms, VoiceRoomsUpdated, LoadFirst, Disconnect,
     Reconnect, SubmitCreate, ClickDelete, ConfirmTimeout
<1> QED
  BY <1>2, <1>4, <1>5, <1>6, <1>7, <1>8, <1>9 DEF ListStep

\* Every behaviour of the list with its sessions is one of the sessions alone:
\* the effect that leaves a room, the clicks and the late answers of requests
\* only do what leaveVoiceRoom and joinVoiceRoom allow (voice_channels.jsx 78-156).
THEOREM ListUsesSessions == ChannelsSpec => SessionSpec
<1>1. ChannelsInit => SessionInit
  BY DEF ChannelsInit
<1>2. ListInv /\ [ChannelsNext]_channelVars => [SessionNext]_sessionVars
  <2> SUFFICES ASSUME ListInv, [ChannelsNext]_channelVars
               PROVE  [SessionNext]_sessionVars
    OBVIOUS
  <2>1. CASE ListStep
    BY <2>1, ListStepIsVoiceStep
  <2>2. CASE SessionNext \/ UNCHANGED channelVars
    BY <2>2 DEF channelVars
  <2> QED
    BY <2>1, <2>2 DEF ChannelsNext
<1> QED
  BY <1>1, <1>2, ListInit, ListInvInductive, PTL DEF ChannelsSpec, SessionSpec

\* Hence the page keeps the promises of its sessions.
THEOREM ListKeepsSessions ==
    ChannelsSpec => [](VoiceTypeOK /\ MicFollowsSession /\ DeafIsSilent /\ ShownLiveIsLive)
BY ListUsesSessions, VoiceTypeCorrect, MicrophoneFollows, DeafHearsNobody,
   ShownLiveIsTrue, PTL

-----------------------------------------------------------------------------
(* The list is as new as the news.  Of the newest version n a connected page *)
(* p knows, or an event tells it, published (of w) or not, or a GET that has *)
(* read it or is still to read; or it is untold (u), or it is the first and  *)
(* the page has not asked for the list.                                     *)
Foreseen(n, w, u, p) ==
    \/ p.seen = n \/ n \in w \/ u
    \/ \E i \in DOMAIN p.events : p.events[i] = n
    \/ \E i \in DOMAIN p.gets : p.gets[i] \in {0, n}
    \/ n = 1 /\ p.list = 0 /\ p.gets = <<>>

(* And no list is newer than the newest that was received.                   *)
UpToDate(n, w, u, p) ==
    /\ p.list <= p.seen
    /\ ~p.missed /\ p.online => Foreseen(n, w, u, p)

NewsKept == UpToDate(Len(versions), news, untold, page)

\* What Without leaves of a sequence.
LEMMA WithoutKeeps ==
    ASSUME NEW S, NEW s \in Seq(S), NEW i \in DOMAIN s, NEW j \in DOMAIN s, i # j
    PROVE  \E k \in DOMAIN Without(s, i) : Without(s, i)[k] = s[j]
<1> DEFINE a == SubSeq(s, 1, i - 1)
           b == SubSeq(s, i + 1, Len(s))
<1>1. /\ Len(s) \in Nat /\ i \in 1 .. Len(s) /\ j \in 1 .. Len(s)
  BY LenProperties
<1>2. /\ a \in Seq(S) /\ Len(a) = i - 1
      /\ \A k \in 1 .. i - 1 : a[k] = s[k]
  BY <1>1, SubSeqProperties
<1>3. /\ b \in Seq(S) /\ Len(b) = Len(s) - i
      /\ \A k \in 1 .. Len(s) - i : b[k] = s[i + k]
  BY <1>1, SubSeqProperties
<1> HIDE DEF a, b
<1>4. /\ Len(a \o b) = Len(s) - 1 /\ a \o b \in Seq(S)
      /\ \A k \in 1 .. Len(s) - 1 :
            (a \o b)[k] = IF k <= i - 1 THEN a[k] ELSE b[k - (i - 1)]
  <2>1. Len(a) + Len(b) = Len(s) - 1 /\ Len(a) \in Nat /\ Len(b) \in Nat
    BY <1>1, <1>2, <1>3
  <2>2. a \o b \in Seq(S) /\ Len(a \o b) = Len(a) + Len(b)
    BY <1>2, <1>3, ConcatProperties
  <2>3. \A k \in 1 .. Len(a) + Len(b) :
           (a \o b)[k] = IF k <= Len(a) THEN a[k] ELSE b[k - Len(a)]
    BY <1>2, <1>3, ConcatProperties
  <2> QED BY <1>2, <2>1, <2>2, <2>3
<1>5. DOMAIN (a \o b) = 1 .. Len(s) - 1
  BY <1>4, LenProperties
<1>6. CASE j < i
  <2>1. j \in 1 .. i - 1 /\ j \in 1 .. Len(s) - 1
    BY <1>1, <1>6
  <2>2. (a \o b)[j] = s[j]
    BY <1>2, <1>4, <2>1
  <2> QED BY <1>5, <2>1, <2>2 DEF Without, a, b
<1>7. CASE j > i
  <2>1. j - 1 \in 1 .. Len(s) - 1 /\ j - i \in 1 .. Len(s) - i
        /\ ~(j - 1 <= i - 1) /\ j - 1 - (i - 1) = j - i /\ i + (j - i) = j
    BY <1>1, <1>7
  <2>2. (a \o b)[j - 1] = b[j - i]
    BY <1>4, <2>1
  <2>3. b[j - i] = s[j]
    BY <1>3, <2>1
  <2> QED BY <1>5, <2>1, <2>2, <2>3 DEF Without, a, b
<1> QED BY <1>1, <1>6, <1>7

\* What Tail leaves of one.
LEMMA TailKeeps ==
    ASSUME NEW S, NEW s \in Seq(S), s # <<>>, NEW j \in DOMAIN s
    PROVE  Head(s) = s[j] \/ \E k \in DOMAIN Tail(s) : Tail(s)[k] = s[j]
<1> DEFINE l == Len(s) - 1
<1>1. l \in Nat /\ Len(s) = l + 1
  <2>1. Len(s) \in Nat \ {0}
    BY EmptySeq
  <2> QED BY <2>1
<1>2. /\ Tail(s) \in Seq(S) /\ Len(Tail(s)) = l
      /\ \A i \in 1 .. l : Tail(s)[i] = s[i + 1]
  BY <1>1, HeadTailProperties
<1> HIDE DEF l
<1>3. j \in 1 .. l + 1 /\ DOMAIN Tail(s) = 1 .. l
  BY <1>1, <1>2, LenProperties
<1>4. CASE j = 1
  BY <1>4
<1>5. CASE j # 1
  <2>1. j - 1 \in 1 .. l /\ (j - 1) + 1 = j
    BY <1>1, <1>3, <1>5
  <2>2. Tail(s)[j - 1] = s[j]
    BY <1>2, <2>1
  <2> QED BY <1>3, <2>1, <2>2
<1> QED BY <1>4, <1>5

\* What Append adds and keeps.
LEMMA AppendHas ==
    ASSUME NEW S, NEW s \in Seq(S), NEW x \in S
    PROVE  /\ \E k \in DOMAIN Append(s, x) : Append(s, x)[k] = x
           /\ \A j \in DOMAIN s : \E k \in DOMAIN Append(s, x) : Append(s, x)[k] = s[j]
<1>1. Append(s, x) \in Seq(S) /\ Len(Append(s, x)) = Len(s) + 1 /\ Len(s) \in Nat
  BY AppendProperties, LenProperties
<1>2. DOMAIN Append(s, x) = 1 .. Len(s) + 1 /\ DOMAIN s = 1 .. Len(s)
  BY <1>1, LenProperties
<1>3. /\ Append(s, x)[Len(s) + 1] = x /\ Len(s) + 1 \in 1 .. Len(s) + 1
      /\ \A j \in 1 .. Len(s) : Append(s, x)[j] = s[j] /\ j \in 1 .. Len(s) + 1
  BY <1>1, AppendProperties
<1> QED BY <1>2, <1>3

\* A step that touches neither the list nor what is under way.
LEMMA NewsSame ==
    ASSUME NEW n, NEW w, NEW u, NEW p, NEW q, UpToDate(n, w, u, p),
           q.list = p.list, q.seen = p.seen, q.events = p.events, q.gets = p.gets,
           q.online = p.online, q.missed = p.missed
    PROVE  UpToDate(n, w, u, q)
BY DEF UpToDate, Foreseen

\* A new GET will read the newest version.
LEMMA NewsLoading ==
    ASSUME NEW n \in Nat, NEW w, NEW u, NEW p \in Page(n), p.list <= p.seen
    PROVE  UpToDate(n, w, u, Loading(p))
<1> DEFINE g == Append(p.gets, 0)
<1>1. p.gets \in Seq(0 .. n) /\ 0 \in 0 .. n
  BY DEF Page
<1>2. \E k \in DOMAIN g : g[k] = 0
  <2> DEFINE S == 0 .. n
  <2>1. p.gets \in Seq(S) /\ 0 \in S
    BY <1>1
  <2> HIDE DEF S
  <2> QED BY <2>1, AppendHas
<1>3. /\ Loading(p).gets = g /\ Loading(p).list = p.list
      /\ Loading(p).seen = p.seen
  BY DEF Loading, Page
<1> HIDE DEF g
<1> QED BY <1>2, <1>3 DEF UpToDate, Foreseen

\* News arrive: either they are the newest, or those are still to come.
LEMMA NewsReceived ==
    ASSUME NEW n \in Nat, NEW w, NEW u, NEW p \in Page(n), NEW v \in 1 .. n,
           v = n \/ (~p.missed /\ p.online => Foreseen(n, w, u, p))
    PROVE  UpToDate(n, w, u, RoomsReceived(p, v))
<1> DEFINE q == RoomsReceived(p, v)
<1>1. /\ q.list = v /\ q.seen = (IF v > p.seen THEN v ELSE p.seen)
      /\ q.events = p.events /\ q.gets = p.gets
      /\ q.online = p.online /\ q.missed = p.missed
  BY DEF RoomsReceived, Page
<1>2. p.seen \in 0 .. n
  BY DEF Page
<1> HIDE DEF q
<1>3. v <= q.seen /\ (v = n \/ p.seen = n => q.seen = n) /\ (n = 1 => v = n)
  BY <1>1, <1>2
<1>4. UpToDate(n, w, u, q)
  BY <1>1, <1>3 DEF UpToDate, Foreseen
<1> QED BY <1>4 DEF q

LEMMA NewsPublished ==
    ASSUME ListInv, NewsKept, NEW v \in news, PublishRooms(v)
    PROVE  NewsKept'
<1> DEFINE n == Len(versions)
           events == IF page.online THEN Append(page.events, v) ELSE page.events
<1>1. /\ n \in Nat \ {0} /\ page \in Page(n) /\ UpToDate(n, news, untold, page)
      /\ v \in 1 .. n /\ page.events \in Seq(1 .. n)
  BY DEF ListInv, NewsKept, Page
<1>2. /\ page' = [page EXCEPT !.events = events] /\ news' = news \ {v}
      /\ UNCHANGED <<versions, untold>>
  BY DEF PublishRooms
<1>3. page.online =>
         /\ \E k \in DOMAIN events : events[k] = v
         /\ \A j \in DOMAIN page.events :
               \E k \in DOMAIN events : events[k] = page.events[j]
  <2> DEFINE S == 1 .. n
  <2>1. page.events \in Seq(S) /\ v \in S
    BY <1>1
  <2>2. page.online => events = Append(page.events, v)
    OBVIOUS
  <2> HIDE DEF S, events
  <2>3. /\ \E k \in DOMAIN Append(page.events, v) : Append(page.events, v)[k] = v
        /\ \A j \in DOMAIN page.events :
              \E k \in DOMAIN Append(page.events, v) :
                 Append(page.events, v)[k] = page.events[j]
    BY <2>1, AppendHas
  <2> QED BY <2>2, <2>3
<1> HIDE DEF events
<1>4. /\ page'.list = page.list /\ page'.seen = page.seen /\ page'.events = events
      /\ page'.gets = page.gets /\ page'.online = page.online
      /\ page'.missed = page.missed
  BY <1>1, <1>2 DEF Page
<1> HIDE DEF n
<1>5. ASSUME page.online, Foreseen(n, news, untold, page)
      PROVE  Foreseen(n, news \ {v}, untold, page')
  <2>1. CASE n \in news
    BY <1>3, <1>5, <2>1, <1>4 DEF Foreseen
  <2>2. CASE \E i \in DOMAIN page.events : page.events[i] = n
    BY <1>3, <1>5, <2>2, <1>4 DEF Foreseen
  <2> QED BY <1>4, <1>5, <2>1, <2>2 DEF Foreseen
<1>6. UpToDate(n, news \ {v}, untold, page')
  BY <1>1, <1>4, <1>5 DEF UpToDate
<1> QED BY <1>2, <1>6 DEF NewsKept, n

LEMMA NewsGetStep ==
    ASSUME ListInv, NewsKept, NEW i \in DOMAIN page.gets,
           GetReads(i) \/ GetAnswers(i) \/ GetFails(i)
    PROVE  NewsKept'
<1> DEFINE n == Len(versions)
<1>1. /\ n \in Nat \ {0} /\ page \in Page(n) /\ UpToDate(n, news, untold, page)
      /\ page.gets \in Seq(0 .. n) /\ page.list <= page.seen
  BY DEF ListInv, NewsKept, UpToDate, Page
<1>2. CASE GetReads(i)
  <2> DEFINE g == [page.gets EXCEPT ![i] = n]
  <2>1. page' = [page EXCEPT !.gets = g] /\ UNCHANGED versions
    BY <1>2 DEF GetReads
  <2>2. i \in DOMAIN g /\ g[i] = n
    OBVIOUS
  <2> HIDE DEF g
  <2>3. /\ page'.gets = g /\ page'.list = page.list /\ page'.seen = page.seen
    BY <1>1, <2>1 DEF Page
  <2>4. UpToDate(n, news', untold', page')
    BY <1>1, <2>2, <2>3 DEF UpToDate, Foreseen
  <2> QED BY <2>1, <2>4 DEF NewsKept
<1>3. CASE GetAnswers(i)
  <2> DEFINE p == [page EXCEPT !.gets = Without(@, i)]
             v == page.gets[i]
  <2>1. page' = RoomsReceived(p, v) /\ UNCHANGED <<versions, news, untold>> /\ v # 0
    BY <1>3 DEF GetAnswers, store
  <2>2. v \in 1 .. n /\ page.gets # <<>>
    BY <1>1, <2>1
  <2>3. Without(page.gets, i) \in Seq(0 .. n)
    BY <1>1, WithoutTyped
  <2>4. /\ p \in Page(n) /\ p.gets = Without(page.gets, i)
        /\ p.list = page.list /\ p.seen = page.seen /\ p.events = page.events
        /\ p.online = page.online /\ p.missed = page.missed
    BY <1>1, <2>3 DEF Page
  <2>5. ASSUME NEW j \in DOMAIN page.gets, page.gets[j] \in {0, n}, v # n
        PROVE  \E k \in DOMAIN p.gets : p.gets[k] \in {0, n}
    <3>1. j # i
      BY <2>1, <2>5
    <3>2. PICK k \in DOMAIN Without(page.gets, i) :
             Without(page.gets, i)[k] = page.gets[j]
      BY <1>1, <3>1, WithoutKeeps
    <3> QED BY <2>4, <2>5, <3>2
  <2> HIDE DEF p, v
  <2>6. v = n \/ (~p.missed /\ p.online => Foreseen(n, news, untold, p))
    BY <1>1, <2>2, <2>4, <2>5 DEF UpToDate, Foreseen
  <2>7. UpToDate(n, news, untold, RoomsReceived(p, v))
    BY <1>1, <2>2, <2>4, <2>6, NewsReceived
  <2> QED BY <2>1, <2>7 DEF NewsKept
<1>4. CASE GetFails(i)
  <2>1. /\ page' = [page EXCEPT !.gets = Without(page.gets, i), !.missed = TRUE]
        /\ UNCHANGED <<versions, news, untold>>
    BY <1>4 DEF GetFails, store
  <2>2. page'.list = page.list /\ page'.seen = page.seen /\ page'.missed
    BY <1>1, <2>1 DEF Page
  <2>3. UpToDate(n, news, untold, page')
    BY <1>1, <2>2 DEF UpToDate
  <2> QED BY <2>1, <2>3 DEF NewsKept
<1> QED BY <1>2, <1>3, <1>4

LEMMA NewsPageStep ==
    ASSUME ListInv, NewsKept,
           \/ VoiceRoomsUpdated \/ LoadFirst \/ Disconnect \/ Reconnect
           \/ LeaveDeleted \/ ClickRoom
           \/ SubmitCreate \/ ClickDelete \/ ConfirmTimeout
           \/ \E i \in DOMAIN page.asked :
                 CreateAnswers(i) \/ DeleteAnswers(i) \/ RequestFails(i)
    PROVE  NewsKept'
<1> DEFINE n == Len(versions)
<1>1. /\ n \in Nat \ {0} /\ page \in Page(n) /\ UpToDate(n, news, untold, page)
      /\ page.list <= page.seen
  BY DEF ListInv, NewsKept, UpToDate
<1>2. UNCHANGED <<versions, news, untold>>
  BY DEF VoiceRoomsUpdated, LoadFirst, Disconnect, Reconnect, LeaveDeleted, ClickRoom,
     SubmitCreate, ClickDelete, ConfirmTimeout, CreateAnswers, DeleteAnswers,
     RequestFails, store
<1>3. ASSUME UpToDate(n, news, untold, page') PROVE NewsKept'
  BY <1>2, <1>3 DEF NewsKept
<1>4. CASE VoiceRoomsUpdated
  <2> DEFINE p == [page EXCEPT !.events = Tail(@)]
             v == Head(page.events)
  <2>1. page.events # <<>> /\ page' = RoomsReceived(p, v)
    BY <1>4 DEF VoiceRoomsUpdated
  <2>2. /\ page.events \in Seq(1 .. n)
        /\ v \in 1 .. n /\ Tail(page.events) \in Seq(1 .. n)
    BY <1>1, <2>1, HeadTailProperties DEF Page
  <2>3. /\ p \in Page(n) /\ p.events = Tail(page.events) /\ p.gets = page.gets
        /\ p.list = page.list /\ p.seen = page.seen
        /\ p.online = page.online /\ p.missed = page.missed
    BY <1>1, <2>2 DEF Page
  <2>4. \A j \in DOMAIN page.events :
           v = page.events[j] \/ \E k \in DOMAIN p.events : p.events[k] = page.events[j]
    <3> DEFINE S == 1 .. n
    <3>1. page.events \in Seq(S)
      BY <2>2
    <3> HIDE DEF S, p, v
    <3>2. \A j \in DOMAIN page.events :
             \/ Head(page.events) = page.events[j]
             \/ \E k \in DOMAIN Tail(page.events) :
                   Tail(page.events)[k] = page.events[j]
      BY <2>1, <3>1, TailKeeps
    <3> QED BY <2>3, <3>2 DEF v
  <2> HIDE DEF p, v
  <2>5. v = n \/ (~p.missed /\ p.online => Foreseen(n, news, untold, p))
    BY <1>1, <2>3, <2>4 DEF UpToDate, Foreseen
  <2>6. UpToDate(n, news, untold, RoomsReceived(p, v))
    BY <1>1, <2>2, <2>3, <2>5, NewsReceived
  <2> QED BY <1>3, <2>1, <2>6
<1>5. CASE LoadFirst
  <2>1. UpToDate(n, news, untold, Loading(page))
    BY <1>1, NewsLoading
  <2> QED BY <1>3, <1>5, <2>1 DEF LoadFirst
<1>6. CASE Disconnect
  <2>1. page' = [page EXCEPT !.online = FALSE, !.events = <<>>]
    BY <1>6 DEF Disconnect
  <2>2. page'.list = page.list /\ page'.seen = page.seen /\ page'.online = FALSE
    BY <1>1, <2>1 DEF Page
  <2>3. UpToDate(n, news, untold, page')
    BY <1>1, <2>2 DEF UpToDate
  <2> QED BY <1>3, <2>3
<1>7. CASE Reconnect
  <2> DEFINE p == [page EXCEPT !.online = TRUE]
  <2>1. page' = Loading(p)
    BY <1>7 DEF Reconnect
  <2>2. p \in Page(n) /\ p.list = page.list /\ p.seen = page.seen
    BY <1>1 DEF Page
  <2> HIDE DEF p
  <2>3. UpToDate(n, news, untold, Loading(p))
    BY <1>1, <2>2, NewsLoading
  <2> QED BY <1>3, <2>1, <2>3
<1>8. ASSUME NEW i \in DOMAIN page.asked, CreateAnswers(i) \/ DeleteAnswers(i)
      PROVE  NewsKept'
  <2>1. page' = Loading(Answered(i))
    BY <1>8 DEF CreateAnswers, DeleteAnswers
  <2>2. /\ Answered(i) \in Page(n)
        /\ Answered(i).list = page.list /\ Answered(i).seen = page.seen
    BY <1>1, AnsweredTyped
  <2>3. UpToDate(n, news, untold, Loading(Answered(i)))
    BY <1>1, <2>2, NewsLoading
  <2> QED BY <1>3, <2>1, <2>3
<1>9. ASSUME page'.list = page.list, page'.seen = page.seen,
             page'.events = page.events, page'.gets = page.gets,
             page'.online = page.online, page'.missed = page.missed
      PROVE  NewsKept'
  BY <1>1, <1>3, <1>9, NewsSame
<1>10. ASSUME NEW i \in DOMAIN page.asked, RequestFails(i) PROVE NewsKept'
  BY <1>1, <1>9, <1>10, AnsweredTyped DEF RequestFails
<1>11. CASE SubmitCreate
  <2>1. [op |-> "create", room |-> NoRoom, stored |-> FALSE] \in Requests
    BY DEF Requests
  <2> QED BY <1>1, <1>9, <1>11, <2>1, AskingTyped DEF SubmitCreate
<1>12. CASE ClickDelete
  <2> DEFINE p == [page EXCEPT !.confirm = NoRoom]
  <2>1. PICK r \in Rooms : \/ page' = [page EXCEPT !.confirm = r]
                           \/ page' = Asking(p, "delete", r)
    BY <1>12 DEF ClickDelete
  <2>2. [op |-> "delete", room |-> r, stored |-> FALSE] \in Requests
    BY <1>12, <2>1, DirectoryTyped DEF ClickDelete, Requests
  <2>3. /\ p \in Page(n) /\ p.list = page.list /\ p.seen = page.seen
        /\ p.events = page.events /\ p.gets = page.gets
        /\ p.online = page.online /\ p.missed = page.missed
    BY <1>1 DEF Page
  <2> HIDE DEF p
  <2>4. CASE page' = Asking(p, "delete", r)
    BY <1>1, <1>9, <2>2, <2>3, <2>4, AskingTyped
  <2>5. CASE page' = [page EXCEPT !.confirm = r]
    BY <1>1, <1>9, <2>5 DEF Page
  <2> QED BY <2>1, <2>4, <2>5
<1>13. CASE LeaveDeleted \/ ClickRoom \/ ConfirmTimeout
  <2>1. page' = page \/ page' = [page EXCEPT !.confirm = NoRoom]
    BY <1>13 DEF LeaveDeleted, ClickRoom, ConfirmTimeout
  <2> QED BY <1>1, <1>9, <2>1 DEF Page
<1> QED BY <1>4, <1>5, <1>6, <1>7, <1>8, <1>10, <1>11, <1>12, <1>13

\* An edit is news, or nobody is told.
LEMMA NewsEditStep ==
    ASSUME ListInv, NewsKept,
           EditByOthers \/ \E i \in DOMAIN page.asked : CreateStored(i) \/ DeleteStored(i)
    PROVE  NewsKept'
<1>1. PICK rooms \in SUBSET Namespace : Announced(rooms) \/ Unannounced(rooms)
  BY EditIs
<1>2. Len(versions') \in news' \/ untold'
  BY <1>1, VersionAdded
<1>3. page'.list = page.list /\ page'.seen = page.seen
  BY EditIs
<1> QED BY <1>2, <1>3 DEF NewsKept, UpToDate, Foreseen

LEMMA NewsKeptInductive ==
    ListInv /\ NewsKept /\ [ChannelsNext]_channelVars => NewsKept'
<1> SUFFICES ASSUME ListInv, NewsKept, [ChannelsNext]_channelVars
             PROVE  NewsKept'
  OBVIOUS
<1>1. CASE ListStep
  BY <1>1, NewsPublished, NewsGetStep, NewsPageStep, NewsEditStep DEF ListStep
<1>2. CASE UNCHANGED <<store, page>>
  BY <1>2 DEF NewsKept, store
<1> QED
  BY <1>1, <1>2 DEF ChannelsNext, channelVars

\* Whatever events a broken WebSocket loses, in whatever order two nodes publish
\* theirs, and in whatever order the GETs of the page are read and answered, once
\* nothing is under way the list is the directory, unless a GET failed, old news
\* overtook newer ones (loadVoiceRooms, voice/actions.js 5-27), or the last edit
\* was stored with an error and so announced to nobody (voice_rooms.go 100-104).
THEOREM ListIsFresh == ChannelsSpec => []StaleOnlyByOvertaking
<1>1. ChannelsInit => NewsKept
  <2> SUFFICES ASSUME ChannelsInit PROVE NewsKept
    OBVIOUS
  <2>1. PICK r \in Namespace : versions = <<{r}>>
    BY DEF ChannelsInit
  <2>2. /\ Len(versions) = 1 /\ page.list = 0 /\ page.seen = 0 /\ page.gets = <<>>
    BY <2>1 DEF ChannelsInit
  <2> QED
    BY <2>2 DEF NewsKept, UpToDate, Foreseen
<1>2. ListInv /\ NewsKept => StaleOnlyByOvertaking
  <2> SUFFICES ASSUME ListInv, NewsKept, ListIsQuiet, ~page.missed, ~untold
               PROVE  page.list = Len(versions) \/ page.list < page.seen
    BY DEF StaleOnlyByOvertaking
  <2>1. page.seen = Len(versions) /\ page.list <= page.seen
    BY DEF NewsKept, UpToDate, Foreseen, ListIsQuiet
  <2> QED
    BY <2>1 DEF ListInv, Page
<1> QED
  BY <1>1, <1>2, ListInit, ListInvInductive, NewsKeptInductive, PTL DEF ChannelsSpec
=============================================================================
