--------------------------- MODULE VoiceNewsProofs ---------------------------
(* Proof that a participant who is shown live is not muted, or the news are *)
(* on their way: ShownLiveIsLive of module VoiceSession.                    *)
EXTENDS VoiceProofs

\* A channel from n to m is open at both ends.
ChannelOpen(n, m) == peers[n][m] = "up" /\ peers[m][n] \in {"new", "up"}

(* The inductive invariant: the other end of a Peer that is up is there; ... *)
EndsMeet == \A m, n \in Id : peers[m][n] = "up" => peers[n][m] \in {"new", "up"}

(* ... messages are under way on open channels only, and the newest one is   *)
(* true; ...                                                                 *)
Newest(s) == s[Len(s)]
NewsIsTrue ==
    \A m, n \in Id : wire[n][m] # <<>> =>
        ChannelOpen(n, m) /\ Newest(wire[n][m]) = voice[n].muted

(* ... and who is shown live has sent something on the present connection.   *)
HeardFrom ==
    \A m, n \in Id :
        /\ entry[m][n].shown # "absent" => peers[m][n] \in {"up", "gone"}
        /\ entry[m][n].shown = "live" => peers[n][m] = "up" \/ peers[m][n] = "gone"

NewsInv == EndsMeet /\ NewsIsTrue /\ HeardFrom /\ ShownLiveIsLive

-----------------------------------------------------------------------------
(* How a Peer moves in one step of the mesh.                                *)

PeersMove ==
    \A m, n \in Id :
        /\ peers'[m][n] = "up" => peers[m][n] \in {"new", "up"}
        /\ peers'[m][n] = "gone" => peers[m][n] \in {"up", "gone"}
        /\ peers'[m][n] = "new" => peers[m][n] \in {"none", "new"}
        /\ peers'[m][n] = "up" => peers'[n][m] \in {"new", "up"}

PeersTyped == peers \in [Id -> [Id -> {"none", "new", "up", "gone"}]]

LEMMA StillMoves ==
    ASSUME PeersTyped, EndsMeet, UNCHANGED peers
    PROVE  PeersMove
BY DEF PeersTyped, EndsMeet, PeersMove

LEMMA DropMoves ==
    ASSUME PeersTyped, EndsMeet, NEW m \in Id, NEW n \in Id, DropPeer(m, n)
    PROVE  PeersMove
<1>1. \A i, j \in Id :
         peers'[i][j] = IF i = m /\ j = n THEN "none"
                        ELSE IF i = n /\ j = m /\ peers[i][j] = "up" THEN "gone"
                        ELSE peers[i][j]
  BY DEF PeersTyped, DropPeer, Left
<1> QED
  BY <1>1 DEF PeersTyped, EndsMeet, PeersMove

LEMMA EnsureMoves ==
    ASSUME PeersTyped, EndsMeet, NEW m \in Id, NEW n \in Id, EnsurePeer(m, n)
    PROVE  PeersMove
<1>1. CASE UNCHANGED peers
  BY <1>1, StillMoves
<1>2. CASE peers' = [peers EXCEPT ![m][n] = "new"] /\ peers[m][n] = "none"
  <2>1. \A i, j \in Id :
           peers'[i][j] = IF i = m /\ j = n THEN "new" ELSE peers[i][j]
    BY <1>2 DEF PeersTyped
  <2> QED
    BY <1>2, <2>1 DEF PeersTyped, EndsMeet, PeersMove
<1> QED
  BY <1>1, <1>2 DEF EnsurePeer

LEMMA ConnectMoves ==
    ASSUME PeersTyped, EndsMeet, NEW m \in Id, NEW n \in Id, PeerConnects(m, n)
    PROVE  PeersMove
<1>1. /\ peers[m][n] = "new" /\ peers[n][m] \in {"new", "up"}
      /\ \A i, j \in Id :
            peers'[i][j] = IF i = m /\ j = n THEN "up" ELSE peers[i][j]
  BY DEF PeersTyped, PeerConnects
<1> QED
  BY <1>1 DEF PeersTyped, EndsMeet, PeersMove

LEMMA CloseMoves ==
    ASSUME PeersTyped, EndsMeet, NEW m \in Id, Closed(m)
    PROVE  PeersMove
<1>1. \A i, j \in Id :
         peers'[i][j] = IF i = m THEN "none" ELSE
                        IF j = m THEN Left(peers[i][j]) ELSE peers[i][j]
  BY DEF Closed
<1> QED
  BY <1>1 DEF PeersTyped, EndsMeet, PeersMove, Left

LEMMA MeshMoves ==
    ASSUME MeshInv, EndsMeet, MeshStep \/ \E msg \in net : Lose(msg)
    PROVE  PeersMove
<1> USE DEF MeshInv, PeersTyped
<1>1. ASSUME NEW msg \in net, Receive(msg.to, msg)
      PROVE  PeersMove
  <2>1. msg.to \in Id /\ msg.from \in Id
    BY OnlyOpenHave
  <2>2. DropPeer(msg.to, msg.from) \/ EnsurePeer(msg.to, msg.from)
    BY <1>1 DEF Receive
  <2> QED
    BY <2>1, <2>2, DropMoves, EnsureMoves
<1>2. ASSUME NEW m \in Id, StreamOpens(m) \/ SayHello(m) \/ \E n \in Id : PeerSignals(m, n)
      PROVE  PeersMove
  BY <1>2, StillMoves DEF StreamOpens, SayHello, PeerSignals
<1>3. ASSUME NEW m \in Id, NEW n \in Id, PeerConnects(m, n) \/ PeerCloses(m, n)
      PROVE  PeersMove
  BY <1>3, ConnectMoves, DropMoves DEF PeerCloses
<1>4. ASSUME NEW msg \in net, Lose(msg)
      PROVE  PeersMove
  BY <1>4, StillMoves DEF Lose
<1> QED
  BY <1>1, <1>2, <1>3, <1>4 DEF MeshStep, Connecting

-----------------------------------------------------------------------------
(* The steps.                                                               *)

\* A step that changes no mute state, with the entries and channels that follow
\* the mesh.
LEMMA FollowMeshNews ==
    ASSUME NewsInv, PeersTyped, PeersMove, FollowMesh,
           voice \in [Id -> VoiceRecord],
           \A n \in Id : voice'[n].muted = voice[n].muted
    PROVE  NewsInv'
<1>1. EndsMeet'
  BY DEF PeersMove, EndsMeet
<1>2. ASSUME NEW m \in Id, NEW n \in Id
      PROVE  /\ entry'[m][n] = IF ~Connected(peers'[m][n]) THEN NoEntry
                 ELSE IF Connected(peers[m][n]) THEN entry[m][n] ELSE NewEntry
             /\ wire'[n][m] = IF peers'[n][m] # "up" \/ peers'[m][n] \notin {"new", "up"}
                 THEN <<>>
                 ELSE IF peers[n][m] = "new" /\ ~voice[n].muted THEN <<FALSE>>
                 ELSE wire[n][m]
  BY DEF FollowMesh
<1>3. NewsIsTrue'
  <2> SUFFICES ASSUME NEW m \in Id, NEW n \in Id, wire'[n][m] # <<>>
               PROVE  ChannelOpen(n, m)' /\ Newest(wire'[n][m]) = voice'[n].muted
    BY DEF NewsIsTrue
  <2>1. ChannelOpen(n, m)'
    <3>1. peers'[n][m] = "up" /\ peers'[m][n] \in {"new", "up"}
      BY <1>2
    <3> QED
      BY <3>1 DEF ChannelOpen
  <2>2. CASE peers[n][m] = "new" /\ ~voice[n].muted
    <3>1. wire'[n][m] = <<FALSE>>
      BY <1>2, <2>1, <2>2 DEF ChannelOpen
    <3>2. voice'[n].muted = FALSE
      BY <2>2 DEF VoiceRecord
    <3>3. Newest(<<FALSE>>) = FALSE
      <4>1. Len(<<FALSE>>) = 1 /\ <<FALSE>>[1] = FALSE
        OBVIOUS
      <4> QED
        BY <4>1 DEF Newest
    <3> QED
      BY <2>1, <3>1, <3>2, <3>3
  <2>3. CASE ~(peers[n][m] = "new" /\ ~voice[n].muted)
    <3>1. wire'[n][m] = wire[n][m]
      BY <1>2, <2>1, <2>3 DEF ChannelOpen
    <3>2. Newest(wire[n][m]) = voice[n].muted
      BY <3>1 DEF NewsInv, NewsIsTrue
    <3> QED
      BY <2>1, <3>1, <3>2
  <2> QED
    BY <2>2, <2>3
<1>4. ASSUME NEW m \in Id, NEW n \in Id, entry'[m][n].shown # "absent"
      PROVE  Connected(peers'[m][n])
  BY <1>2, <1>4 DEF NoEntry
<1>5. ASSUME NEW m \in Id, NEW n \in Id, entry'[m][n].shown = "live"
      PROVE  /\ Connected(peers'[m][n]) /\ Connected(peers[m][n])
             /\ entry[m][n].shown = "live"
  BY <1>2, <1>5 DEF NoEntry, NewEntry
<1>6. ASSUME NEW m \in Id, NEW n \in Id, entry'[m][n].shown = "live"
      PROVE  peers'[n][m] = "up" \/ peers'[m][n] = "gone"
  <2>1. peers[n][m] = "up" \/ peers[m][n] = "gone"
    BY <1>5, <1>6 DEF NewsInv, HeardFrom
  <2> QED
    BY <1>5, <1>6, <2>1 DEF Connected, PeersMove
<1>7. HeardFrom'
  BY <1>4, <1>6 DEF HeardFrom, Connected
<1>8. ShownLiveIsLive'
  <2> SUFFICES ASSUME NEW m \in Id, NEW n \in Id, entry'[m][n].shown = "live",
                      peers'[m][n] # "gone", voice'[n].muted
               PROVE  wire'[n][m] # <<>>
    BY DEF ShownLiveIsLive
  <2>1. peers'[n][m] = "up" /\ peers'[m][n] = "up"
    BY <1>5, <1>6 DEF Connected
  <2>2. peers[m][n] # "gone"
    BY <2>1 DEF PeersMove
  <2>3. wire[n][m] # <<>> /\ voice[n].muted
    BY <1>5, <2>2 DEF NewsInv, ShownLiveIsLive
  <2> QED
    BY <1>2, <2>1, <2>3
<1> QED
  BY <1>1, <1>3, <1>7, <1>8 DEF NewsInv

LEMMA NewsUntouched ==
    ASSUME NewsInv, UNCHANGED <<peers, wire>>,
           \A m, n \in Id : entry'[m][n].shown = entry[m][n].shown,
           \A n \in Id : voice'[n].muted = voice[n].muted
    PROVE  NewsInv'
BY DEF NewsInv, EndsMeet, NewsIsTrue, ChannelOpen, HeardFrom, ShownLiveIsLive

LEMMA AppendIsNewest ==
    ASSUME NEW S, NEW s \in Seq(S), NEW e \in S
    PROVE  Append(s, e) # <<>> /\ Newest(Append(s, e)) = e
<1>1. /\ Append(s, e) # <<>> /\ Len(Append(s, e)) = Len(s) + 1
      /\ Append(s, e)[Len(s) + 1] = e
  BY AppendProperties
<1> QED
  BY <1>1 DEF Newest

\* n tells the others its new mute state.
LEMMA SendStateNews ==
    ASSUME NewsInv, NEW n \in Id, NEW muted \in BOOLEAN, SendState(n, muted),
           wire \in [Id -> [Id -> Seq(BOOLEAN)]],
           UNCHANGED peers, \A m, i \in Id : entry'[m][i].shown = entry[m][i].shown,
           voice'[n].muted = muted, \A i \in Id \ {n} : voice'[i].muted = voice[i].muted
    PROVE  NewsInv'
<1>1. /\ \A m \in Id : wire'[n][m] = IF ChannelOpen(n, m)
                          THEN Append(wire[n][m], muted) ELSE wire[n][m]
      /\ \A i \in Id \ {n} : wire'[i] = wire[i]
  BY DEF SendState, ChannelOpen
<1>2. ASSUME NEW m \in Id, ChannelOpen(n, m)
      PROVE  wire'[n][m] # <<>> /\ Newest(wire'[n][m]) = muted
  <2>1. wire'[n][m] = Append(wire[n][m], muted) /\ wire[n][m] \in Seq(BOOLEAN)
    BY <1>1, <1>2
  <2>2. \A s \in Seq(BOOLEAN), e \in BOOLEAN :
           Append(s, e) # <<>> /\ Newest(Append(s, e)) = e
    BY AppendIsNewest
  <2>3. /\ Append(wire[n][m], muted) # <<>>
        /\ Newest(Append(wire[n][m], muted)) = muted
    BY <2>1, <2>2, Zenon
  <2> QED
    BY <2>1, <2>3, Zenon
<1>3. ASSUME NEW m \in Id, ~ChannelOpen(n, m)
      PROVE  wire'[n][m] = <<>>
  BY <1>1, <1>3 DEF NewsInv, NewsIsTrue
<1>4. EndsMeet' /\ HeardFrom'
  <2>1. EndsMeet'
    BY DEF NewsInv, EndsMeet
  <2>2. HeardFrom'
    <3> SUFFICES ASSUME NEW m \in Id, NEW i \in Id
                 PROVE  /\ entry'[m][i].shown # "absent" => peers'[m][i] \in {"up", "gone"}
                        /\ entry'[m][i].shown = "live" => peers'[i][m] = "up" \/ peers'[m][i] = "gone"
      BY DEF HeardFrom
    <3>1. entry'[m][i].shown = entry[m][i].shown
      OBVIOUS
    <3> QED
      BY <3>1 DEF NewsInv, HeardFrom
  <2> QED
    BY <2>1, <2>2
<1>5. NewsIsTrue'
  <2> SUFFICES ASSUME NEW m \in Id, NEW i \in Id, wire'[i][m] # <<>>
               PROVE  ChannelOpen(i, m) /\ Newest(wire'[i][m]) = voice'[i].muted
    BY DEF NewsIsTrue, ChannelOpen
  <2>1. CASE i = n
    BY <1>2, <1>3, <2>1
  <2>2. CASE i # n
    BY <1>1, <2>2 DEF NewsInv, NewsIsTrue
  <2> QED
    BY <2>1, <2>2
<1>6. ShownLiveIsLive'
  <2> SUFFICES ASSUME NEW m \in Id, NEW i \in Id, entry[m][i].shown = "live",
                      peers[m][i] # "gone", voice'[i].muted
               PROVE  wire'[i][m] # <<>>
    BY DEF ShownLiveIsLive
  <2>1. CASE i = n
    <3>1. ChannelOpen(n, m)
      BY <2>1 DEF NewsInv, HeardFrom, EndsMeet, ChannelOpen
    <3> QED
      BY <1>2, <2>1, <3>1
  <2>2. CASE i # n
    <3>1. voice[i].muted /\ wire'[i] = wire[i]
      BY <1>1, <2>2
    <3> QED
      BY <3>1 DEF NewsInv, ShownLiveIsLive
  <2> QED
    BY <2>1, <2>2
<1> QED
  BY <1>4, <1>5, <1>6 DEF NewsInv

LEMMA ReceiveStateNews ==
    ASSUME NewsInv, MediaInv, SessionTyped, NEW m \in Id, NEW n \in Id, ReceiveState(m, n)
    PROVE  NewsInv'
<1> DEFINE s == wire[n][m]
<1>1. s \in Seq(BOOLEAN) /\ s # <<>> /\ Newest(s) = voice[n].muted
  BY DEF ReceiveState, MediaInv, NewsInv, NewsIsTrue
<1>2. /\ Tail(s) # <<>> => Newest(Tail(s)) = Newest(s)
      /\ Tail(s) = <<>> => Newest(s) = Head(s)
  <2>1. /\ Len(s) \in Nat /\ Len(s) # 0
        /\ Tail(s) \in Seq(BOOLEAN) /\ Len(Tail(s)) = Len(s) - 1
        /\ \A i \in 1 .. Len(Tail(s)) : Tail(s)[i] = s[i + 1]
    BY <1>1, HeadTailProperties, EmptySeq, LenProperties
  <2>2. ASSUME Tail(s) # <<>>
        PROVE  Newest(Tail(s)) = Newest(s)
    <3>1. Len(Tail(s)) \in 1 .. Len(Tail(s))
      BY <2>1, <2>2, EmptySeq, LenProperties
    <3>2. Tail(s)[Len(Tail(s))] = s[Len(Tail(s)) + 1]
      BY <2>1, <3>1
    <3>3. Len(Tail(s)) + 1 = Len(s)
      BY <2>1
    <3> QED
      BY <3>2, <3>3 DEF Newest
  <2>3. ASSUME Tail(s) = <<>>
        PROVE  Newest(s) = Head(s)
    <3>1. Len(s) = 1
      <4>1. Len(Tail(s)) = 0
        <5>1. Len(<<>>) = 0
          OBVIOUS
        <5> QED
          BY <2>3, <5>1
      <4> QED
        BY <2>1, <4>1
    <3> QED
      BY <3>1 DEF Newest
  <2> QED
    BY <2>2, <2>3
<1>3. /\ UNCHANGED <<peers, voice>>
      /\ wire'[n][m] = Tail(s)
      /\ \A i, j \in Id : i # n \/ j # m => wire'[i][j] = wire[i][j]
  BY DEF ReceiveState, meshVars, MediaInv
<1>4. PICK shown : /\ entry' = [entry EXCEPT ![m][n].shown = shown]
                   /\ shown = IF entry[m][n].shown = "absent" THEN "absent"
                              ELSE IF Head(s) THEN "muted" ELSE "live"
  BY DEF ReceiveState
<1>5. /\ entry'[m][n].shown = shown
      /\ \A i, j \in Id : i # m \/ j # n => entry'[i][j] = entry[i][j]
  <2>1. entry[m][n] \in Entry /\ entry \in [Id -> [Id -> Entry]]
    BY DEF MediaInv
  <2>2. entry' = [entry EXCEPT ![m] = [entry[m] EXCEPT ![n] =
                     [entry[m][n] EXCEPT !.shown = shown]]]
    BY <1>4
  <2>3. [entry[m][n] EXCEPT !.shown = shown].shown = shown
    BY <2>1 DEF Entry
  <2> QED
    BY <2>1, <2>2, <2>3
<1> HIDE DEF s
<1>6. EndsMeet'
  BY <1>3 DEF NewsInv, EndsMeet
<1>7. NewsIsTrue'
  <2> SUFFICES ASSUME NEW j \in Id, NEW i \in Id, wire'[i][j] # <<>>
               PROVE  ChannelOpen(i, j) /\ Newest(wire'[i][j]) = voice[i].muted
    BY <1>3 DEF NewsIsTrue, ChannelOpen
  <2>1. CASE i = n /\ j = m
    <3>1. ChannelOpen(n, m)
      BY <1>1 DEF NewsInv, NewsIsTrue, s
    <3> QED
      BY <1>1, <1>2, <1>3, <2>1, <3>1
  <2>2. CASE i # n \/ j # m
    BY <1>3, <2>2 DEF NewsInv, NewsIsTrue
  <2> QED
    BY <2>1, <2>2
<1>8. ChannelOpen(n, m)
  BY <1>1 DEF NewsInv, NewsIsTrue, s
<1>9. HeardFrom'
  <2> SUFFICES ASSUME NEW j \in Id, NEW i \in Id
               PROVE  /\ entry'[j][i].shown # "absent" => peers[j][i] \in {"up", "gone"}
                      /\ entry'[j][i].shown = "live" => peers[i][j] = "up" \/ peers[j][i] = "gone"
    BY <1>3 DEF HeardFrom
  <2>1. CASE j = m /\ i = n
    <3>1. entry'[j][i].shown # "absent" => entry[j][i].shown # "absent"
      BY <1>4, <1>5, <2>1
    <3> QED
      BY <1>8, <2>1, <3>1 DEF NewsInv, HeardFrom, ChannelOpen
  <2>2. CASE j # m \/ i # n
    BY <1>5, <2>2 DEF NewsInv, HeardFrom
  <2> QED
    BY <2>1, <2>2
<1>10. ShownLiveIsLive'
  <2> SUFFICES ASSUME NEW j \in Id, NEW i \in Id, entry'[j][i].shown = "live",
                      peers[j][i] # "gone", voice[i].muted
               PROVE  wire'[i][j] # <<>>
    BY <1>3 DEF ShownLiveIsLive
  <2>1. CASE j = m /\ i = n
    <3>1. ~Head(s)
      <4>1. entry'[m][n].shown = "live"
        BY <2>1
      <4>2. shown = "live"
        BY <1>5, <4>1
      <4> QED
        BY <1>4, <4>2
    <3> QED
      BY <1>1, <1>2, <1>3, <2>1, <3>1
  <2>2. CASE j # m \/ i # n
    BY <1>3, <1>5, <2>2 DEF NewsInv, ShownLiveIsLive
  <2> QED
    BY <2>1, <2>2
<1> QED
  BY <1>6, <1>7, <1>9, <1>10 DEF NewsInv

-----------------------------------------------------------------------------
(* The theorem.                                                             *)

LEMMA LeaveNews ==
    ASSUME NewsInv, IInv, NEW u \in User, Leave(u),
           \A n \in Id : voice'[n].muted = voice[n].muted
    PROVE  NewsInv'
<1>1. /\ PeersTyped /\ voice \in [Id -> VoiceRecord]
      /\ current[u] \in Id \cup {NoSession}
  BY DEF IInv, MeshInv, PeersTyped, SessionInv, SessionTyped
<1>2. CASE current[u] # NoSession /\ IsOpen(current[u])
  <2>1. Closed(current[u]) /\ FollowMesh /\ current[u] \in Id
    BY <1>1, <1>2 DEF Leave
  <2>2. PeersMove
    BY <1>1, <2>1, CloseMoves DEF NewsInv
  <2> QED
    BY <1>1, <2>1, <2>2, FollowMeshNews
<1>3. CASE ~(current[u] # NoSession /\ IsOpen(current[u]))
  <2>1. UNCHANGED <<peers, wire, entry>>
    BY <1>3 DEF Leave, meshVars
  <2> QED
    BY <2>1, NewsUntouched
<1> QED
  BY <1>2, <1>3

\* Leaving and joining touch no mute state.
LEMMA MutedKept ==
    ASSUME SessionTyped,
           \/ \E u \in User : \/ LeaveVoiceRoom(u)
                              \/ \E r \in Namespace, m \in Id : JoinVoiceRoom(u, r, m)
           \/ \E m \in Id, mic \in {"live", "none"} : MicrophoneSettles(m, mic)
    PROVE  \A n \in Id : voice'[n].muted = voice[n].muted
<1>1. ASSUME NEW m \in Id
      PROVE  /\ LeftVoice(m) \in [Id -> VoiceRecord]
             /\ \A n \in Id : LeftVoice(m)[n].muted = voice[n].muted
  BY LeftVoiceFields
<1>2. ASSUME NEW u \in User, LeaveVoiceRoom(u)
      PROVE  \A n \in Id : voice'[n].muted = voice[n].muted
  BY <1>1, <1>2 DEF LeaveVoiceRoom, SessionTyped
<1>3. ASSUME NEW u \in User, NEW r \in Namespace, NEW m \in Id, JoinVoiceRoom(u, r, m)
      PROVE  \A n \in Id : voice'[n].muted = voice[n].muted
  <2> DEFINE left == IF current[u] = NoSession THEN voice ELSE LeftVoice(current[u])
  <2>1. voice' = [left EXCEPT ![m].room = r, ![m].mic = "asking"]
    BY <1>3 DEF JoinVoiceRoom
  <2>2. /\ left \in [Id -> VoiceRecord]
        /\ \A n \in Id : left[n].muted = voice[n].muted
    <3>1. CASE current[u] = NoSession
      BY <3>1 DEF SessionTyped
    <3>2. CASE current[u] # NoSession
      BY <1>1, <3>2 DEF SessionTyped
    <3> QED
      BY <3>1, <3>2
  <2> HIDE DEF left
  <2> QED
    BY <2>1, <2>2 DEF VoiceRecord
<1>4. ASSUME NEW m \in Id, NEW mic \in {"live", "none"}, MicrophoneSettles(m, mic)
      PROVE  \A n \in Id : voice'[n].muted = voice[n].muted
  <2>1. PICK answer : voice' = [voice EXCEPT ![m].mic = answer]
    BY <1>4 DEF MicrophoneSettles
  <2> QED
    BY <2>1 DEF SessionTyped, VoiceRecord
<1> QED
  BY <1>2, <1>3, <1>4

LEMMA SetMutedNews ==
    ASSUME NewsInv, IInv, NEW m \in Id, SetMuted(m)
    PROVE  NewsInv'
<1>1. /\ voice \in [Id -> VoiceRecord] /\ wire \in [Id -> [Id -> Seq(BOOLEAN)]]
      /\ voice' = [voice EXCEPT ![m].muted = ~@]
      /\ UNCHANGED <<peers, entry>>
      /\ SendState(m, voice'[m].muted)
  BY DEF SetMuted, meshVars, IInv, SessionInv, SessionTyped, MediaInv
<1>2. /\ voice'[m].muted \in BOOLEAN
      /\ \A i \in Id \ {m} : voice'[i].muted = voice[i].muted
  BY <1>1 DEF VoiceRecord
<1> QED
  BY <1>1, <1>2, SendStateNews

LEMMA SetDeafenedNews ==
    ASSUME NewsInv, IInv, NEW m \in Id, SetDeafened(m)
    PROVE  NewsInv'
<1> DEFINE deaf == ~voice[m].deafened
<1>1. /\ voice \in [Id -> VoiceRecord] /\ wire \in [Id -> [Id -> Seq(BOOLEAN)]]
      /\ entry \in [Id -> [Id -> Entry]]
      /\ voice' = [voice EXCEPT ![m].deafened = deaf, ![m].muted = @ \/ deaf]
      /\ UNCHANGED peers
      /\ IF deaf /\ ~voice[m].muted THEN SendState(m, TRUE) ELSE UNCHANGED wire
  BY DEF SetDeafened, meshVars, IInv, SessionInv, SessionTyped, MediaInv
<1>2. \A i, j \in Id : entry'[i][j].shown = entry[i][j].shown
  <2>1. /\ \A j \in Id : \E audio : entry'[m][j] = [entry[m][j] EXCEPT !.audio = audio]
        /\ \A i \in Id \ {m} : entry'[i] = entry[i]
    BY <1>1 DEF SetDeafened
  <2>2. ASSUME NEW j \in Id PROVE entry'[m][j].shown = entry[m][j].shown
    <3>1. PICK audio : entry'[m][j] = [entry[m][j] EXCEPT !.audio = audio]
      BY <2>1
    <3>2. entry[m][j] \in Entry
      BY <1>1
    <3> QED
      BY <3>1, <3>2 DEF Entry
  <2> QED
    BY <2>1, <2>2
<1>3. /\ voice'[m].muted = (voice[m].muted \/ deaf)
      /\ voice[m].muted \in BOOLEAN
      /\ \A i \in Id \ {m} : voice'[i].muted = voice[i].muted
  BY <1>1 DEF VoiceRecord
<1>4. CASE deaf /\ ~voice[m].muted
  <2>1. voice'[m].muted = TRUE /\ SendState(m, TRUE)
    BY <1>1, <1>3, <1>4
  <2> QED
    BY <1>1, <1>2, <1>3, <2>1, SendStateNews
<1>5. CASE ~(deaf /\ ~voice[m].muted)
  <2>1. UNCHANGED wire /\ \A i \in Id : voice'[i].muted = voice[i].muted
    BY <1>1, <1>3, <1>5
  <2> QED
    BY <1>1, <1>2, <2>1, NewsUntouched
<1> QED
  BY <1>4, <1>5

LEMMA AttachNews ==
    ASSUME NewsInv, IInv, NEW m \in Id, NEW n \in Id, Attach(m, n)
    PROVE  NewsInv'
<1>1. PICK audio : entry' = [entry EXCEPT ![m][n].audio = audio]
  BY DEF Attach
<1>2. UNCHANGED <<peers, wire, voice>> /\ entry \in [Id -> [Id -> Entry]]
  BY DEF Attach, meshVars, IInv, MediaInv
<1>3. \A i, j \in Id : entry'[i][j].shown = entry[i][j].shown
  <2>1. [entry[m][n] EXCEPT !.audio = audio].shown = entry[m][n].shown
    <3>1. entry[m][n] \in Entry
      BY <1>2
    <3> QED
      BY <3>1 DEF Entry
  <2>2. entry' = [entry EXCEPT ![m] = [entry[m] EXCEPT ![n] =
                     [entry[m][n] EXCEPT !.audio = audio]]]
    BY <1>1
  <2> QED
    BY <1>2, <2>1, <2>2
<1> QED
  BY <1>2, <1>3, NewsUntouched

LEMMA NewsInductive == IInv /\ NewsInv /\ [SessionNext]_sessionVars => NewsInv'
<1> SUFFICES ASSUME IInv, NewsInv, [SessionNext]_sessionVars
             PROVE  NewsInv'
  OBVIOUS
<1>0. MeshInv /\ MediaInv /\ SessionTyped /\ PeersTyped /\ voice \in [Id -> VoiceRecord]
  BY DEF IInv, MeshInv, PeersTyped, SessionInv, SessionTyped
<1>1. ASSUME NEW u \in User,
             LeaveVoiceRoom(u) \/ \E r \in Namespace, m \in Id : JoinVoiceRoom(u, r, m)
      PROVE  NewsInv'
  <2>1. Leave(u)
    BY <1>1 DEF LeaveVoiceRoom, JoinVoiceRoom
  <2> QED
    BY <1>0, <1>1, <2>1, MutedKept, LeaveNews
<1>2. ASSUME NEW m \in Id, NEW mic \in {"live", "none"}, MicrophoneSettles(m, mic)
      PROVE  NewsInv'
  <2>1. UNCHANGED <<peers, wire, entry>>
    BY <1>2 DEF MicrophoneSettles, Open, meshVars
  <2> QED
    BY <1>0, <1>2, <2>1, MutedKept, NewsUntouched
<1>3. CASE VoiceStep
  BY <1>0, <1>1, <1>2, <1>3, SetMutedNews, SetDeafenedNews, AttachNews, ReceiveStateNews
     DEF VoiceStep
<1>4. CASE InMesh(MeshStep) \/ InMesh(\E msg \in net : Lose(msg))
  <2>1. PeersMove
    BY <1>0, <1>4, MeshMoves DEF InMesh, NewsInv
  <2> QED
    BY <1>0, <1>4, <2>1, MeshFrame, FollowMeshNews
<1>5. CASE UNCHANGED sessionVars
  BY <1>5, NewsUntouched DEF sessionVars, meshVars, voiceVars
<1> QED
  BY <1>3, <1>4, <1>5 DEF SessionNext

LEMMA NewsInit == SessionInit => NewsInv
BY DEF SessionInit, MeshInit, NewsInv, EndsMeet, NewsIsTrue, HeardFrom, ShownLiveIsLive,
       NoEntry

\* A participant is shown live only while unmuted, or while the news are under
\* way or can no longer come (session.js 107-116, 142-152).
THEOREM ShownLiveIsTrue == SessionSpec => []ShownLiveIsLive
<1>1. NewsInv => ShownLiveIsLive
  BY DEF NewsInv
<1>2. SessionSpec => []NewsInv
  BY Invariance, NewsInit, NewsInductive, PTL DEF SessionSpec
<1> QED
  BY <1>1, <1>2, PTL
=============================================================================
