----------------------------- MODULE VoiceProofs -----------------------------
(* Proofs about the voice sessions and their meshes, for any number of      *)
(* users, sessions and rooms, and whatever the network loses or reorders.   *)
EXTENDS VoiceChannels, FiniteSetTheorems, SequenceTheorems, TLAPS

VoiceRecord == [room: Namespace \cup {NoNamespace}, closed: BOOLEAN,
                mic: {"none", "asking", "live", "stopped"},
                muted: BOOLEAN, deafened: BOOLEAN]

Entry == [shown: {"absent", "muted", "live"}, audio: {"none", "on", "silent"}]

(* The inductive invariant, in two parts.  A mesh has a place for each of   *)
(* its Peers, and is known to others only while it is open; ...             *)
MeshInv ==
    /\ peers \in [Id -> [Id -> {"none", "new", "up", "gone"}]]
    /\ net \subseteq Message
    /\ \A m \in Id : IsFiniteSet(PeersOf(m))
    /\ PlacesKept

(* ... and a session that was not left is the active one of its user, from  *)
(* its microphone prompt on.                                                *)
SessionTyped ==
    /\ phase \in [Id -> {"unborn", "open", "closed"}]
    /\ namespace \in [Id -> Namespace \cup {NoNamespace}]
    /\ current \in [User -> Id \cup {NoSession}]
    /\ voice \in [Id -> VoiceRecord]

Holder(u, m) ==
    IsOpen(m) \/ (voice[m].mic = "asking" /\ ~voice[m].closed) => current[u] = m

Settled(m) ==
    /\ voice[m].mic = "live" => IsOpen(m)
    /\ IsOpen(m) => ~voice[m].closed /\ namespace[m] = voice[m].room
    /\ voice[m].room = NoNamespace => voice[m].mic = "none" /\ ~IsOpen(m)

SessionInv ==
    /\ SessionTyped
    /\ \A u \in User : \A m \in SessionsOf[u] : Holder(u, m)
    /\ \A m \in Id : Settled(m)

MediaInv ==
    /\ entry \in [Id -> [Id -> Entry]]
    /\ wire \in [Id -> [Id -> Seq(BOOLEAN)]]
    /\ DeafIsSilent

IInv == MeshInv /\ SessionInv /\ MediaInv

-----------------------------------------------------------------------------
(* The mesh.                                                                *)

LEMMA PublishedTyped ==
    ASSUME NEW m \in Id, NEW to \in SUBSET Id,
           NEW type \in {"hello", "bye", "welcome", "signal"}
    PROVE  /\ Published(m, type, to) \subseteq Message
           /\ \A msg \in Published(m, type, to) :
                 msg.to # m /\ IsOpen(msg.to) /\ msg.from = m
BY DEF Published, Message

LEMMA OnlyOpenHave ==
    ASSUME MeshInv
    PROVE  /\ \A m, n \in Id : peers[m][n] # "none" => phase[m] = "open"
           /\ \A msg \in net : phase[msg.to] = "open" /\ msg.to \in Id /\ msg.from \in Id
BY DEF MeshInv, PlacesKept, PeersOf, IsOpen, Message

\* A step that adds no Peer, and has messages for open members only.
LEMMA FewerPeers ==
    ASSUME MeshInv,
           peers' \in [Id -> [Id -> {"none", "new", "up", "gone"}]],
           net' \subseteq Message,
           \A m, n \in Id : peers'[m][n] # "none" => peers[m][n] # "none",
           \A m \in Id : ~IsOpen(m)' =>
              (\A n \in Id : peers'[m][n] = "none") /\ \A msg \in net' : msg.to # m
    PROVE  MeshInv'
<1>1. ASSUME NEW m \in Id
      PROVE  /\ IsFiniteSet(PeersOf(m)')
             /\ Cardinality(PeersOf(m)') <= MaxPeers
  <2>1. PeersOf(m)' \in SUBSET PeersOf(m)
    BY DEF PeersOf
  <2>2. /\ IsFiniteSet(PeersOf(m)) /\ Cardinality(PeersOf(m)) <= MaxPeers
    BY DEF MeshInv, PlacesKept
  <2>3. /\ IsFiniteSet(PeersOf(m)')
        /\ Cardinality(PeersOf(m)') <= Cardinality(PeersOf(m))
    BY <2>1, <2>2, FS_Subset
  <2>4. Cardinality(PeersOf(m)) \in Nat /\ Cardinality(PeersOf(m)') \in Nat
    BY <2>2, <2>3, FS_CardinalityType
  <2> QED
    BY <2>2, <2>3, <2>4, MeshAssumption
<1>2. ASSUME NEW m \in Id, ~IsOpen(m)'
      PROVE  PeersOf(m)' = {} /\ \A msg \in net' : msg.to # m
  BY <1>2 DEF PeersOf
<1> QED
  BY <1>1, <1>2 DEF MeshInv, PlacesKept

LEMMA EnsurePeerKeeps ==
    ASSUME MeshInv, NEW m \in Id, NEW n \in Id, IsOpen(m),
           EnsurePeer(m, n), UNCHANGED phase,
           net' \subseteq Message,
           \A msg \in net' : IsOpen(msg.to)
    PROVE  MeshInv'
<1>1. CASE peers' = peers
  <2>1. \A i \in Id : ~IsOpen(i)' => \A j \in Id : peers'[i][j] = "none"
    BY <1>1, OnlyOpenHave DEF IsOpen
  <2> QED
    BY <1>1, <2>1, FewerPeers DEF MeshInv, IsOpen
<1>2. CASE peers' # peers
  <2>1. /\ peers' = [peers EXCEPT ![m][n] = "new"]
        /\ peers[m][n] = "none" /\ Cardinality(PeersOf(m)) < MaxPeers
    BY <1>2 DEF EnsurePeer
  <2>2. peers' \in [Id -> [Id -> {"none", "new", "up", "gone"}]]
    BY <2>1 DEF MeshInv
  <2>3. PeersOf(m)' = PeersOf(m) \cup {n} /\ n \notin PeersOf(m)
    BY <2>1 DEF MeshInv, PeersOf
  <2>4. IsFiniteSet(PeersOf(m)) /\ Cardinality(PeersOf(m)) \in Nat
    BY FS_CardinalityType DEF MeshInv
  <2>5. /\ IsFiniteSet(PeersOf(m)')
        /\ Cardinality(PeersOf(m)') = Cardinality(PeersOf(m)) + 1
    BY <2>3, <2>4, FS_AddElement
  <2>6. \A i \in Id \ {m} : PeersOf(i)' = PeersOf(i)
    BY <2>1 DEF MeshInv, PeersOf
  <2>7. \A i \in Id : IsFiniteSet(PeersOf(i)') /\ Cardinality(PeersOf(i)') <= MaxPeers
    BY <2>1, <2>4, <2>5, <2>6, MeshAssumption DEF MeshInv, PlacesKept
  <2>8. \A i \in Id : ~IsOpen(i)' =>
           PeersOf(i)' = {} /\ \A msg \in net' : msg.to # i
    BY <2>6 DEF MeshInv, PlacesKept, IsOpen
  <2> QED
    BY <2>2, <2>7, <2>8 DEF MeshInv, PlacesKept
<1> QED
  BY <1>1, <1>2

LEMMA DropPeerKeeps ==
    ASSUME MeshInv, NEW m \in Id, NEW n \in Id, DropPeer(m, n), UNCHANGED phase,
           net' \subseteq Message, \A msg \in net' : IsOpen(msg.to)
    PROVE  MeshInv'
<1>1. peers' \in [Id -> [Id -> {"none", "new", "up", "gone"}]]
  BY DEF DropPeer, Left, MeshInv
<1>2. \A i, j \in Id : peers'[i][j] # "none" => peers[i][j] # "none"
  BY DEF DropPeer, Left, MeshInv
<1>3. \A i \in Id : ~IsOpen(i)' => \A j \in Id : peers'[i][j] = "none"
  BY <1>1, <1>2, OnlyOpenHave DEF IsOpen
<1> QED
  BY <1>1, <1>2, <1>3, FewerPeers DEF IsOpen

\* A step that only publishes.
LEMMA PublishingKeeps ==
    ASSUME MeshInv, NEW m \in Id, NEW to \in SUBSET Id,
           NEW type \in {"hello", "bye", "welcome", "signal"},
           net' = net \cup Published(m, type, to), UNCHANGED <<phase, peers>>
    PROVE  MeshInv'
<1>1. net' \subseteq Message /\ \A msg \in net' : IsOpen(msg.to)
  <2>1. \A msg \in net : msg.to \in Id /\ IsOpen(msg.to)
    BY OnlyOpenHave DEF IsOpen
  <2> QED
    BY <2>1, PublishedTyped DEF MeshInv
<1>2. \A i \in Id : ~IsOpen(i)' => \A j \in Id : peers'[i][j] = "none"
  BY OnlyOpenHave DEF IsOpen
<1> QED
  BY <1>1, <1>2, FewerPeers DEF MeshInv, IsOpen

LEMMA ReceiveKeeps ==
    ASSUME MeshInv, NEW msg \in net, Receive(msg.to, msg)
    PROVE  MeshInv'
<1> DEFINE m == msg.to
           n == msg.from
<1>1. m \in Id /\ n \in Id /\ IsOpen(m) /\ UNCHANGED phase
  BY OnlyOpenHave DEF IsOpen, Receive
<1>2. /\ net' \subseteq Message
      /\ \A x \in net' : IsOpen(x.to)
  <2>1. net' \subseteq net \cup Published(m, "welcome", {n})
    BY DEF Receive
  <2>2. /\ Published(m, "welcome", {n}) \subseteq Message
        /\ \A x \in Published(m, "welcome", {n}) : IsOpen(x.to)
    BY <1>1, PublishedTyped
  <2>3. net \subseteq Message /\ \A x \in net : IsOpen(x.to)
    BY OnlyOpenHave DEF IsOpen, MeshInv
  <2> QED
    BY <2>1, <2>2, <2>3
<1>3. CASE msg.type = "bye"
  <2>1. DropPeer(m, n)
    BY <1>3 DEF Receive
  <2> HIDE DEF m, n
  <2> QED
    BY <1>1, <1>2, <2>1, DropPeerKeeps
<1>4. CASE msg.type # "bye"
  <2>1. EnsurePeer(m, n)
    BY <1>4 DEF Receive
  <2> HIDE DEF m, n
  <2> QED
    BY <1>1, <1>2, <2>1, EnsurePeerKeeps
<1> QED
  BY <1>3, <1>4

LEMMA LoseKeeps ==
    ASSUME MeshInv, NEW msg \in net, Lose(msg)
    PROVE  MeshInv'
<1>1. net' \subseteq net /\ UNCHANGED <<phase, peers>>
  BY DEF Lose
<1>2. net' \subseteq Message /\ \A x \in net' : IsOpen(x.to)
  BY <1>1, OnlyOpenHave DEF IsOpen, MeshInv
<1>3. \A i \in Id : ~IsOpen(i)' => \A j \in Id : peers'[i][j] = "none"
  BY <1>1, OnlyOpenHave DEF IsOpen
<1> QED
  BY <1>1, <1>2, <1>3, FewerPeers DEF IsOpen, MeshInv

LEMMA MeshStepKeeps ==
    ASSUME MeshInv, MeshStep
    PROVE  MeshInv'
<1>1. ASSUME NEW m \in Id, StreamOpens(m) \/ SayHello(m)
      PROVE  MeshInv'
  BY <1>1, PublishingKeeps DEF StreamOpens, SayHello
<1>2. ASSUME NEW m \in Id, NEW n \in Id, PeerSignals(m, n)
      PROVE  MeshInv'
  BY <1>2, PublishingKeeps DEF PeerSignals
<1>3. ASSUME NEW m \in Id, NEW n \in Id, PeerConnects(m, n)
      PROVE  MeshInv'
  <2>1. /\ peers' = [peers EXCEPT ![m][n] = "up"] /\ peers[m][n] = "new"
        /\ UNCHANGED <<phase, net>>
    BY <1>3 DEF PeerConnects
  <2>2. /\ peers' \in [Id -> [Id -> {"none", "new", "up", "gone"}]]
        /\ \A i, j \in Id : peers'[i][j] # "none" => peers[i][j] # "none"
    BY <2>1 DEF MeshInv
  <2>3. /\ net' \subseteq Message
        /\ \A i \in Id : ~IsOpen(i)' =>
              (\A j \in Id : peers'[i][j] = "none") /\ \A msg \in net' : msg.to # i
    BY <2>1, <2>2, OnlyOpenHave DEF IsOpen, MeshInv
  <2> QED
    BY <2>2, <2>3, FewerPeers
<1>4. ASSUME NEW m \in Id, NEW n \in Id, PeerCloses(m, n)
      PROVE  MeshInv'
  <2>1. DropPeer(m, n) /\ UNCHANGED <<phase, net>>
    BY <1>4 DEF PeerCloses
  <2>2. net' \subseteq Message /\ \A msg \in net' : IsOpen(msg.to)
    BY <2>1, OnlyOpenHave DEF IsOpen, MeshInv
  <2> QED
    BY <2>1, <2>2, DropPeerKeeps
<1>5. ASSUME NEW msg \in net, Receive(msg.to, msg)
      PROVE  MeshInv'
  BY <1>5, ReceiveKeeps
<1> QED
  BY <1>1, <1>2, <1>3, <1>4, <1>5 DEF MeshStep, Connecting

LEMMA PlacesUntouched ==
    ASSUME MeshInv, UNCHANGED <<phase, peers, net>>
    PROVE  MeshInv'
BY DEF MeshInv, PlacesKept, PeersOf, IsOpen

LEMMA OpenKeeps ==
    ASSUME MeshInv, NEW m \in Id, NEW space, Open(m, space), phase' \in [Id -> {"unborn", "open", "closed"}]
    PROVE  MeshInv'
<1>1. /\ UNCHANGED <<peers, net>>
      /\ \A i \in Id : phase[i] = "open" => phase'[i] = "open"
  BY DEF Open
<1>2. /\ net' \subseteq Message
      /\ \A i \in Id : ~IsOpen(i)' =>
            (\A j \in Id : peers'[i][j] = "none") /\ \A msg \in net' : msg.to # i
  BY <1>1, OnlyOpenHave DEF IsOpen, MeshInv
<1> QED
  BY <1>1, <1>2, FewerPeers DEF MeshInv

LEMMA ClosedKeeps ==
    ASSUME MeshInv, NEW m \in Id, Closed(m), phase \in [Id -> {"unborn", "open", "closed"}]
    PROVE  MeshInv'
<1>1. /\ phase' = [phase EXCEPT ![m] = "closed"]
      /\ net' = {msg \in net : msg.to # m} \cup Published(m, "bye", Id)
  BY DEF Closed
<1>2. /\ peers' \in [Id -> [Id -> {"none", "new", "up", "gone"}]]
      /\ \A i, j \in Id : peers'[i][j] # "none" => peers[i][j] # "none" /\ i # m
  BY DEF Closed, Left, MeshInv
<1>3. /\ net' \subseteq Message
      /\ \A msg \in net' : msg.to \in Id /\ msg.to # m /\ phase[msg.to] = "open"
  <2>1. /\ Published(m, "bye", Id) \subseteq Message
        /\ \A msg \in Published(m, "bye", Id) : msg.to # m /\ phase[msg.to] = "open"
    BY PublishedTyped DEF IsOpen
  <2> QED
    BY <1>1, <2>1, OnlyOpenHave DEF MeshInv, Message
<1>4. \A i \in Id : ~IsOpen(i)' =>
         (\A j \in Id : peers'[i][j] = "none") /\ \A msg \in net' : msg.to # i
  BY <1>1, <1>2, <1>3, OnlyOpenHave DEF IsOpen
<1> QED
  BY <1>2, <1>3, <1>4, FewerPeers

-----------------------------------------------------------------------------
(* The sessions.                                                            *)

LEMMA AskingFields ==
    ASSUME NEW v \in VoiceRecord, NEW r \in Namespace
    PROVE  /\ [v EXCEPT !.room = r, !.mic = "asking"] \in VoiceRecord
           /\ [v EXCEPT !.room = r, !.mic = "asking"].room = r
           /\ [v EXCEPT !.room = r, !.mic = "asking"].mic = "asking"
           /\ [v EXCEPT !.room = r, !.mic = "asking"].muted = v.muted
BY DEF VoiceRecord

LEMMA AnswerFields ==
    ASSUME NEW v \in VoiceRecord, NEW mic \in {"none", "live", "stopped"}
    PROVE  /\ [v EXCEPT !.mic = mic] \in VoiceRecord
           /\ [v EXCEPT !.mic = mic].mic = mic
           /\ [v EXCEPT !.mic = mic].closed = v.closed
           /\ [v EXCEPT !.mic = mic].room = v.room
           /\ [v EXCEPT !.mic = mic].muted = v.muted
BY DEF VoiceRecord

LEMMA LeftFields ==
    ASSUME NEW v \in VoiceRecord, NEW mic \in {"none", "asking", "live", "stopped"}
    PROVE  /\ [v EXCEPT !.closed = TRUE, !.mic = mic] \in VoiceRecord
           /\ [v EXCEPT !.closed = TRUE, !.mic = mic].mic = mic
           /\ [v EXCEPT !.closed = TRUE, !.mic = mic].closed
           /\ [v EXCEPT !.closed = TRUE, !.mic = mic].room = v.room
           /\ [v EXCEPT !.closed = TRUE, !.mic = mic].muted = v.muted
           /\ [v EXCEPT !.closed = TRUE, !.mic = mic].deafened = v.deafened
BY DEF VoiceRecord

LEMMA LeftVoiceFields ==
    ASSUME SessionTyped, NEW m \in Id
    PROVE  /\ LeftVoice(m) \in [Id -> VoiceRecord]
           /\ LeftVoice(m)[m].closed /\ LeftVoice(m)[m].mic # "live"
           /\ LeftVoice(m)[m].mic = "asking" => voice[m].mic = "asking"
           /\ LeftVoice(m)[m].room = voice[m].room
           /\ voice[m].mic = "none" => LeftVoice(m)[m].mic = "none"
           /\ \A n \in Id \ {m} : LeftVoice(m)[n] = voice[n]
           /\ \A n \in Id : LeftVoice(m)[n].deafened = voice[n].deafened
           /\ \A n \in Id : LeftVoice(m)[n].muted = voice[n].muted
<1> DEFINE mic == IF voice[m].mic = "live" THEN "stopped" ELSE voice[m].mic
           left == [voice[m] EXCEPT !.closed = TRUE, !.mic = mic]
<1>1. voice \in [Id -> VoiceRecord] /\ voice[m] \in VoiceRecord
  BY DEF SessionTyped
<1>2. /\ mic \in {"none", "asking", "live", "stopped"} /\ mic # "live"
      /\ (mic = "asking" => voice[m].mic = "asking")
      /\ (voice[m].mic = "none" => mic = "none")
  BY <1>1 DEF VoiceRecord
<1>3. LeftVoice(m) = [voice EXCEPT ![m] = left]
  BY DEF LeftVoice
<1> HIDE DEF mic
<1>4. /\ left \in VoiceRecord /\ left.mic = mic /\ left.closed
      /\ left.room = voice[m].room /\ left.muted = voice[m].muted
      /\ left.deafened = voice[m].deafened
  BY <1>1, <1>2, LeftFields
<1> HIDE DEF left
<1>5. /\ LeftVoice(m) \in [Id -> VoiceRecord] /\ LeftVoice(m)[m] = left
      /\ \A n \in Id \ {m} : LeftVoice(m)[n] = voice[n]
  BY <1>1, <1>3, <1>4
<1> QED
  BY <1>2, <1>4, <1>5

\* session.leave() closes the mesh of m, if it is open, and keeps the others.
LEMMA LeaveCloses ==
    ASSUME SessionTyped, NEW u \in User, Leave(u)
    PROVE  /\ phase' \in [Id -> {"unborn", "open", "closed"}]
           /\ UNCHANGED namespace
           /\ current[u] \in Id => phase'[current[u]] # "open"
           /\ \A m \in Id : m # current[u] => phase'[m] = phase[m]
           /\ \A m \in Id : phase'[m] = "open" => phase[m] = "open"
<1>1. CASE current[u] # NoSession /\ IsOpen(current[u])
  BY <1>1 DEF Leave, Closed, SessionTyped
<1>2. CASE ~(current[u] # NoSession /\ IsOpen(current[u]))
  BY <1>2, SessionAssumption DEF Leave, meshVars, SessionTyped, IsOpen
<1> QED
  BY <1>1, <1>2

LEMMA LeaveVoiceRoomKeeps ==
    ASSUME SessionInv, NEW u \in User, LeaveVoiceRoom(u)
    PROVE  SessionInv'
<1> DEFINE m == current[u]
<1>1. m \in Id
  BY DEF LeaveVoiceRoom, SessionInv, SessionTyped
<1>2. /\ voice' = LeftVoice(m)
      /\ current' = [current EXCEPT ![u] = NoSession]
      /\ Leave(u) /\ SessionTyped
  BY DEF LeaveVoiceRoom, SessionInv
<1>3. SessionTyped'
  BY <1>1, <1>2, LeftVoiceFields, LeaveCloses DEF SessionTyped
<1>4. ASSUME NEW v \in User, NEW n \in SessionsOf[v]
      PROVE  Holder(v, n)'
  <2>1. n \in Id /\ Holder(v, n)
    BY SessionAssumption DEF SessionInv
  <2>2. CASE n = m
    BY <1>1, <1>2, <2>2, LeftVoiceFields, LeaveCloses DEF Holder, IsOpen
  <2>3. CASE n # m
    <3>1. voice'[n] = voice[n] /\ phase'[n] = phase[n]
      BY <1>1, <1>2, <2>1, <2>3, LeftVoiceFields, LeaveCloses
    <3>2. current[v] = n => current'[v] = n
      BY <1>2, <2>3 DEF SessionTyped
    <3> QED
      BY <2>1, <3>1, <3>2 DEF Holder, IsOpen
  <2> QED
    BY <2>2, <2>3
<1>5. ASSUME NEW n \in Id
      PROVE  Settled(n)'
  <2>1. Settled(n)
    BY DEF SessionInv
  <2>2. CASE n = m
    BY <1>1, <1>2, <2>1, <2>2, LeftVoiceFields, LeaveCloses DEF Settled, IsOpen
  <2>3. CASE n # m
    <3>1. voice'[n] = voice[n] /\ phase'[n] = phase[n] /\ namespace'[n] = namespace[n]
      BY <1>1, <1>2, <2>3, LeftVoiceFields, LeaveCloses
    <3> QED
      BY <2>1, <3>1 DEF Settled, IsOpen
  <2> QED
    BY <2>2, <2>3
<1> QED
  BY <1>3, <1>4, <1>5 DEF SessionInv

LEMMA JoinVoiceRoomKeeps ==
    ASSUME SessionInv, NEW u \in User, NEW r \in Namespace, NEW m \in Id,
           JoinVoiceRoom(u, r, m)
    PROVE  SessionInv'
<1> DEFINE left == IF current[u] = NoSession THEN voice ELSE LeftVoice(current[u])
<1>1. /\ SessionTyped /\ Leave(u)
      /\ m \in SessionsOf[u] /\ voice[m].room = NoNamespace
      /\ voice' = [left EXCEPT ![m].room = r, ![m].mic = "asking"]
      /\ current' = [current EXCEPT ![u] = m]
  BY DEF JoinVoiceRoom, SessionInv
<1>2. /\ left \in [Id -> VoiceRecord]
      /\ \A n \in Id : n # current[u] => left[n] = voice[n]
  <2>1. CASE current[u] = NoSession
    BY <1>1, <2>1 DEF SessionTyped
  <2>2. CASE current[u] # NoSession
    <3>1. current[u] \in Id
      BY <1>1, <2>2 DEF SessionTyped
    <3> QED
      BY <1>1, <2>2, <3>1, LeftVoiceFields
  <2> QED
    BY <2>1, <2>2
<1>3. \A n \in Id : n = current[u] =>
         /\ left[n].closed /\ left[n].mic # "live"
         /\ left[n].room = voice[n].room
         /\ voice[n].mic = "none" => left[n].mic = "none"
  <2> SUFFICES ASSUME NEW n \in Id, n = current[u]
               PROVE  /\ left[n].closed /\ left[n].mic # "live"
                      /\ left[n].room = voice[n].room
                      /\ voice[n].mic = "none" => left[n].mic = "none"
    OBVIOUS
  <2>1. left = LeftVoice(n)
    BY SessionAssumption
  <2> QED
    BY <1>1, <2>1, LeftVoiceFields
<1> HIDE DEF left
<1>4. /\ voice' \in [Id -> VoiceRecord]
      /\ voice'[m].room = r /\ voice'[m].mic = "asking"
      /\ \A n \in Id \ {m} : voice'[n] = left[n]
  <2> DEFINE joined == [left[m] EXCEPT !.room = r, !.mic = "asking"]
  <2>1. /\ joined \in VoiceRecord
        /\ joined.room = r /\ joined.mic = "asking"
    BY <1>2, AskingFields
  <2>2. voice' = [left EXCEPT ![m] = joined]
    BY <1>1
  <2> HIDE DEF joined
  <2> QED
    BY <1>2, <2>1, <2>2
<1>5. SessionTyped'
  BY <1>1, <1>4, LeaveCloses DEF SessionTyped
<1>6. phase'[m] # "open"
  BY <1>1, LeaveCloses DEF SessionInv, Settled, IsOpen
<1>7. ASSUME NEW v \in User, NEW n \in SessionsOf[v]
      PROVE  Holder(v, n)'
  <2>1. n \in Id /\ Holder(v, n)
    BY SessionAssumption DEF SessionInv
  <2>2. CASE n = m
    <3>1. v = u
      BY <1>1, <2>2, SessionAssumption
    <3> QED
      BY <1>1, <2>2, <3>1 DEF SessionTyped, Holder
  <2>3. CASE n # m /\ n = current[u]
    BY <1>1, <1>3, <1>4, <2>1, <2>3, LeaveCloses DEF Holder, IsOpen
  <2>4. CASE n # m /\ n # current[u]
    <3>1. voice'[n] = voice[n] /\ phase'[n] = phase[n]
      BY <1>1, <1>2, <1>4, <2>1, <2>4, LeaveCloses
    <3>2. current[v] = n => current'[v] = n
      BY <1>1, <2>4 DEF SessionTyped
    <3> QED
      BY <2>1, <3>1, <3>2 DEF Holder, IsOpen
  <2> QED
    BY <2>2, <2>3, <2>4
<1>8. ASSUME NEW n \in Id
      PROVE  Settled(n)'
  <2>1. Settled(n)
    BY DEF SessionInv
  <2>2. CASE n = m
    BY <1>4, <1>6, <2>2, MeshAssumption DEF Settled, IsOpen
  <2>3. CASE n # m /\ n = current[u]
    BY <1>1, <1>3, <1>4, <2>1, <2>3, LeaveCloses DEF Settled, IsOpen
  <2>4. CASE n # m /\ n # current[u]
    <3>1. voice'[n] = voice[n] /\ phase'[n] = phase[n] /\ namespace'[n] = namespace[n]
      BY <1>1, <1>2, <1>4, <2>4, LeaveCloses
    <3> QED
      BY <2>1, <3>1 DEF Settled, IsOpen
  <2> QED
    BY <2>2, <2>3, <2>4
<1> QED
  BY <1>5, <1>7, <1>8 DEF SessionInv

LEMMA MicrophoneSettlesKeeps ==
    ASSUME SessionInv, NEW m \in Id, NEW mic \in {"live", "none"},
           MicrophoneSettles(m, mic)
    PROVE  SessionInv'
<1>1. SessionTyped /\ voice[m].mic = "asking" /\ UNCHANGED current
  BY DEF MicrophoneSettles, SessionInv
<1>2. \A n \in Id : Settled(n)
  BY DEF SessionInv
<1>3. \A u \in User : \A n \in SessionsOf[u] : n \in Id /\ Holder(u, n)
  BY SessionAssumption DEF SessionInv
<1>4. CASE voice[m].closed
  <2>1. /\ UNCHANGED <<phase, namespace>>
        /\ voice' \in [Id -> VoiceRecord]
        /\ voice'[m].mic \in {"none", "stopped"}
        /\ voice'[m].closed = voice[m].closed /\ voice'[m].room = voice[m].room
        /\ \A n \in Id \ {m} : voice'[n] = voice[n]
    <3>1. PICK answer \in {"none", "stopped"} : voice' = [voice EXCEPT ![m].mic = answer]
      BY <1>1, <1>4 DEF MicrophoneSettles
    <3>2. UNCHANGED <<phase, namespace>>
      BY <1>1, <1>4 DEF MicrophoneSettles, meshVars
    <3> QED
      BY <1>1, <3>1, <3>2 DEF SessionTyped, VoiceRecord
  <2>2. \A n \in Id : Settled(n)'
    BY <1>1, <1>2, <1>4, <2>1 DEF Settled, IsOpen
  <2>3. \A u \in User : \A n \in SessionsOf[u] : Holder(u, n)'
    BY <1>1, <1>3, <2>1 DEF Holder, IsOpen
  <2> QED
    BY <1>1, <2>1, <2>2, <2>3 DEF SessionInv, SessionTyped
<1>5. CASE ~voice[m].closed
  <2>1. /\ voice' \in [Id -> VoiceRecord]
        /\ voice'[m].mic = mic
        /\ voice'[m].closed = voice[m].closed /\ voice'[m].room = voice[m].room
        /\ \A n \in Id \ {m} : voice'[n] = voice[n]
    <3> DEFINE answered == [voice[m] EXCEPT !.mic = mic]
    <3> HIDE DEF answered
    <3>1. voice \in [Id -> VoiceRecord] /\ voice[m] \in VoiceRecord
      BY <1>1 DEF SessionTyped
    <3>3. voice' = [voice EXCEPT ![m] = answered]
      <4>1. voice' = [voice EXCEPT ![m].mic = mic]
        BY <1>5, Zenon DEF MicrophoneSettles
      <4> QED
        BY <4>1 DEF answered
    <3>2. /\ answered \in VoiceRecord /\ answered.mic = mic
          /\ answered.closed = voice[m].closed /\ answered.room = voice[m].room
      <4>1. mic \in {"none", "live", "stopped"}
        OBVIOUS
      <4>2. \A v \in VoiceRecord :
               /\ [v EXCEPT !.mic = mic] \in VoiceRecord
               /\ [v EXCEPT !.mic = mic].mic = mic
               /\ [v EXCEPT !.mic = mic].closed = v.closed
               /\ [v EXCEPT !.mic = mic].room = v.room
        BY <4>1, AnswerFields
      <4> QED
        BY <3>1, <4>2, Zenon DEF answered
    <3> QED
      BY <3>1, <3>2, <3>3
  <2>2. /\ phase' \in [Id -> {"unborn", "open", "closed"}]
        /\ namespace' \in [Id -> Namespace \cup {NoNamespace}]
        /\ phase'[m] = "open" /\ namespace'[m] = voice[m].room
        /\ \A n \in Id \ {m} : phase'[n] = phase[n] /\ namespace'[n] = namespace[n]
    BY <1>1, <1>5 DEF MicrophoneSettles, Open, SessionTyped, VoiceRecord
  <2>3. ASSUME NEW n \in Id PROVE Settled(n)'
    <3>1. CASE n = m
      BY <1>1, <1>2, <1>5, <2>1, <2>2, <3>1 DEF Settled, IsOpen
    <3>2. CASE n # m
      BY <1>2, <2>1, <2>2, <3>2 DEF Settled, IsOpen
    <3> QED
      BY <3>1, <3>2
  <2>4. ASSUME NEW u \in User, NEW n \in SessionsOf[u]
        PROVE  Holder(u, n)'
    <3>1. CASE n = m
      BY <1>1, <1>3, <1>5, <3>1 DEF Holder
    <3>2. CASE n # m
      BY <1>1, <1>3, <2>1, <2>2, <3>2 DEF Holder, IsOpen
    <3> QED
      BY <3>1, <3>2
  <2> QED
    BY <1>1, <2>1, <2>2, <2>3, <2>4 DEF SessionInv, SessionTyped
<1> QED
  BY <1>4, <1>5

\* Steps that keep who is where.
LEMMA OthersKeep ==
    ASSUME SessionInv, voice' \in [Id -> VoiceRecord],
           UNCHANGED <<phase, namespace, current>>,
           \A m \in Id : /\ voice'[m].mic = voice[m].mic
                         /\ voice'[m].closed = voice[m].closed
                         /\ voice'[m].room = voice[m].room
    PROVE  SessionInv'
<1>1. SessionTyped'
  BY DEF SessionInv, SessionTyped
<1>2. \A n \in Id : Settled(n)'
  BY DEF SessionInv, Settled, IsOpen
<1>3. \A u \in User : \A n \in SessionsOf[u] : Holder(u, n)'
  BY SessionAssumption DEF SessionInv, Holder, IsOpen
<1> QED
  BY <1>1, <1>2, <1>3 DEF SessionInv

LEMMA SetMutedKeeps ==
    ASSUME SessionInv, NEW m \in Id, SetMuted(m)
    PROVE  SessionInv'
<1>1. /\ voice \in [Id -> VoiceRecord]
      /\ voice' = [voice EXCEPT ![m].muted = ~@]
      /\ UNCHANGED <<phase, namespace, current>>
  BY DEF SetMuted, meshVars, SessionInv, SessionTyped
<1>2. /\ voice' \in [Id -> VoiceRecord]
      /\ \A n \in Id : /\ voice'[n].mic = voice[n].mic
                        /\ voice'[n].closed = voice[n].closed
                        /\ voice'[n].room = voice[n].room
  BY <1>1 DEF VoiceRecord
<1> QED
  BY <1>1, <1>2, OthersKeep

LEMMA SetDeafenedKeeps ==
    ASSUME SessionInv, NEW m \in Id, SetDeafened(m)
    PROVE  SessionInv'
<1> DEFINE deaf == ~voice[m].deafened
<1>1. /\ voice \in [Id -> VoiceRecord]
      /\ voice' = [voice EXCEPT ![m].deafened = deaf, ![m].muted = @ \/ deaf]
      /\ UNCHANGED <<phase, namespace, current>>
  BY DEF SetDeafened, meshVars, SessionInv, SessionTyped
<1>2. /\ voice' \in [Id -> VoiceRecord]
      /\ \A n \in Id : /\ voice'[n].mic = voice[n].mic
                        /\ voice'[n].closed = voice[n].closed
                        /\ voice'[n].room = voice[n].room
  BY <1>1 DEF VoiceRecord
<1> QED
  BY <1>1, <1>2, OthersKeep

\* What InMesh leaves alone.
LEMMA MeshFrame ==
    ASSUME InMesh(MeshStep) \/ InMesh(\E msg \in net : Lose(msg))
    PROVE  UNCHANGED <<phase, namespace, current, voice>> /\ FollowMesh
<1>1. MeshStep => UNCHANGED <<phase, namespace>>
  BY DEF MeshStep, Connecting, StreamOpens, SayHello, PeerSignals, PeerConnects,
         PeerCloses, Receive
<1>2. (\E msg \in net : Lose(msg)) => UNCHANGED <<phase, namespace>>
  BY DEF Lose
<1> QED
  BY <1>1, <1>2 DEF InMesh

LEMMA SessionInvInductive ==
    ASSUME SessionInv, [SessionNext]_sessionVars
    PROVE  SessionInv'
<1> USE DEF SessionTyped
<1>1. CASE VoiceStep
  <2>1. ASSUME NEW m \in Id, NEW n \in Id, Attach(m, n) \/ ReceiveState(m, n)
        PROVE  SessionInv'
    <3>1. UNCHANGED <<phase, namespace, current, voice>> /\ voice \in [Id -> VoiceRecord]
      BY <2>1 DEF Attach, ReceiveState, meshVars, SessionInv
    <3> QED
      BY <3>1, OthersKeep
  <2> QED
    BY <1>1, <2>1, LeaveVoiceRoomKeeps, JoinVoiceRoomKeeps, MicrophoneSettlesKeeps,
       SetMutedKeeps, SetDeafenedKeeps DEF VoiceStep
<1>2. CASE InMesh(MeshStep) \/ InMesh(\E msg \in net : Lose(msg))
  <2>1. UNCHANGED <<phase, namespace, current, voice>> /\ voice \in [Id -> VoiceRecord]
    BY <1>2, MeshFrame DEF SessionInv
  <2> QED
    BY <2>1, OthersKeep
<1>3. CASE UNCHANGED sessionVars
  <2>1. UNCHANGED <<phase, namespace, current, voice>> /\ voice \in [Id -> VoiceRecord]
    BY <1>3 DEF sessionVars, meshVars, voiceVars, SessionInv
  <2> QED
    BY <2>1, OthersKeep
<1> QED
  BY <1>1, <1>2, <1>3 DEF SessionNext

-----------------------------------------------------------------------------
(* The places.                                                              *)

LEMMA LeaveKeepsPlaces ==
    ASSUME MeshInv, SessionTyped, NEW u \in User, Leave(u)
    PROVE  MeshInv'
<1>1. CASE current[u] # NoSession /\ IsOpen(current[u])
  <2>1. Closed(current[u]) /\ current[u] \in Id /\ phase \in [Id -> {"unborn", "open", "closed"}]
    BY <1>1 DEF Leave, SessionTyped
  <2> QED
    BY <2>1, ClosedKeeps
<1>2. CASE ~(current[u] # NoSession /\ IsOpen(current[u]))
  BY <1>2, PlacesUntouched DEF Leave, meshVars
<1> QED
  BY <1>1, <1>2

LEMMA MeshInvInductive ==
    ASSUME MeshInv, SessionInv, SessionInv', [SessionNext]_sessionVars
    PROVE  MeshInv'
<1>1. ASSUME NEW m \in Id, NEW mic \in {"live", "none"}, MicrophoneSettles(m, mic)
      PROVE  MeshInv'
  <2>1. CASE UNCHANGED meshVars
    BY <2>1, PlacesUntouched DEF meshVars
  <2>2. CASE Open(m, voice[m].room)
    <3>1. phase' \in [Id -> {"unborn", "open", "closed"}]
      BY DEF SessionInv, SessionTyped
    <3> QED
      BY <2>2, <3>1, OpenKeeps
  <2> QED
    BY <1>1, <2>1, <2>2 DEF MicrophoneSettles
<1>2. ASSUME NEW u \in User, Leave(u)
      PROVE  MeshInv'
  BY <1>2, LeaveKeepsPlaces DEF SessionInv
<1>3. ASSUME NEW m \in Id, \/ SetMuted(m) \/ SetDeafened(m)
                          \/ \E n \in Id : Attach(m, n) \/ ReceiveState(m, n)
      PROVE  MeshInv'
  <2>1. UNCHANGED <<phase, peers, net>>
    BY <1>3 DEF SetMuted, SetDeafened, Attach, ReceiveState, meshVars
  <2> QED
    BY <2>1, PlacesUntouched
<1>4. CASE VoiceStep
  BY <1>1, <1>2, <1>3, <1>4 DEF VoiceStep, LeaveVoiceRoom, JoinVoiceRoom
<1>5. CASE InMesh(MeshStep) \/ InMesh(\E msg \in net : Lose(msg))
  BY <1>5, MeshStepKeeps, LoseKeeps DEF InMesh
<1>6. CASE UNCHANGED sessionVars
  BY <1>6, PlacesUntouched DEF sessionVars, meshVars
<1> QED
  BY <1>4, <1>5, <1>6 DEF SessionNext

-----------------------------------------------------------------------------
(* The controls.                                                            *)

LEMMA FollowMeshKeeps ==
    ASSUME MediaInv, voice \in [Id -> VoiceRecord], FollowMesh,
           \A m \in Id : voice'[m].deafened = voice[m].deafened
    PROVE  MediaInv'
<1>1. entry' \in [Id -> [Id -> Entry]]
  BY DEF FollowMesh, MediaInv, NoEntry, NewEntry, Entry
<1>2. wire' \in [Id -> [Id -> Seq(BOOLEAN)]]
  <2>1. <<>> \in Seq(BOOLEAN) /\ <<FALSE>> \in Seq(BOOLEAN)
    OBVIOUS
  <2>2. \A m, n \in Id : wire[m][n] \in Seq(BOOLEAN)
    BY DEF MediaInv
  <2> HIDE DEF MediaInv
  <2>3. \A m, n \in Id : wire'[m][n] \in Seq(BOOLEAN)
    <3> SUFFICES ASSUME NEW m \in Id, NEW n \in Id PROVE wire'[m][n] \in Seq(BOOLEAN)
      OBVIOUS
    <3>1. wire'[m][n] \in {<<>>, <<FALSE>>, wire[m][n]}
      BY DEF FollowMesh
    <3> QED
      BY <2>1, <2>2, <3>1
  <2>4. wire' = [m \in Id |-> [n \in Id |-> wire'[m][n]]]
    BY DEF FollowMesh
  <2> QED
    BY <2>3, <2>4
<1>3. \A m, n \in Id : \/ entry'[m][n] = entry[m][n]
                       \/ entry'[m][n].audio = "none"
  BY DEF FollowMesh, NoEntry, NewEntry
<1>4. DeafIsSilent'
  <2> SUFFICES ASSUME NEW m \in Id, NEW n \in Id, voice'[m].deafened
               PROVE  entry'[m][n].audio # "on"
    BY DEF DeafIsSilent
  <2>1. voice[m].deafened /\ entry[m][n].audio # "on"
    BY DEF MediaInv, DeafIsSilent
  <2> QED
    BY <1>3, <2>1
<1> QED
  BY <1>1, <1>2, <1>4 DEF MediaInv

LEMMA MediaUntouched ==
    ASSUME MediaInv, UNCHANGED <<entry, wire>>,
           \A m \in Id : voice'[m].deafened = voice[m].deafened
    PROVE  MediaInv'
BY DEF MediaInv, DeafIsSilent

LEMMA SendStateTyped ==
    ASSUME wire \in [Id -> [Id -> Seq(BOOLEAN)]], NEW m \in Id,
           NEW muted \in BOOLEAN, SendState(m, muted)
    PROVE  wire' \in [Id -> [Id -> Seq(BOOLEAN)]]
<1>1. \A n \in Id : wire[m][n] \in Seq(BOOLEAN) /\ Append(wire[m][n], muted) \in Seq(BOOLEAN)
  OBVIOUS
<1> DEFINE sent == [n \in Id |->
               IF peers[m][n] = "up" /\ peers[n][m] \in {"new", "up"}
               THEN Append(wire[m][n], muted) ELSE wire[m][n]]
<1>2. sent \in [Id -> Seq(BOOLEAN)]
  BY <1>1
<1>3. wire' = [wire EXCEPT ![m] = sent]
  BY DEF SendState
<1> HIDE DEF sent
<1> QED
  BY <1>2, <1>3

LEMMA EntryFields ==
    ASSUME NEW e \in Entry, NEW audio \in {"none", "on", "silent"},
           NEW shown \in {"absent", "muted", "live"}
    PROVE  /\ [e EXCEPT !.audio = audio] \in Entry
           /\ [e EXCEPT !.audio = audio].audio = audio
           /\ [e EXCEPT !.shown = shown] \in Entry
           /\ [e EXCEPT !.shown = shown].audio = e.audio
BY DEF Entry

LEMMA SetDeafenedSilences ==
    ASSUME MediaInv, SessionTyped, NEW m \in Id, SetDeafened(m)
    PROVE  MediaInv'
<1> DEFINE deaf == ~voice[m].deafened
           audio(n) == IF entry[m][n].audio = "none" THEN "none"
                       ELSE IF deaf THEN "silent" ELSE "on"
           mine == [n \in Id |-> [entry[m][n] EXCEPT !.audio = audio(n)]]
<1>1. /\ voice' = [voice EXCEPT ![m].deafened = deaf, ![m].muted = @ \/ deaf]
      /\ deaf \in BOOLEAN /\ voice \in [Id -> VoiceRecord]
  BY DEF SetDeafened, SessionTyped
<1>2. entry' = [entry EXCEPT ![m] = mine]
  BY DEF SetDeafened
<1>3. /\ mine \in [Id -> Entry]
      /\ \A n \in Id : deaf => mine[n].audio # "on"
  <2> SUFFICES ASSUME NEW n \in Id
               PROVE  mine[n] \in Entry /\ (deaf => mine[n].audio # "on")
    OBVIOUS
  <2>1. entry[m][n] \in Entry /\ audio(n) \in {"none", "on", "silent"}
    BY DEF MediaInv
  <2>2. deaf => audio(n) # "on"
    OBVIOUS
  <2>3. mine[n] = [entry[m][n] EXCEPT !.audio = audio(n)]
    OBVIOUS
  <2> HIDE DEF mine, audio, deaf
  <2> QED
    BY <2>1, <2>2, <2>3 DEF Entry
<1>4. /\ voice'[m].deafened = deaf
      /\ \A n \in Id \ {m} : voice'[n] = voice[n]
  BY <1>1 DEF VoiceRecord
<1> HIDE DEF mine, deaf
<1>5. entry' \in [Id -> [Id -> Entry]]
  BY <1>2, <1>3 DEF MediaInv
<1>6. DeafIsSilent'
  <2> SUFFICES ASSUME NEW i \in Id, NEW n \in Id, voice'[i].deafened
               PROVE  entry'[i][n].audio # "on"
    BY DEF DeafIsSilent
  <2>1. CASE i = m
    BY <1>2, <1>3, <1>4, <2>1 DEF MediaInv
  <2>2. CASE i # m
    BY <1>2, <1>4, <2>2 DEF MediaInv, DeafIsSilent
  <2> QED
    BY <2>1, <2>2
<1>7. wire' \in [Id -> [Id -> Seq(BOOLEAN)]]
  BY SendStateTyped DEF SetDeafened, MediaInv
<1> QED
  BY <1>5, <1>6, <1>7 DEF MediaInv

\* One entry of a table is replaced.
LEMMA OneEntry ==
    ASSUME NEW S, NEW f \in [Id -> [Id -> S]], NEW m \in Id, NEW n \in Id,
           NEW v \in S, NEW g, g = [f EXCEPT ![m] = [f[m] EXCEPT ![n] = v]]
    PROVE  /\ g \in [Id -> [Id -> S]] /\ g[m][n] = v
           /\ \A i, j \in Id : i # m \/ j # n => g[i][j] = f[i][j]
<1> DEFINE row == [f[m] EXCEPT ![n] = v]
<1>1. /\ row \in [Id -> S] /\ row[n] = v
      /\ \A j \in Id : j # n => row[j] = f[m][j]
  OBVIOUS
<1>2. g = [f EXCEPT ![m] = row]
  OBVIOUS
<1> HIDE DEF row
<1>3. /\ g \in [Id -> [Id -> S]] /\ g[m] = row
      /\ \A i \in Id : i # m => g[i] = f[i]
  BY <1>1, <1>2
<1> QED
  BY <1>1, <1>3

LEMMA AttachSilent ==
    ASSUME MediaInv, SessionTyped, NEW m \in Id, NEW n \in Id, Attach(m, n)
    PROVE  MediaInv'
<1> DEFINE audio == IF voice[m].deafened THEN "silent" ELSE "on"
<1>1. /\ entry' = [entry EXCEPT ![m][n].audio = audio]
      /\ audio \in {"none", "on", "silent"} /\ (voice[m].deafened => audio # "on")
      /\ UNCHANGED <<voice, wire>> /\ entry \in [Id -> [Id -> Entry]]
  BY DEF Attach, MediaInv
<1> HIDE DEF audio
<1>2. /\ entry' \in [Id -> [Id -> Entry]]
      /\ entry'[m][n].audio = audio
      /\ \A i, j \in Id : i # m \/ j # n => entry'[i][j] = entry[i][j]
  <2> DEFINE heard == [entry[m][n] EXCEPT !.audio = audio]
  <2>1. heard \in Entry /\ heard.audio = audio
    <3>1. entry[m][n] \in Entry
      BY <1>1
    <3> QED
      BY <1>1, <3>1, EntryFields
  <2>2. entry' = [entry EXCEPT ![m] = [entry[m] EXCEPT ![n] = heard]]
    BY <1>1
  <2>3. entry \in [Id -> [Id -> Entry]]
    BY <1>1
  <2> HIDE DEF heard
  <2>4. /\ entry' \in [Id -> [Id -> Entry]] /\ entry'[m][n] = heard
        /\ \A i, j \in Id : i # m \/ j # n => entry'[i][j] = entry[i][j]
    BY <2>1, <2>2, <2>3, OneEntry
  <2> QED
    BY <2>1, <2>4
<1>3. DeafIsSilent'
  BY <1>1, <1>2 DEF MediaInv, DeafIsSilent
<1> QED
  BY <1>1, <1>2, <1>3 DEF MediaInv

LEMMA ReceiveStateKeeps ==
    ASSUME MediaInv, NEW m \in Id, NEW n \in Id, ReceiveState(m, n)
    PROVE  MediaInv'
<1>1. /\ entry \in [Id -> [Id -> Entry]] /\ UNCHANGED voice
      /\ wire \in [Id -> [Id -> Seq(BOOLEAN)]]
  BY DEF ReceiveState, MediaInv
<1>2. wire' \in [Id -> [Id -> Seq(BOOLEAN)]]
  <2>1. wire[n][m] \in Seq(BOOLEAN) /\ wire[n][m] # <<>>
    BY <1>1 DEF ReceiveState
  <2>2. Tail(wire[n][m]) \in Seq(BOOLEAN)
    BY <2>1, HeadTailProperties
  <2>3. wire' = [wire EXCEPT ![n] = [wire[n] EXCEPT ![m] = Tail(wire[n][m])]]
    BY DEF ReceiveState
  <2> QED
    BY <1>1, <2>2, <2>3
<1>3. PICK shown \in {"absent", "muted", "live"} :
         entry' = [entry EXCEPT ![m][n].shown = shown]
  <2>1. entry[m][n].shown \in {"absent", "muted", "live"}
    BY <1>1 DEF Entry
  <2> QED
    BY <2>1 DEF ReceiveState
<1>4. /\ entry' \in [Id -> [Id -> Entry]]
      /\ \A i, j \in Id : entry'[i][j].audio = entry[i][j].audio
  <2> DEFINE told == [entry[m][n] EXCEPT !.shown = shown]
  <2>1. told \in Entry /\ told.audio = entry[m][n].audio
    <3>1. entry[m][n] \in Entry
      BY <1>1
    <3> QED
      BY <3>1, EntryFields
  <2>2. entry' = [entry EXCEPT ![m] = [entry[m] EXCEPT ![n] = told]]
    BY <1>3
  <2>3. entry \in [Id -> [Id -> Entry]]
    BY <1>1
  <2> HIDE DEF told
  <2>4. /\ entry' \in [Id -> [Id -> Entry]] /\ entry'[m][n] = told
        /\ \A i, j \in Id : i # m \/ j # n => entry'[i][j] = entry[i][j]
    BY <2>1, <2>2, <2>3, OneEntry
  <2> QED
    BY <2>1, <2>4
<1>5. DeafIsSilent'
  BY <1>1, <1>4 DEF MediaInv, DeafIsSilent
<1> QED
  BY <1>2, <1>4, <1>5 DEF MediaInv

LEMMA LeaveKeepsMedia ==
    ASSUME MediaInv, SessionTyped, NEW u \in User, Leave(u),
           \A m \in Id : voice'[m].deafened = voice[m].deafened
    PROVE  MediaInv'
<1>1. FollowMesh \/ UNCHANGED <<entry, wire>>
  BY DEF Leave
<1> QED
  BY <1>1, FollowMeshKeeps, MediaUntouched DEF SessionTyped

LEMMA DeafnessKept ==
    ASSUME SessionTyped,
           \/ \E u \in User : \/ LeaveVoiceRoom(u)
                              \/ \E r \in Namespace, m \in Id : JoinVoiceRoom(u, r, m)
           \/ \E m \in Id : SetMuted(m) \/ \E mic \in {"live", "none"} : MicrophoneSettles(m, mic)
    PROVE  \A n \in Id : voice'[n].deafened = voice[n].deafened
<1>1. ASSUME NEW u \in User, LeaveVoiceRoom(u)
      PROVE  \A n \in Id : voice'[n].deafened = voice[n].deafened
  <2>1. current[u] \in Id /\ voice' = LeftVoice(current[u])
    BY <1>1 DEF LeaveVoiceRoom, SessionTyped
  <2> QED
    BY <2>1, LeftVoiceFields
<1>2. ASSUME NEW u \in User, NEW r \in Namespace, NEW m \in Id, JoinVoiceRoom(u, r, m)
      PROVE  \A n \in Id : voice'[n].deafened = voice[n].deafened
  <2> DEFINE left == IF current[u] = NoSession THEN voice ELSE LeftVoice(current[u])
  <2>1. voice' = [left EXCEPT ![m].room = r, ![m].mic = "asking"]
    BY <1>2 DEF JoinVoiceRoom
  <2>2. /\ left \in [Id -> VoiceRecord]
        /\ \A n \in Id : left[n].deafened = voice[n].deafened
    <3>1. CASE current[u] = NoSession
      BY <3>1 DEF SessionTyped
    <3>2. CASE current[u] # NoSession
      <4>1. current[u] \in Id
        BY <3>2 DEF SessionTyped
      <4> QED
        BY <3>2, <4>1, LeftVoiceFields
    <3> QED
      BY <3>1, <3>2
  <2> HIDE DEF left
  <2> QED
    BY <2>1, <2>2 DEF VoiceRecord
<1>3. ASSUME NEW m \in Id, SetMuted(m)
      PROVE  \A n \in Id : voice'[n].deafened = voice[n].deafened
  BY <1>3 DEF SetMuted, SessionTyped, VoiceRecord
<1>4. ASSUME NEW m \in Id, NEW mic \in {"live", "none"}, MicrophoneSettles(m, mic)
      PROVE  \A n \in Id : voice'[n].deafened = voice[n].deafened
  <2>1. PICK answer : voice' = [voice EXCEPT ![m].mic = answer]
    BY <1>4 DEF MicrophoneSettles
  <2> QED
    BY <2>1 DEF SessionTyped, VoiceRecord
<1> QED
  BY <1>1, <1>2, <1>3, <1>4

LEMMA MediaInvInductive ==
    ASSUME MediaInv, SessionInv, [SessionNext]_sessionVars
    PROVE  MediaInv'
<1>0. SessionTyped
  BY DEF SessionInv
<1>1. ASSUME NEW u \in User, LeaveVoiceRoom(u) \/ \E r \in Namespace, m \in Id : JoinVoiceRoom(u, r, m)
      PROVE  MediaInv'
  <2>1. Leave(u)
    BY <1>1 DEF LeaveVoiceRoom, JoinVoiceRoom
  <2> QED
    BY <1>0, <1>1, <2>1, DeafnessKept, LeaveKeepsMedia
<1>2. ASSUME NEW m \in Id, NEW mic \in {"live", "none"}, MicrophoneSettles(m, mic)
      PROVE  MediaInv'
  <2>1. UNCHANGED <<entry, wire>>
    BY <1>2 DEF MicrophoneSettles
  <2> QED
    BY <1>0, <1>2, <2>1, DeafnessKept, MediaUntouched
<1>3. ASSUME NEW m \in Id, SetMuted(m)
      PROVE  MediaInv'
  <2>1. /\ UNCHANGED entry /\ SendState(m, voice'[m].muted)
        /\ \A n \in Id : voice'[n].deafened = voice[n].deafened
    BY <1>0, <1>3, DeafnessKept DEF SetMuted
  <2>2. voice'[m].muted \in BOOLEAN
    BY <1>0, <1>3 DEF SetMuted, SessionTyped, VoiceRecord
  <2>3. wire' \in [Id -> [Id -> Seq(BOOLEAN)]]
    BY <2>1, <2>2, SendStateTyped DEF MediaInv
  <2> QED
    BY <2>1, <2>3 DEF MediaInv, DeafIsSilent
<1>4. CASE VoiceStep
  BY <1>0, <1>1, <1>2, <1>3, <1>4, SetDeafenedSilences, AttachSilent, ReceiveStateKeeps
     DEF VoiceStep
<1>5. CASE InMesh(MeshStep) \/ InMesh(\E msg \in net : Lose(msg))
  BY <1>0, <1>5, MeshFrame, FollowMeshKeeps DEF SessionTyped
<1>6. CASE UNCHANGED sessionVars
  BY <1>6, MediaUntouched DEF sessionVars, voiceVars
<1> QED
  BY <1>4, <1>5, <1>6 DEF SessionNext

-----------------------------------------------------------------------------
(* The theorems.                                                            *)

LEMMA InitOK == SessionInit => IInv
<1> SUFFICES ASSUME SessionInit PROVE IInv
  OBVIOUS
<1> USE DEF SessionInit, MeshInit
<1>1. MeshInv
  <2>1. \A m \in Id : PeersOf(m) = {}
    BY DEF PeersOf
  <2>2. \A m \in Id : IsFiniteSet(PeersOf(m)) /\ Cardinality(PeersOf(m)) = 0
    BY <2>1, FS_EmptySet
  <2> QED
    BY <2>1, <2>2, MeshAssumption DEF MeshInv, PlacesKept
<1>2. SessionTyped
  BY DEF SessionTyped, VoiceRecord
<1>3. SessionInv
  BY <1>2, SessionAssumption DEF SessionInv, Holder, Settled, IsOpen
<1>4. MediaInv
  <2>1. <<>> \in Seq(BOOLEAN)
    OBVIOUS
  <2> QED
    BY <2>1 DEF MediaInv, DeafIsSilent, NoEntry, Entry
<1> QED
  BY <1>1, <1>3, <1>4 DEF IInv

LEMMA Inductive == IInv /\ [SessionNext]_sessionVars => IInv'
BY SessionInvInductive, MeshInvInductive, MediaInvInductive DEF IInv

LEMMA Invariance == SessionSpec => []IInv
BY InitOK, Inductive, PTL DEF SessionSpec

\* The values of the state, and the places of every mesh (mesh.js 114-121).
THEOREM VoiceTypeCorrect == SessionSpec => []VoiceTypeOK
<1>1. IInv => VoiceTypeOK
  <2> SUFFICES ASSUME IInv PROVE VoiceTypeOK
    OBVIOUS
  <2>1. MeshTypeOK /\ PlacesKept
    BY DEF IInv, MeshInv, SessionInv, SessionTyped, MeshTypeOK
  <2>2. /\ current \in [User -> Id \cup {NoSession}]
        /\ voice \in [Id -> VoiceRecord]
        /\ entry \in [Id -> [Id -> Entry]]
        /\ \A m, n \in Id : wire[m][n] \in Seq(BOOLEAN)
    BY DEF IInv, SessionInv, SessionTyped, MediaInv
  <2> QED
    BY <2>1, <2>2 DEF VoiceTypeOK, VoiceRecord, Entry
<1> QED
  BY <1>1, Invariance, PTL

\* Nobody is heard in a room they have left, whatever meets the microphone
\* prompt (session.js 51-79, 177-196).
THEOREM MicrophoneFollows == SessionSpec => []MicFollowsSession
<1>1. IInv => MicFollowsSession
  <2> SUFFICES ASSUME IInv, NEW u \in User, NEW m \in SessionsOf[u],
                      voice[m].mic = "live" \/ IsOpen(m)
               PROVE  /\ current[u] = m /\ ~voice[m].closed
                      /\ namespace[m] = voice[m].room
    BY DEF MicFollowsSession
  <2>1. m \in Id /\ Holder(u, m) /\ Settled(m)
    BY SessionAssumption DEF IInv, SessionInv
  <2> QED
    BY <2>1 DEF Holder, Settled
<1> QED
  BY <1>1, Invariance, PTL

\* Who turned the sound off hears nobody (session.js 91-103, 165-175).
THEOREM DeafHearsNobody == SessionSpec => []DeafIsSilent
<1>1. IInv => DeafIsSilent
  BY DEF IInv, MediaInv
<1> QED
  BY <1>1, Invariance, PTL
=============================================================================
