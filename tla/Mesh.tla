-------------------------------- MODULE Mesh --------------------------------
(***************************************************************************)
(* signal/mesh.js over signal/hub.js: the members of a namespace find each   *)
(* other by hellos and hold one Peer each for the others, up to maxPeers.    *)
(* A member is a mesh id, which makeMeshId never draws twice.                *)
(*                                                                          *)
(* A Peer is "new" until it connects, then "up" (its inside is the module    *)
(* Peer); it is "gone" when its other end was destroyed and it has not       *)
(* noticed.  Messages may be lost or overtake each other: a failed POST, a   *)
(* full buffer, a relay of another node, an event stream that is down.       *)
(***************************************************************************)
EXTENDS Naturals, FiniteSets

CONSTANTS
    Id,             \* mesh ids
    Namespace, NoNamespace,
    MaxPeers        \* maxPeers

ASSUME MeshAssumption == MaxPeers \in Nat /\ NoNamespace \notin Namespace

VARIABLES
    phase,      \* of a mesh: "unborn", "open" or "closed"
    namespace,  \* of its hub
    peers,      \* peers[m][n]: the Peer of m for n
    net         \* messages under way, each to one member

meshVars == <<phase, namespace, peers, net>>

\* A welcome is the hello that answers a hello, to one member.
Message == [type: {"hello", "bye", "welcome", "signal"}, from: Id, to: Id]

MeshInit ==
    /\ phase = [m \in Id |-> "unborn"]
    /\ namespace = [m \in Id |-> NoNamespace]
    /\ peers = [m \in Id |-> [n \in Id |-> "none"]]
    /\ net = {}

IsOpen(m) == phase[m] = "open"
PeersOf(m) == {n \in Id : peers[m][n] # "none"}

\* hub.publish to the members in to, or all: it reaches those who subscribed.
Published(m, type, to) ==
    {[type |-> type, from |-> m, to |-> n] : n \in
        {n \in to \ {m} : IsOpen(n) /\ namespace[n] = namespace[m]}}

\* The constructor, with hub.subscribe for all and for itself.
Open(m, space) ==
    /\ phase[m] = "unborn"
    /\ phase' = [phase EXCEPT ![m] = "open"]
    /\ namespace' = [namespace EXCEPT ![m] = space]
    /\ UNCHANGED <<peers, net>>

\* onOpen: both streams are open, or one opened again after a gap.
StreamOpens(m) ==
    /\ IsOpen(m)
    /\ net' = net \cup Published(m, "hello", Id)
    /\ UNCHANGED <<phase, namespace, peers>>

\* Mutant: the room that is left is counted one short.
SayHelloShort(m) ==
    /\ IsOpen(m) /\ Cardinality(PeersOf(m)) + 1 < MaxPeers
    /\ net' = net \cup Published(m, "hello", Id)
    /\ UNCHANGED <<phase, namespace, peers>>

\* The hello timer.
SayHello(m) ==
    /\ IsOpen(m) /\ Cardinality(PeersOf(m)) < MaxPeers
    /\ net' = net \cup Published(m, "hello", Id)
    /\ UNCHANGED <<phase, namespace, peers>>

\* Mutant: there is always a place.
EnsurePeerUncapped(m, n) ==
    peers' = IF peers[m][n] = "none" THEN [peers EXCEPT ![m][n] = "new"] ELSE peers

\* ensurePeer: the Peer of m for n is there afterwards, or there is no place.
EnsurePeer(m, n) ==
    peers' = IF peers[m][n] = "none" /\ Cardinality(PeersOf(m)) < MaxPeers
             THEN [peers EXCEPT ![m][n] = "new"] ELSE peers

Left(peer) == IF peer = "up" THEN "gone" ELSE peer

\* Mutant: the mesh only forgets a Peer that was connected.
DropPeerConnected(m, n) ==
    peers' = IF peers[m][n] \in {"up", "gone"}
             THEN [peers EXCEPT ![m][n] = "none", ![n][m] = Left(@)] ELSE peers

\* destroy() of a Peer, and the mesh's 'close' handler.
DropPeer(m, n) ==
    peers' = [peers EXCEPT ![m][n] = "none", ![n][m] = Left(@)]

\* onMessage.  A broadcast hello that makes a Peer is answered directly.
Receive(m, msg) ==
    LET n == msg.from IN
    /\ msg \in net /\ msg.to = m
    /\ IF msg.type = "bye" THEN DropPeer(m, n) ELSE EnsurePeer(m, n)
    /\ net' = (net \ {msg}) \cup
                 IF msg.type = "hello" /\ peers'[m][n] # peers[m][n]
                 THEN Published(m, "welcome", {n}) ELSE {}
    /\ UNCHANGED <<phase, namespace>>

\* A message is lost.
Lose(msg) ==
    /\ msg \in net
    /\ net' = net \ {msg}
    /\ UNCHANGED <<phase, namespace, peers>>

\* sendTo, for the Peer of m for n: a description or a candidate.
PeerSignals(m, n) ==
    /\ peers[m][n] # "none"
    /\ net' = net \cup Published(m, "signal", {n})
    /\ UNCHANGED <<phase, namespace, peers>>

\* 'connect' of a Peer, whose other end is there.
PeerConnects(m, n) ==
    /\ peers[m][n] = "new" /\ peers[n][m] \in {"new", "up"}
    /\ peers' = [peers EXCEPT ![m][n] = "up"]
    /\ UNCHANGED <<phase, namespace, net>>

\* 'close' of a Peer: its connect timeout, or it cannot recover.
PeerCloses(m, n) ==
    /\ peers[m][n] # "none"
    /\ DropPeer(m, n)
    /\ UNCHANGED <<phase, namespace, net>>

\* close(), of an open mesh m: what is under way to it reaches nobody.
Closed(m) ==
    /\ phase' = [phase EXCEPT ![m] = "closed"]
    /\ peers' = [i \in Id |-> [n \in Id |->
          IF i = m THEN "none" ELSE IF n = m THEN Left(peers[i][n]) ELSE peers[i][n]]]
    /\ net' = {msg \in net : msg.to # m} \cup Published(m, "bye", Id)
    /\ UNCHANGED namespace

Connecting(m) == \E n \in Id : PeerSignals(m, n) \/ PeerConnects(m, n) \/ PeerCloses(m, n)

MeshStep ==
    \/ \E m \in Id : StreamOpens(m) \/ SayHello(m) \/ Connecting(m)
    \/ \E msg \in net : Receive(msg.to, msg)

\* The other end of the Peer is gone: it gives up (GivesUp of module Peer).
DeadPeerCloses(m, n) == (peers[m][n] = "gone" \/ peers[n][m] = "none") /\ PeerCloses(m, n)

-----------------------------------------------------------------------------
(* Properties.                                                              *)

MeshTypeOK ==
    /\ phase \in [Id -> {"unborn", "open", "closed"}]
    /\ namespace \in [Id -> Namespace \cup {NoNamespace}]
    /\ peers \in [Id -> [Id -> {"none", "new", "up", "gone"}]]
    /\ net \subseteq Message

\* maxPeers holds in every order of hellos, signals and closing peers, and only
\* an open mesh has Peers or hears anything (114-121, 155-162).
PlacesKept ==
    \A m \in Id :
        /\ Cardinality(PeersOf(m)) <= MaxPeers
        /\ ~IsOpen(m) => PeersOf(m) = {} /\ \A msg \in net : msg.to # m

\* The place of a member that left is free in the end, although its last signals
\* may arrive after its bye and take it once more, or the bye be lost (84-112).
PlacesFreed ==
    <>[](\A m, n \in Id : phase[n] = "closed" => peers[m][n] = "none")

\* Two members that stay hold a Peer for each other again and again, whatever was
\* lost while a stream was down or a place taken: the hello timer repeats itself
\* as long as there is a place (43-72).
MembersMeet ==
    \A m, n \in Id :
        <>[](m # n /\ IsOpen(m) /\ IsOpen(n) /\ namespace[m] = namespace[n])
            => []<>(peers[m][n] # "none")
=============================================================================
