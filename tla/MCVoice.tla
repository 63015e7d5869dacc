------------------------------- MODULE MCVoice -------------------------------
(***************************************************************************)
(* Instances of VoiceChannels, with the voice sessions and meshes below it,  *)
(* for TLC.  The user alice has the page and two sessions, bob one session.  *)
(***************************************************************************)
EXTENDS VoiceChannels

CONSTANTS alice, bob, a1, a2, b1, r1, r2

MCSessions == [u \in User |-> IF u = alice THEN {a1, a2} ELSE {b1}]

\* Bound: one kind of trouble at a time.  On the "network" alice leaves and joins
\* again and messages are lost; in "media" the two use their controls over a
\* connection that comes and goes; with the "list" alice is alone, and has not answered
\* the microphone prompt yet.
VARIABLE trouble

mcVars == <<channelVars, trouble>>

MCInit ==
    /\ ChannelsInit /\ versions = <<{r1}>>
    /\ trouble \in {"network", "media", "list"}

Users ==
    /\ \/ \E u \in User : LeaveVoiceRoom(u)
       \/ /\ trouble # "list"
          /\ \/ JoinVoiceRoom(alice, r1, a1) \/ JoinVoiceRoom(bob, r1, b1)
             \/ trouble = "network" /\ voice[a1].closed /\ JoinVoiceRoom(alice, r1, a2)
    /\ UNCHANGED <<store, page>>

Connections ==
    \/ trouble \in {"network", "calm"} /\ InMesh(MeshStep)
    \/ trouble = "network" /\ InMesh(\E msg \in net : Lose(msg))
    \/ /\ trouble = "media"
       /\ InMesh(\/ \E m \in Id : SayHello(m) \/ \E n \in Id : PeerConnects(m, n) \/ PeerCloses(m, n)
                 \/ \E msg \in net : Receive(msg.to, msg))

\* Bound: no more than two state messages are under way on a channel.
RoomOnWire(m) == \A n \in Id : Len(wire[m][n]) < 2

Media ==
    \/ trouble # "list" /\ \E m \in Id : MicrophoneSettles(m, "live")
    \/ /\ trouble = "media"
       /\ \E m \in Id : \/ MicrophoneSettles(m, "none")
                        \/ RoomOnWire(m) /\ (SetMuted(m) \/ SetDeafened(m))
                        \/ \E n \in Id : Attach(m, n) \/ ReceiveState(m, n)

Used == UNION {versions[i] : i \in DOMAIN versions}

\* Bounds: alice asks to delete a room while at most one request of hers is under
\* way, makes at most one in her second session, which follows the first, and
\* makes none and joins no room once a GET has failed; and of the rooms that may
\* be created r2 is the first (it is like r3).
List ==
    /\ trouble = "list" /\ ListStep
    /\ page'.confirm # NoRoom => Len(page'.asked) <= 1
    /\ page'.missed => page'.asked = <<>> /\ voice'[a1].room = NoRoom
    /\ voice'[a2].room # NoRoom => page'.confirm = NoRoom /\ Len(page'.asked) <= 1
    /\ current'[alice] = a2 => current[alice] = a2 \/ voice[a1].closed'
    /\ Used' \subseteq {r1} \/ r2 \in Used'

\* Nothing is lost any more.
Calm == trouble = "network" /\ trouble' = "calm" /\ UNCHANGED channelVars

MCNext ==
    \/ /\ \/ Users \/ List
          \/ (Connections \/ Media) /\ UNCHANGED <<store, page>>
       /\ UNCHANGED trouble
    \/ Calm

MCSpec == MCInit /\ [][MCNext]_mcVars

Fairly(A) == InMesh(A) /\ UNCHANGED <<store, page, trouble>>

\* The hello timer runs; a Peer whose other end is gone gives up; messages are
\* lost for some time, but not for ever.
MCFairSpec ==
    /\ MCSpec /\ WF_mcVars(Calm)
    /\ \A m \in Id :
          /\ WF_mcVars(Fairly(SayHello(m)))
          /\ WF_mcVars(Fairly(\E n \in Id : DeadPeerCloses(m, n)))
          /\ \A n \in Id \ {m} : ~({m, n} \subseteq {a1, a2}) =>
                WF_mcVars(Fairly(\E type \in {"hello", "welcome", "signal"} :
                      Receive(m, [type |-> type, from |-> n, to |-> m])))
==============================================================================
