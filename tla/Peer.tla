-------------------------------- MODULE Peer --------------------------------
(***************************************************************************)
(* signal/peer.js: the two ends of one connection.  Each end is a Peer      *)
(* object over an RTCPeerConnection and negotiates with the "perfect        *)
(* negotiation" pattern; signals reach the other end in order, or are lost. *)
(* An action is one run of the event loop of one end, up to its await.      *)
(*                                                                          *)
(* The RTCPeerConnection is the browser's: it is modelled by what peer.js   *)
(* uses of it.  Its operations chain runs one set*Description at a time,    *)
(* in the order of the calls, and 'negotiationneeded' fires in a stable     *)
(* state with an empty chain.                                               *)
(***************************************************************************)
EXTENDS Naturals, Sequences

CONSTANTS
    Polite, Impolite, \* the two ends: mesh.js makes the greater id polite
    Track,            \* the tracks an end may add to its connection
    MaxOutages        \* bound: how often the network fails

ASSUME PeerAssumption == Polite # Impolite /\ MaxOutages \in Nat

End == {Polite, Impolite}
Other(e) == IF e = Polite THEN Impolite ELSE Polite

VARIABLES
    peer,   \* the Peer object of each end
    rtc,    \* its RTCPeerConnection and data channel
    inbox,  \* signals sent to it: on their way, or in its queue
    up,     \* whether the network of the ends works
    outages,\* how often it failed
    lost    \* history: whether a signal was lost

network == <<up, outages, lost>>
vars == <<peer, rtc, inbox, network>>

Idle == [step |-> "idle"]
NoDescription == [tracks |-> {}, ice |-> 0]

\* The constructor: media and the data channel are there to be negotiated.
NewPeer == [
    making |-> FALSE, ignore |-> FALSE,     \* makingOffer, ignoreOffer
    handling |-> Idle,                      \* what applySignal awaits
    pending |-> {},                         \* pendingCandidates
    restarted |-> FALSE,                    \* iceRestarted
    connected |-> FALSE, destroyed |-> FALSE,
    connectTimer |-> TRUE, recoverTimer |-> FALSE]

NewConnection == [
    signaling |-> "stable", conn |-> "new", open |-> FALSE,
    tracks |-> {},                \* the tracks with a sender
    local |-> NoDescription,      \* current local description
    offer |-> NoDescription,      \* pending local description
    remote |-> NoDescription,     \* remote description
    candidate |-> 0,              \* ICE generation of the candidate added last
    ice |-> 0, fresh |-> TRUE,    \* own ICE generation, and whether the next
                                  \* description starts another one
    retry |-> FALSE]              \* new remote credentials are to be tried

Init ==
    /\ peer = [e \in End |-> NewPeer]
    /\ rtc = [e \in End |-> NewConnection]
    /\ inbox = [e \in End |-> <<>>]
    /\ up = TRUE /\ outages = 0 /\ lost = FALSE

Live(e) == ~peer[e].destroyed

\* this.signal(...): what is sent to a destroyed peer has no effect.
Signal(e, signals) ==
    inbox' = [inbox EXCEPT ![Other(e)] =
                IF Live(Other(e)) THEN @ \o signals ELSE @]

-----------------------------------------------------------------------------
(* Negotiation.                                                             *)

\* The browser's check for negotiation.
Needed(e) == rtc[e].fresh \/ rtc[e].tracks # rtc[e].local.tracks

\* setLocalDescription() resolves: the description of tracks is applied and
\* sent; a new ICE generation gathers a candidate, which is sent after it.
SetLocal(e, type, tracks) ==
    LET c == rtc[e]
        ice == IF c.fresh THEN c.ice + 1 ELSE c.ice
        d == [tracks |-> tracks, ice |-> ice]
        n == [c EXCEPT !.ice = ice, !.fresh = FALSE]
    IN  /\ rtc' = [rtc EXCEPT ![e] =
              IF type = "offer"
              THEN [n EXCEPT !.signaling = "have-local-offer", !.offer = d]
              ELSE [n EXCEPT !.signaling = "stable", !.local = d]]
        /\ Signal(e, <<[type |-> type, description |-> d]>> \o
                     IF c.fresh THEN <<[type |-> "candidate", ice |-> ice]>>
                     ELSE <<>>)

\* onnegotiationneeded: negotiate() up to its await.
Negotiate(e) ==
    /\ Live(e) /\ rtc[e].signaling = "stable" /\ Needed(e)
    /\ ~peer[e].making /\ peer[e].handling = Idle
    /\ peer' = [peer EXCEPT ![e].making = TRUE]
    /\ UNCHANGED <<rtc, inbox, network>>

\* The rest of it.
OfferMade(e) ==
    /\ Live(e) /\ peer[e].making
    /\ SetLocal(e, "offer", rtc[e].tracks)
    /\ peer' = [peer EXCEPT ![e].making = FALSE]
    /\ UNCHANGED network

\* Mutant: no end yields to a colliding offer.
IgnoresOfferAlways(e, type) ==
    type = "offer" /\ (peer[e].making \/ rtc[e].signaling # "stable")

\* A colliding offer is ignored by the impolite end.
IgnoresOffer(e, type) ==
    /\ type = "offer" /\ e = Impolite
    /\ peer[e].making \/ rtc[e].signaling # "stable"

\* applySignal of the next signal of the queue, a description.
ReceiveDescription(e) ==
    /\ Live(e) /\ inbox[e] # <<>> /\ peer[e].handling = Idle
    /\ LET m == Head(inbox[e])
           ignored == IgnoresOffer(e, m.type)
       IN  /\ m.type # "candidate"
           /\ peer' = [peer EXCEPT ![e].ignore = ignored,
                 ![e].handling = IF ignored THEN @
                                 ELSE [step |-> "remote", signal |-> m]]
    /\ inbox' = [inbox EXCEPT ![e] = Tail(@)]
    /\ UNCHANGED <<rtc, network>>

\* applySignal of a candidate: kept until there is a remote description.  One
\* of another ICE generation is refused, which addCandidate catches.
ReceiveCandidate(e) ==
    /\ Live(e) /\ inbox[e] # <<>> /\ peer[e].handling = Idle
    /\ LET m == Head(inbox[e]) IN
       /\ m.type = "candidate"
       /\ IF rtc[e].remote = NoDescription
          THEN /\ peer' = [peer EXCEPT ![e].pending = @ \cup {m.ice}]
               /\ UNCHANGED rtc
          ELSE /\ rtc' = [rtc EXCEPT ![e].candidate =
                            IF m.ice = rtc[e].remote.ice THEN m.ice ELSE @]
               /\ UNCHANGED peer
    /\ inbox' = [inbox EXCEPT ![e] = Tail(@)]
    /\ UNCHANGED network

\* setRemoteDescription resolves, behind an offer that is being made, and the
\* pending candidates are added.  An offer rolls a pending local one back.
RemoteSet(e) ==
    /\ Live(e) /\ peer[e].handling.step = "remote" /\ ~peer[e].making
    /\ LET m == peer[e].handling.signal
           d == m.description
           c == rtc[e]
           n == [c EXCEPT !.remote = d,
                    !.candidate = IF d.ice \in peer[e].pending THEN d.ice ELSE @,
                    !.retry = d.ice # c.remote.ice]
           rolledBack == c.signaling = "have-local-offer" /\ c.offer.ice # c.local.ice
           restart == c.remote # NoDescription /\ d.ice # c.remote.ice
       IN  \/ /\ m.type = "offer"
              /\ rtc' = [rtc EXCEPT ![e] =
                    [n EXCEPT !.signaling = "have-remote-offer",
                              !.fresh = @ \/ rolledBack \/ restart]]
              /\ peer' = [peer EXCEPT ![e].pending = {},
                                      ![e].handling = [step |-> "answer"]]
           \/ /\ m.type = "answer" /\ c.signaling = "have-local-offer"
              /\ rtc' = [rtc EXCEPT ![e] =
                    [n EXCEPT !.signaling = "stable", !.local = c.offer]]
              /\ peer' = [peer EXCEPT ![e].pending = {}, ![e].handling = Idle]
           \/ /\ m.type = "answer" /\ c.signaling # "have-local-offer"
              /\ peer' = [peer EXCEPT ![e].handling = Idle]
              /\ UNCHANGED rtc
    /\ UNCHANGED <<inbox, network>>

\* The answer is applied and sent.  Tracks added since are in it only when the
\* offer had a place for them.
AnswerMade(e) ==
    /\ Live(e) /\ peer[e].handling.step = "answer"
    /\ \E tracks \in {rtc[e].tracks, rtc[e].local.tracks} :
          SetLocal(e, "answer", tracks)
    /\ peer' = [peer EXCEPT ![e].handling = Idle]
    /\ UNCHANGED network

\* addTrack and removeTrack of peer.js.
AddTrack(e, t) ==
    /\ rtc' = [rtc EXCEPT ![e].tracks = @ \cup {t}]
    /\ UNCHANGED <<peer, inbox, network>>
RemoveTrack(e, t) ==
    /\ rtc' = [rtc EXCEPT ![e].tracks = @ \ {t}]
    /\ UNCHANGED <<peer, inbox, network>>

-----------------------------------------------------------------------------
(* The connection.                                                          *)

\* Mutant: the timers of a destroyed peer are left running.
DestroyedTimed(p) == [NewPeer EXCEPT !.destroyed = TRUE, !.connected = p.connected]

\* Nothing reads a destroyed object but its two flags.
Destroyed(p) == [NewPeer EXCEPT !.destroyed = TRUE, !.connectTimer = FALSE,
                                !.connected = p.connected]

Destroy(e) ==
    /\ peer' = [peer EXCEPT ![e] = Destroyed(@)]
    /\ inbox' = [inbox EXCEPT ![e] = <<>>]
    /\ rtc' = [rtc EXCEPT ![e] = NewConnection]
    /\ UNCHANGED network

\* destroy() by the mesh: a bye, or the session ends.
Close(e) == Live(e) /\ Destroy(e)

\* Each end has the other's address.
Reachable == \A e \in End : /\ Live(e) /\ up
                            /\ rtc[e].remote # NoDescription
                            /\ rtc[e].candidate = rtc[e].remote.ice

Broken == ~up \/ lost \/ \E e \in End : ~Live(e)

\* checkConnected, with the state c of the connection.
Checked(p, c) ==
    IF ~p.connected /\ c.conn = "connected" /\ c.open
    THEN [p EXCEPT !.connected = TRUE, !.restarted = FALSE, !.connectTimer = FALSE]
    ELSE p

ChannelOpens(e) ==
    /\ Live(e) /\ ~rtc[e].open /\ Reachable
    /\ rtc' = [rtc EXCEPT ![e].open = TRUE]
    /\ peer' = [peer EXCEPT ![e] = Checked(@, rtc'[e])]
    /\ UNCHANGED <<inbox, network>>

\* How the browser's connectionState may change.
MayChange(e, to) ==
    LET c == rtc[e] IN
    CASE to = "connecting" -> c.retry /\ c.conn # "connected"
      [] to = "connected" -> Reachable /\ c.conn \in {"connecting", "disconnected"}
      [] to = "disconnected" -> Broken /\ c.conn = "connected"
      [] to = "failed" -> Broken /\ c.conn \in {"connecting", "disconnected"}

\* Mutant: after the restart nobody looks again.
RecoverUntimed(e, c) ==
    IF peer[e].restarted THEN Destroy(e)
    ELSE /\ peer' = [peer EXCEPT ![e].restarted = TRUE, ![e].recoverTimer = FALSE]
         /\ rtc' = [rtc EXCEPT ![e] = [c EXCEPT !.fresh = TRUE]]
         /\ UNCHANGED <<inbox, network>>

\* Mutant: the restart is not remembered.
RecoverAgain(e, c) ==
    /\ peer' = [peer EXCEPT ![e].recoverTimer = TRUE]
    /\ rtc' = [rtc EXCEPT ![e] = [c EXCEPT !.fresh = TRUE]]
    /\ UNCHANGED <<inbox, network>>

\* recover(), with the connection c: one ICE restart, then destroy().
Recover(e, c) ==
    IF peer[e].restarted THEN Destroy(e)
    ELSE /\ peer' = [peer EXCEPT ![e].restarted = TRUE, ![e].recoverTimer = TRUE]
         /\ rtc' = [rtc EXCEPT ![e] = [c EXCEPT !.fresh = TRUE]]
         /\ UNCHANGED <<inbox, network>>

\* onConnectionState.  ('closed' is reached by pc.close() alone, which fires
\* no event.)
ConnectionStateOther(e, to) ==
    /\ Live(e) /\ to # "failed" /\ MayChange(e, to)
    /\ LET c == [rtc[e] EXCEPT !.conn = to, !.retry = @ /\ to # "connecting"]
           p == [peer[e] EXCEPT !.recoverTimer = to = "disconnected"]
       IN  /\ rtc' = [rtc EXCEPT ![e] = c]
           /\ peer' = [peer EXCEPT ![e] = Checked(p, c)]
    /\ UNCHANGED <<inbox, network>>

ConnectionFailed(e) ==
    /\ Live(e) /\ MayChange(e, "failed")
    /\ Recover(e, [rtc[e] EXCEPT !.conn = "failed"])

RecoverTimeout(e) ==
    /\ Live(e) /\ peer[e].recoverTimer
    /\ IF rtc[e].conn = "connected"
       THEN /\ peer' = [peer EXCEPT ![e].recoverTimer = FALSE]
            /\ UNCHANGED <<rtc, inbox, network>>
       ELSE Recover(e, rtc[e])

ConnectTimeout(e) ==
    /\ Live(e) /\ peer[e].connectTimer
    /\ Destroy(e)

-----------------------------------------------------------------------------
(* The network.                                                             *)

LoseSignal(e) ==
    /\ ~up /\ inbox[e] # <<>>
    /\ inbox' = [inbox EXCEPT ![e] = Tail(@)]
    /\ lost' = TRUE
    /\ UNCHANGED <<peer, rtc, up, outages>>

GoesDown ==
    /\ up /\ outages < MaxOutages /\ \A e \in End : peer[e].connected
    /\ up' = FALSE /\ outages' = outages + 1
    /\ UNCHANGED <<peer, rtc, inbox, lost>>

ComesBack == ~up /\ up' = TRUE /\ UNCHANGED <<peer, rtc, inbox, outages, lost>>

Handle(e) == \/ OfferMade(e) \/ ReceiveDescription(e) \/ ReceiveCandidate(e)
             \/ RemoteSet(e) \/ AnswerMade(e)

Next ==
    \/ \E e \in End :
         \/ Negotiate(e) \/ Handle(e) \/ Close(e)
         \/ ChannelOpens(e) \/ ConnectionFailed(e)
         \/ \E to \in {"connecting", "connected", "disconnected"} :
              ConnectionStateOther(e, to)
         \/ RecoverTimeout(e) \/ ConnectTimeout(e) \/ LoseSignal(e)
    \/ GoesDown \/ ComesBack

Spec == Init /\ [][Next]_vars

\* What goes on by itself at e: its event loop, its timers, and the browser's
\* ICE agent, which notices a dead connection and ends every check.
Progress(e) ==
    \/ Negotiate(e) \/ Handle(e) \/ ChannelOpens(e)
    \/ \E to \in {"connecting", "connected", "disconnected"} :
         ConnectionStateOther(e, to)
    \/ ConnectionFailed(e)

FairSpec == Spec /\ \A e \in End :
    WF_vars(Progress(e)) /\ WF_vars(RecoverTimeout(e)) /\ WF_vars(ConnectTimeout(e))

-----------------------------------------------------------------------------
(* Properties.                                                              *)

Description == [tracks: SUBSET Track, ice: Nat]
SignalOK(m) ==
    \/ m.type \in {"offer", "answer"} /\ m.description \in Description
    \/ m.type = "candidate" /\ m.ice \in Nat

\* The values of the variables of peer.js, and how its flags go together: an
\* answer is only made to an offer that is in place (119-125), and the connect
\* timer runs until the peer is connected or destroyed (77-82, 185, 228).
TypeOK ==
    /\ peer \in [End -> [making: BOOLEAN, ignore: BOOLEAN,
                         handling: {peer[e].handling : e \in End},
                         pending: SUBSET Nat, restarted: BOOLEAN,
                         connected: BOOLEAN, destroyed: BOOLEAN,
                         connectTimer: BOOLEAN, recoverTimer: BOOLEAN]]
    /\ rtc \in [End -> [
          signaling: {"stable", "have-local-offer", "have-remote-offer"},
          conn: {"new", "connecting", "connected", "disconnected", "failed"},
          open: BOOLEAN, tracks: SUBSET Track, local: Description,
          offer: Description, remote: Description, candidate: Nat, ice: Nat,
          fresh: BOOLEAN, retry: BOOLEAN]]
    /\ up \in BOOLEAN /\ outages \in 0..MaxOutages /\ lost \in BOOLEAN
    /\ \A e \in End :
          /\ \A i \in DOMAIN inbox[e] : SignalOK(inbox[e][i])
          /\ peer[e].handling.step \in {"idle", "remote", "answer"}
          /\ peer[e].handling.step = "remote" => SignalOK(peer[e].handling.signal)
          /\ peer[e].handling.step = "answer"
                <=> rtc[e].signaling = "have-remote-offer"
          /\ peer[e].connectTimer <=> ~peer[e].connected /\ Live(e)

\* Nothing is under way, and nothing was lost.
Quiet ==
    /\ ~lost
    /\ \A e \in End : /\ Live(e) /\ inbox[e] = <<>>
                      /\ ~peer[e].making /\ peer[e].handling = Idle
                      /\ ~(rtc[e].signaling = "stable" /\ Needed(e))

\* Negotiation comes to an end in which both ends have agreed: whatever offers
\* crossed, each is stable, has described the tracks it sends, knows the other's
\* description and has used the candidate that belongs to it.  Nobody waits for
\* an answer that will not come (negotiate and applySignal, 85-137).
QuietIsSettled ==
    Quiet => \A e \in End :
        /\ rtc[e].signaling = "stable"
        /\ rtc[e].local.tracks = rtc[e].tracks
        /\ rtc[e].remote = rtc[Other(e)].local
        /\ rtc[e].candidate = rtc[e].remote.ice

\* A peer whose other end is gone, or cannot be reached any more, is destroyed
\* in the end, whatever its one ICE restart met (recover, 149-176): the mesh
\* waits for that to free the place.
GivesUp == \A e \in End :
    <>[](~up \/ ~Live(Other(e))) => <>(~Live(e))

\* No peer stays between two states for ever: it is connected again and again,
\* or destroyed (the timers of 77-82, 155 and 175), even when a signal of its
\* ICE restart is lost.
NoLimbo == \A e \in End : []<>(~Live(e) \/ rtc[e].conn = "connected")
=============================================================================
