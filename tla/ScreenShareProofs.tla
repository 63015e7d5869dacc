-------------------------- MODULE ScreenShareProofs --------------------------
(* Proofs about modules Peer and ScreenShare: the values of their variables,  *)
(* that no screen capture is left behind, and that negotiation ends in       *)
(* agreement.                                                                *)
EXTENDS ScreenShare, SequenceTheorems, TLAPS

-----------------------------------------------------------------------------
(* One end of the connection.                                               *)

Offers == [type: {"offer", "answer"}, description: Description]
Candidates == [type: {"candidate"}, ice: Nat \ {0}]
Signals == Offers \cup Candidates
Handlings == {Idle, [step |-> "answer"]} \cup [step: {"remote"}, signal: Offers]

Peers == [making: BOOLEAN, ignore: BOOLEAN, handling: Handlings,
          pending: SUBSET Nat, restarted: BOOLEAN, connected: BOOLEAN,
          destroyed: BOOLEAN, connectTimer: BOOLEAN, recoverTimer: BOOLEAN]
Connections ==
    [signaling: {"stable", "have-local-offer", "have-remote-offer"},
     conn: {"new", "connecting", "connected", "disconnected", "failed"},
     open: BOOLEAN, tracks: SUBSET Track, local: Description,
     offer: Description, remote: Description, candidate: Nat, ice: Nat,
     fresh: BOOLEAN, retry: BOOLEAN]

(* The inductive invariant.  An offer is made in a stable state only, which  *)
(* is why the answer of the flags' first line is the one it is about.        *)
EndOK(p, c) ==
    /\ p \in Peers /\ c \in Connections
    /\ p.handling.step = "answer" <=> c.signaling = "have-remote-offer"
    /\ p.making => c.signaling = "stable"
    /\ p.connectTimer <=> ~p.connected /\ ~p.destroyed

PInv ==
    /\ peer \in [End -> Peers] /\ rtc \in [End -> Connections]
    /\ \A e \in End : EndOK(peer[e], rtc[e])
    /\ inbox \in [End -> Seq(Signals)]
    /\ up \in BOOLEAN /\ outages \in 0..MaxOutages /\ lost \in BOOLEAN

LEMMA StepOfHandling ==
    ASSUME NEW h \in Handlings
    PROVE  /\ h.step \in {"idle", "remote", "answer"}
           /\ h.step = "idle" <=> h = Idle
           /\ h.step = "remote" <=> h \in [step: {"remote"}, signal: Offers]
           /\ h.step = "remote" => h.signal \in Offers
BY DEF Handlings, Idle

LEMMA NewEnd ==
    /\ NewPeer \in Peers /\ NewConnection \in Connections
    /\ EndOK(NewPeer, NewConnection)
    /\ \A p \in Peers : /\ Destroyed(p) \in Peers
                        /\ EndOK(Destroyed(p), NewConnection)
                        /\ Destroyed(p).destroyed
<1>1. NoDescription \in Description
  BY DEF NoDescription, Description
<1>2. NewPeer \in Peers /\ NewConnection \in Connections
  BY <1>1 DEF NewPeer, NewConnection, Peers, Connections, Handlings
<1>3. EndOK(NewPeer, NewConnection)
  BY <1>2 DEF EndOK, NewPeer, NewConnection, Idle
<1>4. ASSUME NEW p \in Peers
      PROVE  /\ Destroyed(p) \in Peers /\ EndOK(Destroyed(p), NewConnection)
             /\ Destroyed(p).destroyed
  <2>1. Destroyed(p) \in Peers /\ Destroyed(p).destroyed
    BY <1>2, <1>4 DEF Destroyed, NewPeer, Peers
  <2> QED BY <1>2, <2>1 DEF EndOK, Destroyed, NewPeer, NewConnection, Idle
<1> QED BY <1>2, <1>3, <1>4

\* A step that changes end e alone.
LEMMA OneEnd ==
    ASSUME PInv, NEW e \in End, NEW p, NEW c, EndOK(p, c),
           peer' = [peer EXCEPT ![e] = p], rtc' = [rtc EXCEPT ![e] = c],
           inbox' \in [End -> Seq(Signals)],
           up' \in BOOLEAN, outages' \in 0..MaxOutages, lost' \in BOOLEAN
    PROVE  PInv'
<1>1. p \in Peers /\ c \in Connections
  BY DEF EndOK
<1>2. peer' \in [End -> Peers] /\ rtc' \in [End -> Connections]
  BY <1>1 DEF PInv
<1>3. ASSUME NEW d \in End PROVE EndOK(peer'[d], rtc'[d])
  BY DEF PInv
<1> QED BY <1>2, <1>3 DEF PInv

LEMMA SignalsArrive ==
    ASSUME PInv, NEW e \in End, NEW s \in Seq(Signals), Signal(e, s)
    PROVE  inbox' \in [End -> Seq(Signals)]
<1>1. Other(e) \in End
  BY DEF Other, End
<1> QED BY <1>1, ConcatProperties DEF Signal, PInv

LEMMA TakesSignal ==
    ASSUME PInv, NEW e \in End, inbox[e] # <<>>
    PROVE  /\ Head(inbox[e]) \in Signals
           /\ [inbox EXCEPT ![e] = Tail(@)] \in [End -> Seq(Signals)]
<1>1. inbox[e] \in Seq(Signals)
  BY DEF PInv
<1> QED BY <1>1, HeadTailProperties DEF PInv

LEMMA SetLocalOK ==
    ASSUME PInv, NEW e \in End, NEW type \in {"offer", "answer"},
           NEW tracks \in SUBSET Track, SetLocal(e, type, tracks)
    PROVE  /\ inbox' \in [End -> Seq(Signals)]
           /\ \E c \in Connections :
                /\ rtc' = [rtc EXCEPT ![e] = c]
                /\ c.signaling = IF type = "offer" THEN "have-local-offer"
                                 ELSE "stable"
<1> DEFINE k == rtc[e]
           ice == IF k.fresh THEN k.ice + 1 ELSE k.ice
           d == [tracks |-> tracks, ice |-> ice]
           n == [k EXCEPT !.ice = ice, !.fresh = FALSE]
           c == IF type = "offer"
                THEN [n EXCEPT !.signaling = "have-local-offer", !.offer = d]
                ELSE [n EXCEPT !.signaling = "stable", !.local = d]
<1>1. k \in Connections
  BY DEF PInv
<1>2. ice \in Nat
  BY <1>1 DEF Connections
<1>3. d \in Description
  BY <1>2 DEF Description
<1>4. n \in Connections
  BY <1>1, <1>2 DEF Connections
<1>5. c \in Connections /\ c.signaling = IF type = "offer"
                                         THEN "have-local-offer" ELSE "stable"
  <2> HIDE DEF ice, d, n
  <2>1. CASE type = "offer"
    BY <1>3, <1>4, <2>1 DEF Connections
  <2>2. CASE type = "answer"
    BY <1>3, <1>4, <2>2 DEF Connections
  <2> QED BY <2>1, <2>2
<1>6. rtc' = [rtc EXCEPT ![e] = c]
  BY DEF SetLocal
<1>7. Signal(e, <<[type |-> type, description |-> d]>> \o
                IF k.fresh THEN <<[type |-> "candidate", ice |-> ice]>> ELSE <<>>)
  BY DEF SetLocal
<1>8. /\ [type |-> type, description |-> d] \in Signals
      /\ k.fresh => [type |-> "candidate", ice |-> ice] \in Signals
  <2>1. k.fresh => ice \in Nat \ {0}
    BY <1>1 DEF Connections
  <2> HIDE DEF k, ice, d, n, c
  <2> QED BY <1>3, <2>1 DEF Signals, Offers, Candidates
<1> HIDE DEF k, ice, d, n, c
<1>9. <<[type |-> type, description |-> d]>> \o
         (IF k.fresh THEN <<[type |-> "candidate", ice |-> ice]>> ELSE <<>>)
      \in Seq(Signals)
  BY <1>8, ConcatProperties
<1> QED BY <1>5, <1>6, <1>7, <1>9, SignalsArrive

LEMMA CheckedOK ==
    ASSUME NEW p, NEW c, EndOK(p, c), ~p.destroyed
    PROVE  EndOK(Checked(p, c), c)
<1>1. p \in Peers
  BY DEF EndOK
<1>2. CASE Checked(p, c) = p
  BY <1>2
<1>3. CASE /\ Checked(p, c) = [p EXCEPT !.connected = TRUE, !.restarted = FALSE,
                                       !.connectTimer = FALSE]
  <2> DEFINE q == [p EXCEPT !.connected = TRUE, !.restarted = FALSE,
                            !.connectTimer = FALSE]
  <2>1. /\ q \in Peers /\ q.handling = p.handling /\ q.making = p.making
        /\ q.connected = TRUE /\ q.connectTimer = FALSE
    BY <1>1 DEF Peers
  <2> HIDE DEF q
  <2>2. EndOK(q, c)
    BY <2>1 DEF EndOK
  <2> QED BY <1>3, <2>2 DEF q
<1> QED BY <1>2, <1>3 DEF Checked

LEMMA DestroyOK ==
    ASSUME PInv, NEW e \in End, Destroy(e)
    PROVE  PInv'
<1>1. peer[e] \in Peers /\ EndOK(Destroyed(peer[e]), NewConnection)
  BY NewEnd DEF PInv
<1>2. inbox' \in [End -> Seq(Signals)]
  BY DEF Destroy, PInv
<1> QED BY <1>1, <1>2, OneEnd DEF Destroy, PInv, network

\* OneEnd for a step that sends nothing.
LEMMA OneEndQuietly ==
    ASSUME PInv, NEW e \in End, NEW p, NEW c, EndOK(p, c),
           peer' = [peer EXCEPT ![e] = p], rtc' = [rtc EXCEPT ![e] = c],
           UNCHANGED <<inbox, network>>
    PROVE  PInv'
<1>1. /\ inbox' \in [End -> Seq(Signals)] /\ up' \in BOOLEAN
      /\ outages' \in 0..MaxOutages /\ lost' \in BOOLEAN
  BY DEF PInv, network
<1> QED BY <1>1, OneEnd

-----------------------------------------------------------------------------
(* The actions of an end.                                                   *)

LEMMA NegotiateOK ==
    ASSUME PInv, NEW e \in End, Negotiate(e) PROVE PInv'
<1> DEFINE p == [peer[e] EXCEPT !.making = TRUE]
<1>1. EndOK(peer[e], rtc[e]) /\ rtc[e].signaling = "stable"
  BY DEF PInv, Negotiate
<1>2. /\ p \in Peers /\ p.handling = peer[e].handling
      /\ p.connectTimer = peer[e].connectTimer
      /\ p.connected = peer[e].connected /\ p.destroyed = peer[e].destroyed
  BY <1>1 DEF EndOK, Peers
<1>3. peer' = [peer EXCEPT ![e] = p] /\ rtc' = [rtc EXCEPT ![e] = rtc[e]]
  BY DEF Negotiate, PInv
<1>4. UNCHANGED <<inbox, network>>
  BY DEF Negotiate
<1> HIDE DEF p
<1>5. EndOK(p, rtc[e])
  BY <1>1, <1>2 DEF EndOK
<1> QED BY <1>3, <1>4, <1>5, OneEndQuietly

LEMMA OfferMadeOK ==
    ASSUME PInv, NEW e \in End, OfferMade(e) PROVE PInv'
<1> DEFINE p == [peer[e] EXCEPT !.making = FALSE]
<1>1. EndOK(peer[e], rtc[e]) /\ peer[e].making
  BY DEF PInv, OfferMade
<1>2. /\ p \in Peers /\ p.handling = peer[e].handling /\ ~p.making
      /\ p.connectTimer = peer[e].connectTimer
      /\ p.connected = peer[e].connected /\ p.destroyed = peer[e].destroyed
  BY <1>1 DEF EndOK, Peers
<1>3. peer' = [peer EXCEPT ![e] = p] /\ UNCHANGED network
  BY DEF OfferMade
<1>4. rtc[e].tracks \in SUBSET Track
  BY <1>1 DEF EndOK, Connections
<1>5. SetLocal(e, "offer", rtc[e].tracks)
  BY DEF OfferMade
<1>6. PICK c \in Connections : /\ rtc' = [rtc EXCEPT ![e] = c]
                               /\ c.signaling = "have-local-offer"
  BY <1>4, <1>5, SetLocalOK
<1>7. inbox' \in [End -> Seq(Signals)]
  BY <1>4, <1>5, SetLocalOK
<1> HIDE DEF p
<1>8. EndOK(p, c)
  BY <1>1, <1>2, <1>6 DEF EndOK
<1>9. up' \in BOOLEAN /\ outages' \in 0..MaxOutages /\ lost' \in BOOLEAN
  BY <1>3 DEF PInv, network
<1> QED BY <1>3, <1>6, <1>7, <1>8, <1>9, OneEnd

LEMMA AnswerMadeOK ==
    ASSUME PInv, NEW e \in End, AnswerMade(e) PROVE PInv'
<1> DEFINE p == [peer[e] EXCEPT !.handling = Idle]
<1>1. EndOK(peer[e], rtc[e])
  BY DEF PInv
<1>2. /\ p \in Peers /\ p.handling.step = "idle"
      /\ p.connectTimer = peer[e].connectTimer
      /\ p.connected = peer[e].connected /\ p.destroyed = peer[e].destroyed
  BY <1>1 DEF EndOK, Peers, Handlings, Idle
<1>3. peer' = [peer EXCEPT ![e] = p] /\ UNCHANGED network
  BY DEF AnswerMade
<1>4. PICK tracks \in {rtc[e].tracks, rtc[e].local.tracks} :
        SetLocal(e, "answer", tracks)
  BY DEF AnswerMade
<1>5. tracks \in SUBSET Track
  BY <1>1 DEF EndOK, Connections, Description
<1>6. PICK c \in Connections : /\ rtc' = [rtc EXCEPT ![e] = c]
                               /\ c.signaling = "stable"
  BY <1>4, <1>5, SetLocalOK
<1>7. inbox' \in [End -> Seq(Signals)]
  BY <1>4, <1>5, SetLocalOK
<1> HIDE DEF p
<1>8. EndOK(p, c)
  BY <1>1, <1>2, <1>6 DEF EndOK
<1>9. up' \in BOOLEAN /\ outages' \in 0..MaxOutages /\ lost' \in BOOLEAN
  BY <1>3 DEF PInv, network
<1> QED BY <1>3, <1>6, <1>7, <1>8, <1>9, OneEnd

LEMMA ReceiveDescriptionOK ==
    ASSUME PInv, NEW e \in End, ReceiveDescription(e) PROVE PInv'
<1> DEFINE m == Head(inbox[e])
           ignored == IgnoresOffer(e, m.type)
           h == IF ignored THEN peer[e].handling
                ELSE [step |-> "remote", signal |-> m]
           p == [peer[e] EXCEPT !.ignore = ignored, !.handling = h]
<1>1. EndOK(peer[e], rtc[e]) /\ peer[e].handling = Idle
  BY DEF PInv, ReceiveDescription
<1>2. m \in Signals /\ m.type # "candidate"
  BY TakesSignal DEF ReceiveDescription
<1>3. m \in Offers
  BY <1>2 DEF Signals, Candidates
<1>4. h \in Handlings /\ h.step \in {"idle", "remote"}
  BY <1>1, <1>3 DEF Handlings, Idle
<1>5. ignored \in BOOLEAN
  BY DEF IgnoresOffer
<1>6. peer' = [peer EXCEPT ![e] = p]
  BY DEF ReceiveDescription
<1>7. /\ rtc' = [rtc EXCEPT ![e] = rtc[e]]
      /\ inbox' \in [End -> Seq(Signals)]
  BY TakesSignal DEF ReceiveDescription, PInv
<1> HIDE DEF m, ignored, h
<1>8. /\ p \in Peers /\ p.handling = h /\ p.making = peer[e].making
      /\ p.connectTimer = peer[e].connectTimer
      /\ p.connected = peer[e].connected /\ p.destroyed = peer[e].destroyed
  BY <1>1, <1>4, <1>5 DEF EndOK, Peers
<1> HIDE DEF p
<1>9. EndOK(p, rtc[e])
  BY <1>1, <1>4, <1>8 DEF EndOK, Idle
<1>10. up' \in BOOLEAN /\ outages' \in 0..MaxOutages /\ lost' \in BOOLEAN
  BY DEF ReceiveDescription, PInv, network
<1> QED BY <1>6, <1>7, <1>9, <1>10, OneEnd

LEMMA ReceiveCandidateOK ==
    ASSUME PInv, NEW e \in End, ReceiveCandidate(e) PROVE PInv'
<1> DEFINE m == Head(inbox[e])
           p == [peer[e] EXCEPT !.pending = @ \cup {m.ice}]
           c == [rtc[e] EXCEPT !.candidate =
                    IF m.ice = rtc[e].remote.ice THEN m.ice ELSE @]
<1>1. EndOK(peer[e], rtc[e])
  BY DEF PInv
<1>2. m \in Signals /\ m.type = "candidate"
  BY TakesSignal DEF ReceiveCandidate
<1>3. m.ice \in Nat
  BY <1>2 DEF Signals, Candidates, Offers
<1>4. inbox' \in [End -> Seq(Signals)]
  BY TakesSignal DEF ReceiveCandidate
<1>5. up' \in BOOLEAN /\ outages' \in 0..MaxOutages /\ lost' \in BOOLEAN
  BY DEF ReceiveCandidate, PInv, network
<1>6. CASE peer' = [peer EXCEPT ![e] = p] /\ rtc' = rtc
  <2>1. rtc' = [rtc EXCEPT ![e] = rtc[e]]
    BY <1>6 DEF PInv
  <2> HIDE DEF m
  <2>2. /\ p \in Peers /\ p.handling = peer[e].handling
        /\ p.making = peer[e].making /\ p.connectTimer = peer[e].connectTimer
        /\ p.connected = peer[e].connected /\ p.destroyed = peer[e].destroyed
    BY <1>1, <1>3 DEF EndOK, Peers
  <2> HIDE DEF p
  <2>3. EndOK(p, rtc[e])
    BY <1>1, <2>2 DEF EndOK
  <2> QED BY <1>4, <1>5, <1>6, <2>1, <2>3, OneEnd
<1>7. CASE rtc' = [rtc EXCEPT ![e] = c] /\ peer' = peer
  <2>1. peer' = [peer EXCEPT ![e] = peer[e]]
    BY <1>7 DEF PInv
  <2> HIDE DEF m
  <2>2. c \in Connections /\ c.signaling = rtc[e].signaling
    BY <1>1, <1>3 DEF EndOK, Connections
  <2> HIDE DEF c
  <2>3. EndOK(peer[e], c)
    BY <1>1, <2>2 DEF EndOK
  <2> QED BY <1>4, <1>5, <1>7, <2>1, <2>3, OneEnd
<1>8. \/ peer' = [peer EXCEPT ![e] = p] /\ rtc' = rtc
      \/ rtc' = [rtc EXCEPT ![e] = c] /\ peer' = peer
  BY DEF ReceiveCandidate
<1> QED BY <1>6, <1>7, <1>8

LEMMA RemoteSetOK ==
    ASSUME PInv, NEW e \in End, RemoteSet(e) PROVE PInv'
<1> DEFINE m == peer[e].handling.signal
           d == m.description
           c == rtc[e]
           n == [c EXCEPT !.remote = d,
                    !.candidate = IF d.ice \in peer[e].pending THEN d.ice ELSE @,
                    !.retry = d.ice # c.remote.ice]
           rolledBack == c.signaling = "have-local-offer" /\ c.offer.ice # c.local.ice
           restart == c.remote # NoDescription /\ d.ice # c.remote.ice
           c1 == [n EXCEPT !.signaling = "have-remote-offer",
                           !.fresh = @ \/ rolledBack \/ restart]
           c2 == [n EXCEPT !.signaling = "stable", !.local = c.offer]
           p1 == [peer[e] EXCEPT !.pending = {}, !.handling = [step |-> "answer"]]
           p2 == [peer[e] EXCEPT !.pending = {}, !.handling = Idle]
           p3 == [peer[e] EXCEPT !.handling = Idle]
<1>1. EndOK(peer[e], c) /\ peer[e].handling.step = "remote" /\ ~peer[e].making
  BY DEF PInv, RemoteSet
<1>2. m \in Offers
  BY <1>1, StepOfHandling DEF EndOK, Peers
<1>3. d \in Description /\ d.ice \in Nat
  BY <1>2 DEF Offers, Description
<1>4. UNCHANGED <<inbox, network>>
  BY DEF RemoteSet
<1>5. \/ peer' = [peer EXCEPT ![e] = p1] /\ rtc' = [rtc EXCEPT ![e] = c1]
      \/ /\ peer' = [peer EXCEPT ![e] = p2] /\ rtc' = [rtc EXCEPT ![e] = c2]
         /\ c.signaling = "have-local-offer"
      \/ peer' = [peer EXCEPT ![e] = p3] /\ rtc' = rtc
  BY DEF RemoteSet
<1>6. restart \in BOOLEAN /\ rolledBack \in BOOLEAN
  OBVIOUS
<1> HIDE DEF m, d, rolledBack, restart
<1>7. n \in Connections
  BY <1>1, <1>3 DEF EndOK, Connections
<1>8. /\ p1 \in Peers /\ p1.handling.step = "answer" /\ ~p1.making
      /\ p1.connectTimer = peer[e].connectTimer
      /\ p1.connected = peer[e].connected /\ p1.destroyed = peer[e].destroyed
  BY <1>1 DEF EndOK, Peers, Handlings
<1>9. /\ p2 \in Peers /\ p2.handling.step = "idle" /\ ~p2.making
      /\ p2.connectTimer = peer[e].connectTimer
      /\ p2.connected = peer[e].connected /\ p2.destroyed = peer[e].destroyed
  BY <1>1 DEF EndOK, Peers, Handlings, Idle
<1>10. /\ p3 \in Peers /\ p3.handling.step = "idle" /\ ~p3.making
       /\ p3.connectTimer = peer[e].connectTimer
       /\ p3.connected = peer[e].connected /\ p3.destroyed = peer[e].destroyed
  BY <1>1 DEF EndOK, Peers, Handlings, Idle
<1> HIDE DEF n, p1, p2, p3
<1>11. c1 \in Connections /\ c1.signaling = "have-remote-offer"
  BY <1>6, <1>7 DEF Connections
<1>12. c.offer \in Description
  BY <1>1 DEF EndOK, Connections
<1>13. c2 \in Connections /\ c2.signaling = "stable"
  BY <1>7, <1>12 DEF Connections
<1> HIDE DEF c1, c2
<1>14. EndOK(p1, c1)
  BY <1>1, <1>8, <1>11 DEF EndOK
<1>15. EndOK(p2, c2)
  BY <1>1, <1>9, <1>13 DEF EndOK
<1>16. EndOK(p3, c)
  BY <1>1, <1>10 DEF EndOK
<1>17. rtc = [rtc EXCEPT ![e] = c]
  BY DEF PInv
<1> QED BY <1>4, <1>5, <1>14, <1>15, <1>16, <1>17, OneEndQuietly

-----------------------------------------------------------------------------
(* The connection and the network.                                          *)

LEMMA ChannelOpensOK ==
    ASSUME PInv, NEW e \in End, ChannelOpens(e) PROVE PInv'
<1> DEFINE c == [rtc[e] EXCEPT !.open = TRUE]
<1>1. EndOK(peer[e], rtc[e]) /\ ~peer[e].destroyed
  BY DEF PInv, ChannelOpens, Live
<1>2. c \in Connections /\ c.signaling = rtc[e].signaling
  BY <1>1 DEF EndOK, Connections
<1>3. rtc' = [rtc EXCEPT ![e] = c] /\ UNCHANGED <<inbox, network>>
  BY DEF ChannelOpens
<1>4. rtc'[e] = c
  BY <1>3 DEF PInv
<1>5. peer' = [peer EXCEPT ![e] = Checked(peer[e], c)]
  BY <1>4 DEF ChannelOpens
<1> HIDE DEF c
<1>6. EndOK(peer[e], c)
  BY <1>1, <1>2 DEF EndOK
<1>7. EndOK(Checked(peer[e], c), c)
  BY <1>1, <1>6, CheckedOK
<1> QED BY <1>3, <1>5, <1>7, OneEndQuietly

LEMMA ConnectionStateOtherOK ==
    ASSUME PInv, NEW e \in End,
           NEW to \in {"connecting", "connected", "disconnected"},
           ConnectionStateOther(e, to)
    PROVE  PInv'
<1> DEFINE c == [rtc[e] EXCEPT !.conn = to, !.retry = @ /\ to # "connecting"]
           p == [peer[e] EXCEPT !.recoverTimer = to = "disconnected"]
<1>1. EndOK(peer[e], rtc[e]) /\ ~peer[e].destroyed
  BY DEF PInv, ConnectionStateOther, Live
<1>2. c \in Connections /\ c.signaling = rtc[e].signaling
  BY <1>1 DEF EndOK, Connections
<1>3. /\ p \in Peers /\ p.handling = peer[e].handling
      /\ p.making = peer[e].making /\ p.connectTimer = peer[e].connectTimer
      /\ p.connected = peer[e].connected /\ p.destroyed = peer[e].destroyed
  BY <1>1 DEF EndOK, Peers
<1>4. /\ rtc' = [rtc EXCEPT ![e] = c] /\ UNCHANGED <<inbox, network>>
      /\ peer' = [peer EXCEPT ![e] = Checked(p, c)]
  BY DEF ConnectionStateOther
<1> HIDE DEF c, p
<1>5. EndOK(p, c) /\ ~p.destroyed
  BY <1>1, <1>2, <1>3 DEF EndOK
<1>6. EndOK(Checked(p, c), c)
  BY <1>5, CheckedOK
<1> QED BY <1>4, <1>6, OneEndQuietly

LEMMA RecoverOK ==
    ASSUME PInv, NEW e \in End, NEW c \in Connections, Recover(e, c),
           c.signaling = rtc[e].signaling
    PROVE  PInv'
<1>1. CASE peer[e].restarted
  BY <1>1, DestroyOK DEF Recover
<1>2. CASE ~peer[e].restarted
  <2> DEFINE p == [peer[e] EXCEPT !.restarted = TRUE, !.recoverTimer = TRUE]
             k == [c EXCEPT !.fresh = TRUE]
  <2>1. EndOK(peer[e], rtc[e])
    BY DEF PInv
  <2>2. /\ p \in Peers /\ p.handling = peer[e].handling
        /\ p.making = peer[e].making /\ p.connectTimer = peer[e].connectTimer
        /\ p.connected = peer[e].connected /\ p.destroyed = peer[e].destroyed
    BY <2>1 DEF EndOK, Peers
  <2>3. k \in Connections /\ k.signaling = c.signaling
    BY DEF Connections
  <2>4. /\ peer' = [peer EXCEPT ![e] = p] /\ rtc' = [rtc EXCEPT ![e] = k]
        /\ UNCHANGED <<inbox, network>>
    BY <1>2 DEF Recover
  <2> HIDE DEF p, k
  <2>5. EndOK(p, k)
    BY <2>1, <2>2, <2>3 DEF EndOK
  <2> QED BY <2>4, <2>5, OneEndQuietly
<1> QED BY <1>1, <1>2

LEMMA ConnectionFailedOK ==
    ASSUME PInv, NEW e \in End, ConnectionFailed(e) PROVE PInv'
<1> DEFINE c == [rtc[e] EXCEPT !.conn = "failed"]
<1>1. c \in Connections /\ c.signaling = rtc[e].signaling
  BY DEF PInv, Connections
<1>2. Recover(e, c)
  BY DEF ConnectionFailed
<1> HIDE DEF c
<1> QED BY <1>1, <1>2, RecoverOK

LEMMA RecoverTimeoutOK ==
    ASSUME PInv, NEW e \in End, RecoverTimeout(e) PROVE PInv'
<1>1. CASE rtc[e].conn = "connected"
  <2> DEFINE p == [peer[e] EXCEPT !.recoverTimer = FALSE]
  <2>1. EndOK(peer[e], rtc[e])
    BY DEF PInv
  <2>2. /\ p \in Peers /\ p.handling = peer[e].handling
        /\ p.making = peer[e].making /\ p.connectTimer = peer[e].connectTimer
        /\ p.connected = peer[e].connected /\ p.destroyed = peer[e].destroyed
    BY <2>1 DEF EndOK, Peers
  <2>3. /\ peer' = [peer EXCEPT ![e] = p] /\ rtc' = [rtc EXCEPT ![e] = rtc[e]]
        /\ UNCHANGED <<inbox, network>>
    BY <1>1 DEF RecoverTimeout, PInv
  <2> HIDE DEF p
  <2>4. EndOK(p, rtc[e])
    BY <2>1, <2>2 DEF EndOK
  <2> QED BY <2>3, <2>4, OneEndQuietly
<1>2. CASE rtc[e].conn # "connected"
  <2>1. Recover(e, rtc[e]) /\ rtc[e] \in Connections
    BY <1>2 DEF RecoverTimeout, PInv
  <2> QED BY <2>1, RecoverOK
<1> QED BY <1>1, <1>2

LEMMA NetworkOK ==
    ASSUME PInv, PeerAssumption
    PROVE  /\ \A e \in End : LoseSignal(e) => PInv'
           /\ GoesDown \/ ComesBack => PInv'
<1>1. ASSUME NEW e \in End, LoseSignal(e) PROVE PInv'
  <2>1. inbox' \in [End -> Seq(Signals)]
    BY <1>1, TakesSignal DEF LoseSignal
  <2>2. /\ UNCHANGED <<peer, rtc, up, outages>> /\ lost' \in BOOLEAN
    BY <1>1 DEF LoseSignal
  <2> QED BY <2>1, <2>2 DEF PInv
<1>2. CASE GoesDown
  <2>1. outages' \in 0..MaxOutages
    BY <1>2, PeerAssumption DEF GoesDown, PInv
  <2> QED BY <1>2, <2>1 DEF GoesDown, PInv
<1>3. CASE ComesBack
  BY <1>3 DEF ComesBack, PInv
<1> QED BY <1>1, <1>2, <1>3

LEMMA TracksOK ==
    ASSUME PInv, NEW e \in End, NEW t \in Track,
           AddTrack(e, t) \/ RemoveTrack(e, t)
    PROVE  PInv'
<1>1. EndOK(peer[e], rtc[e])
  BY DEF PInv
<1>2. ASSUME NEW tracks \in SUBSET Track,
             rtc' = [rtc EXCEPT ![e].tracks = tracks],
             UNCHANGED <<peer, inbox, network>>
      PROVE  PInv'
  <2> DEFINE c == [rtc[e] EXCEPT !.tracks = tracks]
  <2>1. c \in Connections /\ c.signaling = rtc[e].signaling
    BY <1>1 DEF EndOK, Connections
  <2>2. /\ rtc' = [rtc EXCEPT ![e] = c] /\ peer' = [peer EXCEPT ![e] = peer[e]]
    BY <1>2 DEF PInv
  <2> HIDE DEF c
  <2>3. EndOK(peer[e], c)
    BY <1>1, <2>1 DEF EndOK
  <2> QED BY <1>2, <2>2, <2>3, OneEndQuietly
<1>3. rtc[e].tracks \cup {t} \in SUBSET Track /\ rtc[e].tracks \ {t} \in SUBSET Track
  BY <1>1 DEF EndOK, Connections
<1>4. CASE AddTrack(e, t)
  BY <1>2, <1>3, <1>4 DEF AddTrack
<1>5. CASE RemoveTrack(e, t)
  BY <1>2, <1>3, <1>5 DEF RemoveTrack
<1> QED BY <1>4, <1>5

LEMMA PeerStep ==
    ASSUME PInv, Next PROVE PInv'
<1>1. ASSUME NEW e \in End, Handle(e) PROVE PInv'
  BY <1>1, OfferMadeOK, ReceiveDescriptionOK, ReceiveCandidateOK, RemoteSetOK,
     AnswerMadeOK DEF Handle
<1>2. ASSUME NEW e \in End, Close(e) \/ ConnectTimeout(e) PROVE PInv'
  BY <1>2, DestroyOK DEF Close, ConnectTimeout
<1>3. ASSUME NEW e \in End, LoseSignal(e) PROVE PInv'
  BY <1>3, NetworkOK, PeerAssumption
<1>4. CASE GoesDown \/ ComesBack
  BY <1>4, NetworkOK, PeerAssumption
<1>5. ASSUME NEW e \in End, NEW to \in {"connecting", "connected", "disconnected"},
             ConnectionStateOther(e, to)
      PROVE  PInv'
  BY <1>5, ConnectionStateOtherOK
<1> QED
  BY <1>1, <1>2, <1>3, <1>4, <1>5, NegotiateOK, ChannelOpensOK,
     ConnectionFailedOK, RecoverTimeoutOK DEF Next

LEMMA PeerInit == Init => PInv
<1> SUFFICES ASSUME Init PROVE PInv
  OBVIOUS
<1>1. peer \in [End -> Peers] /\ rtc \in [End -> Connections]
  BY NewEnd DEF Init
<1>2. \A e \in End : EndOK(peer[e], rtc[e])
  BY NewEnd DEF Init
<1>3. <<>> \in Seq(Signals)
  OBVIOUS
<1>4. inbox \in [End -> Seq(Signals)]
  BY <1>3 DEF Init
<1>5. outages \in 0..MaxOutages
  BY PeerAssumption DEF Init
<1> QED BY <1>1, <1>2, <1>4, <1>5 DEF Init, PInv

LEMMA PeerTypes == PInv => TypeOK
<1> SUFFICES ASSUME PInv PROVE TypeOK
  OBVIOUS
<1>1. peer \in [End -> [making: BOOLEAN, ignore: BOOLEAN,
                        handling: {peer[e].handling : e \in End},
                        pending: SUBSET Nat, restarted: BOOLEAN,
                        connected: BOOLEAN, destroyed: BOOLEAN,
                        connectTimer: BOOLEAN, recoverTimer: BOOLEAN]]
  <2> DEFINE H == {peer[e].handling : e \in End}
  <2>1. ASSUME NEW e \in End
        PROVE  peer[e] \in [making: BOOLEAN, ignore: BOOLEAN, handling: H,
                            pending: SUBSET Nat, restarted: BOOLEAN,
                            connected: BOOLEAN, destroyed: BOOLEAN,
                            connectTimer: BOOLEAN, recoverTimer: BOOLEAN]
    <3>1. peer[e].handling \in H
      OBVIOUS
    <3>2. peer[e] \in Peers
      BY DEF PInv
    <3> HIDE DEF H
    <3> QED BY <3>1, <3>2 DEF Peers
  <2> HIDE DEF H
  <2>2. peer \in [End -> [making: BOOLEAN, ignore: BOOLEAN, handling: H,
                          pending: SUBSET Nat, restarted: BOOLEAN,
                          connected: BOOLEAN, destroyed: BOOLEAN,
                          connectTimer: BOOLEAN, recoverTimer: BOOLEAN]]
    BY <2>1 DEF PInv
  <2> QED BY <2>2 DEF H
<1>2. ASSUME NEW m \in Signals PROVE SignalOK(m)
  BY <1>2 DEF SignalOK, Signals, Offers, Candidates
<1>3. ASSUME NEW e \in End
      PROVE  /\ \A i \in DOMAIN inbox[e] : SignalOK(inbox[e][i])
             /\ peer[e].handling.step \in {"idle", "remote", "answer"}
             /\ peer[e].handling.step = "remote" => SignalOK(peer[e].handling.signal)
             /\ peer[e].handling.step = "answer"
                    <=> rtc[e].signaling = "have-remote-offer"
             /\ peer[e].connectTimer <=> ~peer[e].connected /\ Live(e)
  <2>1. inbox[e] \in Seq(Signals) /\ EndOK(peer[e], rtc[e])
    BY DEF PInv
  <2>2. \A i \in DOMAIN inbox[e] : SignalOK(inbox[e][i])
    BY <1>2, <2>1
  <2>3. peer[e].handling \in Handlings
    BY <2>1 DEF EndOK, Peers
  <2>4. peer[e].handling.step = "remote" => SignalOK(peer[e].handling.signal)
    BY <1>2, <2>3, StepOfHandling DEF Signals
  <2> QED BY <2>1, <2>2, <2>3, <2>4, StepOfHandling DEF EndOK, Live
<1>4. rtc \in [End -> [
          signaling: {"stable", "have-local-offer", "have-remote-offer"},
          conn: {"new", "connecting", "connected", "disconnected", "failed"},
          open: BOOLEAN, tracks: SUBSET Track, local: Description,
          offer: Description, remote: Description, candidate: Nat, ice: Nat,
          fresh: BOOLEAN, retry: BOOLEAN]]
  BY DEF PInv, Connections
<1> QED BY <1>1, <1>3, <1>4 DEF PInv, TypeOK

-----------------------------------------------------------------------------
(* The screens of an end.                                                   *)

Sessions == [ended: BOOLEAN, screen: Track \cup {NoTrack}, sharing: BOOLEAN,
             sender: SUBSET (Track \cup {Cam}), raced: BOOLEAN]
States == {"free", "asking", "replacing", "cut", "live", "dead", "restoring",
           "stopped"}
UnderWay == {"asking", "replacing", "cut", "live", "dead", "restoring"}
Captures == [Track -> States]

(* The inductive invariant of a session s and its captures k that no race    *)
(* met.  OrphansOnlyByRace follows from its last three lines; that one        *)
(* capture at a time is under way is what makes them inductive: the button    *)
(* is answered by looking at the screen alone, which a pending prompt or      *)
(* replacement does not show yet.                                            *)
ShareOf(s, k) ==
    /\ \A t, u \in Track : k[t] \in UnderWay /\ k[u] \in UnderWay => t = u
    /\ \A t \in Track : k[t] \in UnderWay \ {"asking"} => ~s.ended
    /\ \A t \in Track : k[t] \in {"live", "dead"} <=> s.screen = t
    /\ ~s.ended =>
          (s.sharing <=> \E t \in Track : k[t] \in {"live", "dead", "restoring"})

ShareOK(s, k) ==
    /\ s \in Sessions /\ k \in Captures
    /\ ~s.raced => ShareOf(s, k)

SInv ==
    /\ PInv
    /\ call \in [End -> Sessions] /\ capture \in [End -> Captures]
    /\ \A e \in End : ShareOK(call[e], capture[e])

\* A step that changes the session of end e alone.
LEMMA OneShare ==
    ASSUME SInv, PInv', NEW e \in End, NEW s, NEW k, ShareOK(s, k),
           call' = [call EXCEPT ![e] = s], capture' = [capture EXCEPT ![e] = k]
    PROVE  SInv'
<1>1. s \in Sessions /\ k \in Captures
  BY DEF ShareOK
<1>2. call' \in [End -> Sessions] /\ capture' \in [End -> Captures]
  BY <1>1 DEF SInv
<1>3. ASSUME NEW d \in End PROVE ShareOK(call'[d], capture'[d])
  BY DEF SInv
<1> QED BY <1>2, <1>3 DEF SInv

\* A step that leaves the connection alone.
LEMMA ConnectionSame == ASSUME PInv, UNCHANGED vars PROVE PInv'
BY DEF vars, network, PInv

LEMMA SetCaptureIs ==
    ASSUME SInv, NEW e \in End, NEW t \in Track, NEW x, SetCapture(e, t, x)
    PROVE  capture' = [capture EXCEPT ![e] = [capture[e] EXCEPT ![t] = x]]
BY DEF SetCapture, SInv

\* A capture that ends before the session shows it.
LEMMA CaptureDropped ==
    ASSUME NEW s, NEW k, ShareOK(s, k), NEW t \in Track,
           k[t] \in {"asking", "replacing", "cut"}
    PROVE  ShareOK(s, [k EXCEPT ![t] = "stopped"])
<1> DEFINE n == [k EXCEPT ![t] = "stopped"]
<1>1. /\ n \in Captures
      /\ \A u \in Track : n[u] = IF u = t THEN "stopped" ELSE k[u]
  BY DEF ShareOK, Captures, States
<1> HIDE DEF n
<1>2. ASSUME ~s.raced PROVE ShareOf(s, n)
  BY <1>1, <1>2 DEF ShareOK, ShareOf, UnderWay
<1>3. ShareOK(s, n)
  BY <1>1, <1>2 DEF ShareOK
<1> QED BY <1>3 DEF n

LEMMA ToggleOnOK ==
    ASSUME SInv, NEW e \in End, ToggleOn(e) PROVE SInv'
<1> DEFINE b == call[e].raced \/ Pending(e, {"asking", "replacing", "cut", "restoring"})
           s == [call[e] EXCEPT !.raced = b]
<1>1. ShareOK(call[e], capture[e]) /\ call[e] \in Sessions /\ PInv'
  BY ConnectionSame DEF SInv, ToggleOn, ShareOK
<1>2. PICK t \in Track : capture[e][t] = "free" /\ SetCapture(e, t, "asking")
  BY ScreenAssumption DEF ToggleOn
<1> DEFINE k == [capture[e] EXCEPT ![t] = "asking"]
<1>3. /\ k \in Captures
      /\ \A u \in Track : k[u] = IF u = t THEN "asking" ELSE capture[e][u]
  <2>1. capture[e] \in Captures
    BY <1>1 DEF ShareOK
  <2> QED BY <2>1 DEF Captures, States
<1>4. capture' = [capture EXCEPT ![e] = k] /\ call' = [call EXCEPT ![e] = s]
  BY <1>2, SetCaptureIs DEF ToggleOn
<1>5. b \in BOOLEAN
  BY <1>1 DEF Sessions, Pending
<1>6. b \/ \A u \in Track : capture[e][u] \notin {"asking", "replacing", "cut", "restoring"}
  BY DEF Pending
<1>7. ~b => ~call[e].raced
  OBVIOUS
<1>8. call[e].screen = NoTrack
  BY DEF ToggleOn
<1> HIDE DEF b, k
<1>9. /\ s \in Sessions /\ s.raced = b /\ s.ended = call[e].ended
      /\ s.screen = call[e].screen /\ s.sharing = call[e].sharing
  BY <1>1, <1>5 DEF Sessions
<1> HIDE DEF s
<1>10. ASSUME ~b PROVE ShareOf(s, k)
  <2>1. ShareOf(call[e], capture[e])
    BY <1>1, <1>7, <1>10 DEF ShareOK
  <2>2. \A u \in Track :
          capture[e][u] \notin UnderWay
    BY <1>6, <1>8, <1>10, <2>1, ScreenAssumption DEF ShareOf, UnderWay
  <2>3. \A u \in Track :
          k[u] \in UnderWay => u = t /\ k[u] = "asking"
    BY <1>3, <2>2
  <2>4. \A u \in Track : k[u] \notin UnderWay \ {"asking"}
    BY <2>3
  <2>5. ~call[e].ended => ~call[e].sharing
    BY <2>1, <2>2 DEF ShareOf, UnderWay
  <2> QED BY <1>8, <1>9, <2>3, <2>4, <2>5, ScreenAssumption DEF ShareOf, UnderWay
<1>11. ShareOK(s, k)
  BY <1>3, <1>9, <1>10 DEF ShareOK
<1> QED BY <1>1, <1>4, <1>11, OneShare

LEMMA DroppedOK ==
    ASSUME SInv, NEW e \in End, NEW t \in Track,
           capture[e][t] \in {"asking", "replacing", "cut"},
           SetCapture(e, t, "stopped"), UNCHANGED <<vars, call>>
    PROVE  SInv'
<1>1. PInv' /\ call' = [call EXCEPT ![e] = call[e]]
  BY ConnectionSame DEF SInv
<1>2. ShareOK(call[e], [capture[e] EXCEPT ![t] = "stopped"])
  BY CaptureDropped DEF SInv
<1>3. capture' = [capture EXCEPT ![e] = [capture[e] EXCEPT ![t] = "stopped"]]
  BY SetCaptureIs
<1> QED BY <1>1, <1>2, <1>3, OneShare

LEMMA PromptGrantedOK ==
    ASSUME SInv, NEW e \in End, NEW t \in Track, PromptGranted(e, t) PROVE SInv'
<1>1. ShareOK(call[e], capture[e]) /\ capture[e][t] = "asking"
  BY DEF SInv, PromptGranted
<1>2. CASE SetCapture(e, t, "stopped") /\ UNCHANGED <<vars, call>>
  BY <1>1, <1>2, DroppedOK
<1>3. CASE /\ HasPeer(e) /\ SetCapture(e, t, "replacing")
           /\ UNCHANGED <<vars, call>>
  <2> DEFINE s == call[e]
             k == [capture[e] EXCEPT ![t] = "replacing"]
  <2>1. /\ k \in Captures
        /\ \A u \in Track : k[u] = IF u = t THEN "replacing" ELSE capture[e][u]
    <3>1. capture[e] \in Captures
      BY <1>1 DEF ShareOK
    <3> QED BY <3>1 DEF Captures, States
  <2>2. /\ PInv' /\ call' = [call EXCEPT ![e] = s]
        /\ capture' = [capture EXCEPT ![e] = k] /\ ~s.ended
    BY <1>3, ConnectionSame, SetCaptureIs DEF SInv, HasPeer
  <2> HIDE DEF k
  <2>3. ASSUME ~s.raced PROVE ShareOf(s, k)
    BY <1>1, <2>1, <2>2, <2>3 DEF ShareOK, ShareOf, UnderWay
  <2>4. ShareOK(s, k)
    BY <1>1, <2>1, <2>3 DEF ShareOK
  <2> QED BY <2>2, <2>4, OneShare
<1>4. CASE /\ HasPeer(e) /\ SetCapture(e, t, "live")
           /\ call' = [call EXCEPT ![e].screen = t, ![e].sharing = TRUE]
           /\ AddTrack(e, t)
  <2> DEFINE s == [call[e] EXCEPT !.screen = t, !.sharing = TRUE]
             k == [capture[e] EXCEPT ![t] = "live"]
  <2>1. /\ k \in Captures
        /\ \A u \in Track : k[u] = IF u = t THEN "live" ELSE capture[e][u]
    <3>1. capture[e] \in Captures
      BY <1>1 DEF ShareOK
    <3> QED BY <3>1 DEF Captures, States
  <2>2. PInv'
    BY <1>4, TracksOK DEF SInv
  <2>3. call' = [call EXCEPT ![e] = s] /\ capture' = [capture EXCEPT ![e] = k]
    BY <1>4, SetCaptureIs
  <2>4. /\ s \in Sessions /\ s.raced = call[e].raced /\ s.ended = call[e].ended
        /\ s.screen = t /\ s.sharing = TRUE
    BY <1>1 DEF ShareOK, Sessions
  <2>5. ~s.ended
    BY <1>4, <2>4 DEF HasPeer
  <2> HIDE DEF s, k
  <2>6. ASSUME ~s.raced PROVE ShareOf(s, k)
    <3>1. ShareOf(call[e], capture[e])
      BY <1>1, <2>4, <2>6 DEF ShareOK
    <3>2. \A u \in Track :
            k[u] \in UnderWay => u = t
      BY <1>1, <2>1, <3>1 DEF ShareOf, UnderWay
    <3> QED BY <2>1, <2>4, <2>5, <3>2 DEF ShareOf, UnderWay
  <2>7. ShareOK(s, k)
    BY <2>1, <2>4, <2>6 DEF ShareOK
  <2> QED BY <2>2, <2>3, <2>7, OneShare
<1> QED BY <1>2, <1>3, <1>4 DEF PromptGranted

LEMMA ReplacedOK ==
    ASSUME SInv, NEW e \in End, NEW t \in Track, Replaced(e, t) PROVE SInv'
<1> DEFINE x == IF capture[e][t] = "cut" THEN "dead" ELSE "live"
           b == call[e].sharing \/ ~call[e].ended
           d == (call[e].sender \ {Cam}) \cup {t}
           s == [call[e] EXCEPT !.screen = t, !.sharing = b, !.sender = d]
           k == [capture[e] EXCEPT ![t] = x]
<1>1. /\ ShareOK(call[e], capture[e]) /\ PInv'
      /\ capture[e][t] \in {"replacing", "cut"}
  BY ConnectionSame DEF SInv, Replaced
<1>9. SetCapture(e, t, x) /\ x \in {"live", "dead"}
  BY DEF Replaced
<1> HIDE DEF x
<1>2. /\ k \in Captures
      /\ \A u \in Track : k[u] = IF u = t THEN x ELSE capture[e][u]
  <2>1. capture[e] \in Captures
    BY <1>1 DEF ShareOK
  <2> QED BY <1>9, <2>1 DEF Captures, States
<1>3. call' = [call EXCEPT ![e] = s] /\ capture' = [capture EXCEPT ![e] = k]
  BY <1>9, SetCaptureIs DEF Replaced
<1>4. b \in BOOLEAN /\ d \in SUBSET (Track \cup {Cam})
  BY <1>1 DEF ShareOK, Sessions
<1>5. ~call[e].ended => b
  OBVIOUS
<1> HIDE DEF b, d, k
<1>6. /\ s \in Sessions /\ s.raced = call[e].raced /\ s.ended = call[e].ended
      /\ s.screen = t /\ s.sharing = b
  BY <1>1, <1>4 DEF ShareOK, Sessions
<1> HIDE DEF s
<1>7. ASSUME ~s.raced PROVE ShareOf(s, k)
  <2>1. ShareOf(call[e], capture[e])
    BY <1>1, <1>6, <1>7 DEF ShareOK
  <2>2. \A u \in Track :
          k[u] \in UnderWay => u = t
    BY <1>1, <1>2, <2>1 DEF ShareOf, UnderWay
  <2>3. ~s.ended /\ s.sharing
    BY <1>1, <1>4, <1>5, <1>6, <2>1 DEF ShareOf, UnderWay
  <2> QED BY <1>2, <1>6, <1>9, <2>2, <2>3 DEF ShareOf, UnderWay
<1>8. ShareOK(s, k)
  BY <1>2, <1>6, <1>7 DEF ShareOK
<1> QED BY <1>1, <1>3, <1>8, OneShare

LEMMA RestoredOK ==
    ASSUME SInv, NEW e \in End, NEW t \in Track, Restored(e, t) PROVE SInv'
<1> DEFINE b == call[e].sharing /\ call[e].ended
           d == (call[e].sender \ {t}) \cup {Cam}
           s == [call[e] EXCEPT !.sharing = b, !.sender = d]
           k == [capture[e] EXCEPT ![t] = "stopped"]
<1>1. ShareOK(call[e], capture[e]) /\ capture[e][t] = "restoring" /\ PInv'
  BY ConnectionSame DEF SInv, Restored
<1>2. /\ k \in Captures
      /\ \A u \in Track : k[u] = IF u = t THEN "stopped" ELSE capture[e][u]
  <2>1. capture[e] \in Captures
    BY <1>1 DEF ShareOK
  <2> QED BY <2>1 DEF Captures, States
<1>3. call' = [call EXCEPT ![e] = s] /\ capture' = [capture EXCEPT ![e] = k]
  BY SetCaptureIs DEF Restored
<1>4. b \in BOOLEAN /\ d \in SUBSET (Track \cup {Cam})
  BY <1>1 DEF ShareOK, Sessions
<1>5. ~call[e].ended => ~b
  OBVIOUS
<1> HIDE DEF b, d, k
<1>6. /\ s \in Sessions /\ s.raced = call[e].raced /\ s.ended = call[e].ended
      /\ s.screen = call[e].screen /\ s.sharing = b
  BY <1>1, <1>4 DEF ShareOK, Sessions
<1> HIDE DEF s
<1>7. ASSUME ~s.raced PROVE ShareOf(s, k)
  <2>1. ShareOf(call[e], capture[e])
    BY <1>1, <1>6, <1>7 DEF ShareOK
  <2>2. \A u \in Track :
          k[u] \notin UnderWay
    BY <1>1, <1>2, <2>1 DEF ShareOf, UnderWay
  <2>3. \A u \in Track : s.screen # u
    BY <1>1, <1>2, <1>6, <2>1, <2>2 DEF ShareOf, UnderWay
  <2>4. ~s.ended => ~s.sharing
    BY <1>5, <1>6
  <2> QED BY <2>2, <2>3, <2>4 DEF ShareOf, UnderWay
<1>8. ShareOK(s, k)
  BY <1>2, <1>6, <1>7 DEF ShareOK
<1> QED BY <1>1, <1>3, <1>8, OneShare

\* stopScreenShare, of captures j of e in which a shown one may have ended.
LEMMA StopScreenOK ==
    ASSUME SInv, NEW e \in End, NEW j \in Captures,
           \A u \in Track : \/ j[u] = capture[e][u]
                            \/ j[u] = "stopped" /\ capture[e][u] = "live",
           StopScreen(e, [capture EXCEPT ![e] = j])
    PROVE  SInv'
<1> DEFINE t == call[e].screen
           cap == [capture EXCEPT ![e] = j]
<1>1. ShareOK(call[e], capture[e]) /\ call[e] \in Sessions
  BY DEF SInv, ShareOK
<1>2. ASSUME ~call[e].raced
      PROVE  /\ ShareOf(call[e], capture[e])
             /\ \A u \in Track : u # t => j[u] = capture[e][u]
  <2>1. ShareOf(call[e], capture[e])
    BY <1>1, <1>2 DEF ShareOK
  <2> QED BY <2>1 DEF ShareOf, UnderWay
<1>3. CASE t = NoTrack
  <2>1. /\ call' = [call EXCEPT ![e] = call[e]] /\ PInv'
        /\ capture' = [capture EXCEPT ![e] = j]
    BY <1>3, ConnectionSame DEF StopScreen, SInv
  <2>2. ASSUME ~call[e].raced PROVE ShareOf(call[e], j)
    <3>1. \A u \in Track : j[u] = capture[e][u]
      BY <1>2, <1>3, <2>2, ScreenAssumption
    <3> QED BY <1>2, <2>2, <3>1 DEF ShareOf, UnderWay
  <2>3. ShareOK(call[e], j)
    BY <1>1, <2>2 DEF ShareOK
  <2> QED BY <2>1, <2>3, OneShare
<1>4. ASSUME t # NoTrack, NEW x \in {"restoring", "stopped"}, NEW b \in BOOLEAN,
             x = "restoring" => b = call[e].sharing /\ ~call[e].ended,
             x = "stopped" => (b <=> call[e].sharing /\ call[e].ended),
             PInv', capture' = [capture EXCEPT ![e] = [j EXCEPT ![t] = x]],
             call' = [call EXCEPT ![e] = [call[e] EXCEPT !.screen = NoTrack,
                                                         !.sharing = b]]
      PROVE  SInv'
  <2> DEFINE s == [call[e] EXCEPT !.screen = NoTrack, !.sharing = b]
             k == [j EXCEPT ![t] = x]
  <2>1. t \in Track
    BY <1>1, <1>4 DEF Sessions
  <2>2. k \in Captures /\ \A u \in Track : k[u] = IF u = t THEN x ELSE j[u]
    BY <2>1 DEF Captures, States
  <2>3. /\ s \in Sessions /\ s.raced = call[e].raced /\ s.ended = call[e].ended
        /\ s.screen = NoTrack /\ s.sharing = b
    BY <1>1 DEF Sessions
  <2>4. call' = [call EXCEPT ![e] = s] /\ capture' = [capture EXCEPT ![e] = k]
    BY <1>4
  <2> HIDE DEF s, k
  <2>5. ASSUME ~s.raced PROVE ShareOf(s, k)
    <3>1. /\ ShareOf(call[e], capture[e])
          /\ \A u \in Track : k[u] = IF u = t THEN x ELSE capture[e][u]
      BY <1>2, <2>2, <2>3, <2>5
    <3>2. capture[e][t] \in {"live", "dead"} /\ ~call[e].ended
      BY <2>1, <3>1 DEF ShareOf, UnderWay
    <3>3. \A u \in Track : k[u] \in UnderWay
                             => u = t /\ k[u] = x /\ x = "restoring"
      BY <2>1, <3>1, <3>2 DEF ShareOf, UnderWay
    <3>4. call[e].sharing
      BY <2>1, <3>1, <3>2 DEF ShareOf, UnderWay
    <3>5. k[t] = x
      BY <2>1, <3>1
    <3>6. s.sharing <=> \E u \in Track : k[u] \in {"live", "dead", "restoring"}
      <4>1. CASE x = "restoring"
        BY <1>4, <2>1, <2>3, <3>4, <3>5, <4>1
      <4>2. CASE x = "stopped"
        BY <1>4, <2>3, <3>2, <3>3, <4>2 DEF UnderWay
      <4> QED BY <4>1, <4>2
    <3>7. \A u \in Track : k[u] \notin {"live", "dead"} /\ s.screen # u
      BY <2>3, <3>3, ScreenAssumption DEF UnderWay
    <3>8. ~s.ended
      BY <2>3, <3>2
    <3> QED BY <3>3, <3>6, <3>7, <3>8 DEF ShareOf, UnderWay
  <2>6. ShareOK(s, k)
    BY <2>2, <2>3, <2>5 DEF ShareOK
  <2> QED BY <1>4, <2>4, <2>6, OneShare
<1>5. ASSUME NEW x, NEW c, c = [cap EXCEPT ![e][t] = x]
      PROVE  c = [capture EXCEPT ![e] = [j EXCEPT ![t] = x]]
  BY <1>5 DEF SInv
<1>6. CASE /\ t # NoTrack /\ HasPeer(e) /\ UNCHANGED vars
           /\ call' = [call EXCEPT ![e].screen = NoTrack]
           /\ capture' = [cap EXCEPT ![e][t] = "restoring"]
  <2>1. call[e].sharing \in BOOLEAN
    BY <1>1 DEF Sessions
  <2>2. [call[e] EXCEPT !.screen = NoTrack] =
          [call[e] EXCEPT !.screen = NoTrack, !.sharing = call[e].sharing]
    BY <1>1 DEF Sessions
  <2>3. call' = [call EXCEPT ![e] = [call[e] EXCEPT !.screen = NoTrack,
                                             !.sharing = call[e].sharing]]
    BY <1>6, <2>2
  <2>4. PInv' /\ ~call[e].ended
    BY <1>6, ConnectionSame DEF SInv, HasPeer
  <2>5. capture' = [capture EXCEPT ![e] = [j EXCEPT ![t] = "restoring"]]
    BY <1>5, <1>6
  <2> QED BY <1>4, <1>6, <2>1, <2>3, <2>4, <2>5
<1>7. CASE /\ t # NoTrack /\ capture' = [cap EXCEPT ![e][t] = "stopped"]
           /\ call' = [call EXCEPT ![e].screen = NoTrack,
                                   ![e].sharing = @ /\ call[e].ended]
           /\ RemoveTrack(e, t) \/ UNCHANGED vars
  <2> DEFINE b == call[e].sharing /\ call[e].ended
  <2>1. b \in BOOLEAN /\ (b <=> call[e].sharing /\ call[e].ended)
    OBVIOUS
  <2>2. call' = [call EXCEPT ![e] = [call[e] EXCEPT !.screen = NoTrack,
                                                    !.sharing = b]]
    BY <1>7
  <2>3. t \in Track
    BY <1>1, <1>7 DEF Sessions
  <2>4. PInv'
    BY <1>7, <2>3, TracksOK, ConnectionSame DEF SInv
  <2>5. capture' = [capture EXCEPT ![e] = [j EXCEPT ![t] = "stopped"]]
    BY <1>5, <1>7
  <2> HIDE DEF b
  <2> QED BY <1>4, <1>7, <2>1, <2>2, <2>4, <2>5
<1> QED BY <1>3, <1>6, <1>7 DEF StopScreen

LEMMA ToggleOffOK ==
    ASSUME SInv, NEW e \in End, ToggleOff(e) PROVE SInv'
<1>1. capture[e] \in Captures /\ capture = [capture EXCEPT ![e] = capture[e]]
  BY DEF SInv
<1> QED BY <1>1, StopScreenOK DEF ToggleOff

LEMMA TrackEndedOK ==
    ASSUME SInv, NEW e \in End, NEW t \in Track, TrackEnded(e, t) PROVE SInv'
<1> DEFINE j == [capture[e] EXCEPT ![t] = "stopped"]
<1>1. capture[e] \in Captures
  BY DEF SInv
<1>2. j \in Captures /\ \A u \in Track : j[u] = IF u = t THEN "stopped"
                                                ELSE capture[e][u]
  BY <1>1 DEF Captures, States
<1>3. CASE StopScreen(e, [capture EXCEPT ![e] = j]) /\ capture[e][t] = "live"
  <2> HIDE DEF j
  <2> QED BY <1>2, <1>3, StopScreenOK
<1>4. CASE StopScreen(e, capture)
  <2>1. capture = [capture EXCEPT ![e] = capture[e]]
    BY DEF SInv
  <2> QED BY <1>1, <1>4, <2>1, StopScreenOK
<1> QED BY <1>3, <1>4 DEF TrackEnded

LEMMA EndsUnheardOK ==
    ASSUME SInv, NEW e \in End, NEW t \in Track, TrackEndsUnheard(e, t) PROVE SInv'
<1> DEFINE s == call[e]
           k == [capture[e] EXCEPT ![t] = "cut"]
<1>1. ShareOK(s, capture[e]) /\ capture[e] \in Captures
  BY DEF SInv
<1>2. k \in Captures /\ \A u \in Track : k[u] = IF u = t THEN "cut"
                                                ELSE capture[e][u]
  BY <1>1 DEF Captures, States
<1>3. capture[e][t] = "replacing" /\ capture' = [capture EXCEPT ![e] = k]
  BY SetCaptureIs DEF TrackEndsUnheard
<1>4. PInv' /\ call' = [call EXCEPT ![e] = s]
  BY ConnectionSame DEF SInv, TrackEndsUnheard
<1> HIDE DEF k
<1>5. ASSUME ~s.raced PROVE ShareOf(s, k)
  BY <1>1, <1>2, <1>3, <1>5 DEF ShareOK, ShareOf, UnderWay
<1>6. ShareOK(s, k)
  BY <1>1, <1>2, <1>5 DEF ShareOK
<1> QED BY <1>3, <1>4, <1>6, OneShare

LEMMA EndSessionOK ==
    ASSUME SInv, NEW e \in End, EndSession(e) PROVE SInv'
<1> DEFINE b == call[e].raced \/ Races(e)
           s == [call[e] EXCEPT !.ended = TRUE, !.screen = NoTrack, !.raced = b]
           k == [t \in Track |-> IF t = call[e].screen THEN "stopped"
                                 ELSE capture[e][t]]
<1>1. ShareOK(call[e], capture[e]) /\ call[e] \in Sessions /\ capture[e] \in Captures
  BY DEF SInv, ShareOK
<1>2. call' = [call EXCEPT ![e] = s] /\ capture' = [capture EXCEPT ![e] = k]
  BY DEF EndSession
<1>3. PInv'
  BY DestroyOK, ConnectionSame DEF EndSession, SInv
<1>4. k \in Captures
  BY <1>1 DEF Captures, States
<1>5. b \in BOOLEAN
  BY <1>1 DEF Sessions, Races, Pending
<1>6. /\ s \in Sessions /\ s.raced = b /\ s.ended /\ s.screen = NoTrack
  BY <1>1, <1>5 DEF Sessions
<1>7. ASSUME ~s.raced PROVE ShareOf(s, k)
  <2>1. /\ ShareOf(call[e], capture[e])
        /\ \A t \in Track : capture[e][t] \notin {"replacing", "cut", "restoring"}
    BY <1>1, <1>6, <1>7 DEF ShareOK, Races, Pending
  <2>2. \A t \in Track : k[t] = IF t = call[e].screen THEN "stopped"
                                ELSE capture[e][t]
    OBVIOUS
  <2> HIDE DEF k, s
  <2>3. \A t \in Track : k[t] \notin UnderWay \ {"asking"}
    BY <2>1, <2>2 DEF ShareOf, UnderWay
  <2>4. \A t \in Track : k[t] = "asking" => capture[e][t] = "asking"
    BY <2>2
  <2> QED BY <1>6, <2>1, <2>3, <2>4, ScreenAssumption DEF ShareOf, UnderWay
<1> HIDE DEF s, k
<1>8. ShareOK(s, k)
  BY <1>4, <1>6, <1>7 DEF ShareOK
<1> QED BY <1>2, <1>3, <1>8, OneShare

LEMMA ConnectionStepOK ==
    ASSUME SInv, Below(Next) PROVE SInv'
<1>1. Next /\ UNCHANGED capture
  BY DEF Below
<1>2. PInv'
  BY <1>1, PeerStep DEF SInv
<1>3. call' = [e \in End |-> [call[e] EXCEPT !.raced =
                  @ \/ (Live(e) /\ ~Live(e)' /\ Races(e))]]
  BY DEF Below
<1>4. ASSUME NEW e \in End
      PROVE  /\ call'[e] \in Sessions
             /\ ~call'[e].raced => ~call[e].raced
             /\ call'[e].ended = call[e].ended
             /\ call'[e].screen = call[e].screen
             /\ call'[e].sharing = call[e].sharing
  <2> DEFINE b == call[e].raced \/ (Live(e) /\ ~Live(e)' /\ Races(e))
  <2>1. call[e] \in Sessions
    BY DEF SInv
  <2>2. call'[e] = [call[e] EXCEPT !.raced = b]
    BY <1>3
  <2>3. b \in BOOLEAN /\ (~b => ~call[e].raced)
    OBVIOUS
  <2> HIDE DEF b
  <2> QED BY <2>1, <2>2, <2>3 DEF Sessions
<1>5. call' \in [End -> Sessions] /\ capture' \in [End -> Captures]
  BY <1>1, <1>3, <1>4 DEF SInv
<1>6. ASSUME NEW e \in End PROVE ShareOK(call'[e], capture'[e])
  <2>1. ShareOK(call[e], capture[e]) /\ capture'[e] = capture[e]
    BY <1>1 DEF SInv
  <2>2. ASSUME ~call'[e].raced PROVE ShareOf(call'[e], capture'[e])
    BY <1>4, <2>1, <2>2 DEF ShareOK, ShareOf, UnderWay
  <2> QED BY <1>4, <2>1, <2>2 DEF ShareOK
<1> QED BY <1>2, <1>5, <1>6 DEF SInv

LEMMA ScreenInitOK == ScreenInit => SInv
<1> SUFFICES ASSUME ScreenInit PROVE SInv
  OBVIOUS
<1> DEFINE s == [ended |-> FALSE, screen |-> NoTrack, sharing |-> FALSE,
                 sender |-> {Cam}, raced |-> FALSE]
           k == [t \in Track |-> "free"]
<1>1. s \in Sessions /\ k \in Captures
  BY DEF Sessions, Captures, States
<1>2. call = [e \in End |-> s] /\ capture = [e \in End |-> k]
  BY DEF ScreenInit
<1>3. ShareOf(s, k)
  BY ScreenAssumption DEF ShareOf, UnderWay
<1>4. ShareOK(s, k)
  BY <1>1, <1>3 DEF ShareOK
<1> HIDE DEF s, k
<1>5. call \in [End -> Sessions] /\ capture \in [End -> Captures]
  BY <1>1, <1>2
<1>6. \A e \in End : ShareOK(call[e], capture[e])
  BY <1>2, <1>4
<1> QED BY <1>5, <1>6, PeerInit DEF ScreenInit, SInv

LEMMA ScreenStep ==
    ASSUME SInv, [ScreenNext]_<<vars, shareVars>> PROVE SInv'
<1>1. CASE UNCHANGED <<vars, shareVars>>
  <2>1. PInv'
    BY <1>1, ConnectionSame DEF SInv
  <2> QED BY <1>1, <2>1 DEF shareVars, SInv
<1>2. CASE Below(Next)
  BY <1>2, ConnectionStepOK
<1>3. ASSUME NEW e \in End, Controls(e) PROVE SInv'
  <2>1. CASE ToggleOn(e) \/ ToggleOff(e) \/ EndSession(e)
    BY <2>1, ToggleOnOK, ToggleOffOK, EndSessionOK
  <2>2. ASSUME NEW t \in Track,
               \/ PromptDenied(e, t) \/ PromptGranted(e, t)
               \/ Replaced(e, t) \/ ReplaceFails(e, t)
               \/ TrackEnded(e, t) \/ TrackEndsUnheard(e, t)
               \/ Restored(e, t)
        PROVE  SInv'
    <3>1. CASE PromptDenied(e, t) \/ ReplaceFails(e, t)
      BY <3>1, DroppedOK DEF PromptDenied, ReplaceFails
    <3> QED BY <2>2, <3>1, PromptGrantedOK, ReplacedOK, TrackEndedOK,
            EndsUnheardOK, RestoredOK
  <2> QED BY <1>3, <2>1, <2>2 DEF Controls
<1> QED BY <1>1, <1>2, <1>3 DEF ScreenNext

LEMMA ScreenInvariance == ScreenSpec => []SInv
BY ScreenInitOK, ScreenStep, PTL DEF ScreenSpec

-----------------------------------------------------------------------------
(* Negotiation.  What is on its way to an end are the signals of its inbox,  *)
(* after the description it is handling.                                    *)
Queue(e) ==
    IF peer[e].handling.step = "remote" THEN <<peer[e].handling.signal>> \o inbox[e]
    ELSE inbox[e]

Has(q, type) == \E i \in DOMAIN q : q[i].type = type
OnlyCandidates(q) == \A i \in DOMAIN q : q[i].type = "candidate"

CandidateIn(q, n) == \E i \in DOMAIN q : q[i].type = "candidate" /\ q[i].ice = n
CandidateAfter(q, i, n) ==
    \E k \in DOMAIN q : k > i /\ q[k].type = "candidate" /\ q[k].ice = n
AnswerAfter(q, i) == \E k \in DOMAIN q : k > i /\ q[k].type = "answer"
LastOne(q, i) == \A k \in DOMAIN q : k > i => q[k].type = "candidate"

\* At most one answer, and at most one offer after it.
AnswerThenOffer(q) == \A i, j \in DOMAIN q :
    i < j /\ q[i].type # "candidate" /\ q[j].type # "candidate" =>
        q[i].type = "answer" /\ q[j].type = "offer"
OneAnswer(q) == \A i, j \in DOMAIN q :
    i < j => ~(q[i].type = "answer" /\ q[j].type = "answer")

\* The descriptions of a type are d, and its candidate is known to who knows
\* that of the ICE generation n, or follows.
Describes(q, type, d, n) == \A i \in DOMAIN q : q[i].type = type =>
    q[i].description = d /\ (d.ice = n \/ CandidateAfter(q, i, d.ice))

\* The last description is an offer.
EndsInOffer(q) == \E i \in DOMAIN q : q[i].type = "offer" /\ LastOne(q, i)

\* Every offer is the last description and so described, which a says may be,
\* or is doomed: the impolite end b has made one of its own, which the polite
\* end has taken (r) or answered since.
OpenOrDoomed(q, a, d, n, b, r) == \A i \in DOMAIN q : q[i].type = "offer" =>
    \/ /\ a /\ LastOne(q, i) /\ q[i].description = d
       /\ d.ice = n \/ CandidateAfter(q, i, d.ice)
    \/ b /\ (r \/ AnswerAfter(q, i))

-----------------------------------------------------------------------------
(* A queue whose first signal is taken.                                     *)

LEMMA TailIs ==
    ASSUME NEW S, NEW q \in Seq(S), q # <<>>
    PROVE  \E l \in Nat :
              /\ DOMAIN q = 1 .. l + 1 /\ DOMAIN Tail(q) = 1 .. l
              /\ \A i \in 1 .. l : i + 1 \in 1 .. l + 1 /\ Tail(q)[i] = q[i + 1]
              /\ \A j \in 1 .. l + 1 : j # 1 => j - 1 \in 1 .. l
                                              /\ Tail(q)[j - 1] = q[j]
              /\ 1 \in 1 .. l + 1 /\ q[1] = Head(q)
<1>1. PICK l \in Nat : l = Len(q) - 1 /\ Len(q) = l + 1
  BY EmptySeq
<1>2. /\ Tail(q) \in Seq(S) /\ Len(Tail(q)) = l
      /\ \A i \in 1 .. l : Tail(q)[i] = q[i + 1]
  BY <1>1, HeadTailProperties
<1>3. DOMAIN q = 1 .. l + 1 /\ DOMAIN Tail(q) = 1 .. l
  BY <1>1, <1>2, LenProperties
<1>4. q[1] = Head(q)
  OBVIOUS
<1>5. ASSUME NEW j \in 1 .. l + 1, j # 1
      PROVE  j - 1 \in 1 .. l /\ Tail(q)[j - 1] = q[j]
  <2>1. j - 1 \in 1 .. l /\ j - 1 + 1 = j
    BY <1>5
  <2> QED BY <1>2, <2>1
<1>6. \A i \in 1 .. l : i + 1 \in 1 .. l + 1
  OBVIOUS
<1>7. 1 \in 1 .. l + 1
  OBVIOUS
<1> QED BY <1>2, <1>3, <1>4, <1>5, <1>6, <1>7

LEMMA TailHas ==
    ASSUME NEW S, NEW q \in Seq(S), q # <<>>
    PROVE  /\ \A type : Has(Tail(q), type) => Has(q, type)
           /\ \A type : Has(q, type) /\ Head(q).type # type => Has(Tail(q), type)
           /\ Has(q, Head(q).type)
           /\ OnlyCandidates(q) => OnlyCandidates(Tail(q))
           /\ \A n : CandidateIn(q, n) => \/ CandidateIn(Tail(q), n)
                                          \/ Head(q).type = "candidate" /\ Head(q).ice = n
<1> DEFINE t == Tail(q)
<1>1. PICK l \in Nat :
              /\ DOMAIN q = 1 .. l + 1 /\ DOMAIN t = 1 .. l
              /\ \A i \in 1 .. l : i + 1 \in 1 .. l + 1 /\ t[i] = q[i + 1]
              /\ \A j \in 1 .. l + 1 : j # 1 => j - 1 \in 1 .. l /\ t[j - 1] = q[j]
              /\ 1 \in 1 .. l + 1 /\ q[1] = Head(q)
  BY TailIs
<1> HIDE DEF t
<1>2. ASSUME NEW type, Has(t, type) PROVE Has(q, type)
  <2>1. PICK i \in 1 .. l : t[i].type = type
    BY <1>1, <1>2 DEF Has
  <2>2. i + 1 \in DOMAIN q /\ q[i + 1].type = type
    BY <1>1, <2>1
  <2> QED BY <2>2 DEF Has
<1>3. ASSUME NEW type, Has(q, type), Head(q).type # type PROVE Has(t, type)
  <2>1. PICK j \in 1 .. l + 1 : q[j].type = type
    BY <1>1, <1>3 DEF Has
  <2>2. j # 1
    BY <1>1, <1>3, <2>1
  <2>3. j - 1 \in 1 .. l /\ t[j - 1] = q[j]
    BY <1>1, <2>2
  <2> QED BY <1>1, <2>1, <2>3 DEF Has
<1>4. Has(q, Head(q).type)
  BY <1>1 DEF Has
<1>5. OnlyCandidates(q) => OnlyCandidates(t)
  BY <1>1 DEF OnlyCandidates
<1>6. ASSUME NEW n, CandidateIn(q, n)
      PROVE  CandidateIn(t, n) \/ (Head(q).type = "candidate" /\ Head(q).ice = n)
  <2>1. PICK j \in 1 .. l + 1 : q[j].type = "candidate" /\ q[j].ice = n
    BY <1>1, <1>6 DEF CandidateIn
  <2>2. CASE j = 1
    BY <1>1, <2>1, <2>2
  <2>3. CASE j # 1
    <3>1. PICK i \in 1 .. l : t[i] = q[j]
      BY <1>1, <2>3
    <3>2. t[i].type = "candidate" /\ t[i].ice = n /\ i \in DOMAIN t
      BY <1>1, <2>1, <3>1
    <3> QED BY <3>2 DEF CandidateIn
  <2> QED BY <2>2, <2>3
<1> QED BY <1>2, <1>3, <1>4, <1>5, <1>6 DEF t

LEMMA TailShape ==
    ASSUME NEW S, NEW q \in Seq(S), q # <<>>
    PROVE  /\ AnswerThenOffer(q) => AnswerThenOffer(Tail(q))
           /\ OneAnswer(q) => OneAnswer(Tail(q))
           /\ Head(q).type = "answer" /\ (AnswerThenOffer(q) \/ OneAnswer(q)) =>
                 ~Has(Tail(q), "answer")
           /\ Head(q).type = "offer" /\ AnswerThenOffer(q) => OnlyCandidates(Tail(q))
           /\ EndsInOffer(q) => \/ EndsInOffer(Tail(q))
                                \/ Head(q).type = "offer" /\ OnlyCandidates(Tail(q))
<1> DEFINE t == Tail(q)
<1>1. PICK l \in Nat :
              /\ DOMAIN q = 1 .. l + 1 /\ DOMAIN t = 1 .. l
              /\ \A i \in 1 .. l : i + 1 \in 1 .. l + 1 /\ t[i] = q[i + 1]
              /\ \A j \in 1 .. l + 1 : j # 1 => j - 1 \in 1 .. l /\ t[j - 1] = q[j]
              /\ 1 \in 1 .. l + 1 /\ q[1] = Head(q)
  BY TailIs
<1> HIDE DEF t
<1>2. AnswerThenOffer(q) => AnswerThenOffer(t)
  <2> SUFFICES ASSUME AnswerThenOffer(q), NEW i \in 1 .. l, NEW j \in 1 .. l,
                      i < j, t[i].type # "candidate", t[j].type # "candidate"
               PROVE  t[i].type = "answer" /\ t[j].type = "offer"
    BY <1>1 DEF AnswerThenOffer
  <2>1. /\ i + 1 \in DOMAIN q /\ j + 1 \in DOMAIN q /\ i + 1 < j + 1
        /\ t[i] = q[i + 1] /\ t[j] = q[j + 1]
    BY <1>1
  <2> QED BY <2>1 DEF AnswerThenOffer
<1>3. OneAnswer(q) => OneAnswer(t)
  <2> SUFFICES ASSUME OneAnswer(q), NEW i \in 1 .. l, NEW j \in 1 .. l, i < j
               PROVE  ~(t[i].type = "answer" /\ t[j].type = "answer")
    BY <1>1 DEF OneAnswer
  <2>1. /\ i + 1 \in DOMAIN q /\ j + 1 \in DOMAIN q /\ i + 1 < j + 1
        /\ t[i] = q[i + 1] /\ t[j] = q[j + 1]
    BY <1>1
  <2> QED BY <2>1 DEF OneAnswer
<1>4. \A i \in 1 .. l : 1 < i + 1
  OBVIOUS
<1>5. Head(q).type = "answer" /\ (AnswerThenOffer(q) \/ OneAnswer(q)) => ~Has(t, "answer")
  <2> SUFFICES ASSUME Head(q).type = "answer", AnswerThenOffer(q) \/ OneAnswer(q),
                      NEW i \in 1 .. l, t[i].type = "answer"
               PROVE  FALSE
    BY <1>1 DEF Has
  <2>1. /\ 1 \in DOMAIN q /\ i + 1 \in DOMAIN q /\ 1 < i + 1
        /\ q[1].type = "answer" /\ q[i + 1].type = "answer"
    BY <1>1, <1>4
  <2> QED BY <2>1 DEF AnswerThenOffer, OneAnswer
<1>6. Head(q).type = "offer" /\ AnswerThenOffer(q) => OnlyCandidates(t)
  BY <1>1, <1>4 DEF AnswerThenOffer, OnlyCandidates
<1>7. ASSUME EndsInOffer(q), ~EndsInOffer(t)
      PROVE  Head(q).type = "offer" /\ OnlyCandidates(t)
  <2>1. PICK i \in DOMAIN q : q[i].type = "offer" /\ LastOne(q, i)
    BY <1>7 DEF EndsInOffer
  <2>2. CASE i = 1
    BY <1>1, <1>4, <2>1, <2>2 DEF LastOne, OnlyCandidates
  <2>3. CASE i # 1
    <3>1. i - 1 \in 1 .. l /\ t[i - 1] = q[i]
      BY <1>1, <2>3
    <3>2. ASSUME NEW k \in 1 .. l, k > i - 1 PROVE t[k].type = "candidate"
      <4>1. k + 1 \in DOMAIN q /\ k + 1 > i /\ t[k] = q[k + 1]
        BY <1>1, <3>2
      <4> QED BY <2>1, <4>1 DEF LastOne
    <3>3. LastOne(t, i - 1)
      BY <1>1, <3>2 DEF LastOne
    <3> QED BY <1>1, <1>7, <2>1, <3>1, <3>3 DEF EndsInOffer
  <2> QED BY <2>2, <2>3
<1> QED BY <1>2, <1>3, <1>5, <1>6, <1>7 DEF t

LEMMA TailAfter ==
    ASSUME NEW S, NEW q \in Seq(S), q # <<>>, NEW i \in DOMAIN Tail(q)
    PROVE  /\ i + 1 \in DOMAIN q /\ Tail(q)[i] = q[i + 1]
           /\ \A n : CandidateAfter(q, i + 1, n) => CandidateAfter(Tail(q), i, n)
           /\ AnswerAfter(q, i + 1) => AnswerAfter(Tail(q), i)
           /\ LastOne(q, i + 1) => LastOne(Tail(q), i)
<1> DEFINE t == Tail(q)
<1>1. PICK l \in Nat :
              /\ DOMAIN q = 1 .. l + 1 /\ DOMAIN t = 1 .. l
              /\ \A k \in 1 .. l : k + 1 \in 1 .. l + 1 /\ t[k] = q[k + 1]
              /\ \A j \in 1 .. l + 1 : j # 1 => j - 1 \in 1 .. l /\ t[j - 1] = q[j]
              /\ 1 \in 1 .. l + 1 /\ q[1] = Head(q)
  BY TailIs
<1> HIDE DEF t
<1>2. i \in 1 .. l
  BY <1>1 DEF t
<1>3. \A k \in 1 .. l + 1 : k > i + 1 => k # 1 /\ k - 1 > i
  BY <1>2
<1>4. \A k \in 1 .. l : k > i => k + 1 > i + 1
  BY <1>2
<1>5. ASSUME NEW n, CandidateAfter(q, i + 1, n) PROVE CandidateAfter(t, i, n)
  BY <1>1, <1>3, <1>5 DEF CandidateAfter
<1>6. AnswerAfter(q, i + 1) => AnswerAfter(t, i)
  BY <1>1, <1>3 DEF AnswerAfter
<1>7. LastOne(q, i + 1) => LastOne(t, i)
  <2> SUFFICES ASSUME LastOne(q, i + 1), NEW k \in 1 .. l, k > i
               PROVE  t[k].type = "candidate"
    BY <1>1 DEF LastOne
  <2>1. k + 1 \in DOMAIN q /\ k + 1 > i + 1 /\ t[k] = q[k + 1]
    BY <1>1, <1>4
  <2> QED BY <2>1 DEF LastOne
<1> QED BY <1>1, <1>2, <1>5, <1>6, <1>7 DEF t

LEMMA FirstAfter ==
    ASSUME NEW S, NEW q \in Seq(S), q # <<>>
    PROVE  /\ 1 \in DOMAIN q /\ q[1] = Head(q)
           /\ \A n : CandidateAfter(q, 1, n) => CandidateIn(Tail(q), n)
           /\ AnswerAfter(q, 1) => Has(Tail(q), "answer")
           /\ LastOne(q, 1) => OnlyCandidates(Tail(q))
<1> DEFINE t == Tail(q)
<1>1. PICK l \in Nat :
              /\ DOMAIN q = 1 .. l + 1 /\ DOMAIN t = 1 .. l
              /\ \A k \in 1 .. l : k + 1 \in 1 .. l + 1 /\ t[k] = q[k + 1]
              /\ \A j \in 1 .. l + 1 : j # 1 => j - 1 \in 1 .. l /\ t[j - 1] = q[j]
              /\ 1 \in 1 .. l + 1 /\ q[1] = Head(q)
  BY TailIs
<1> HIDE DEF t
<1>2. \A k \in 1 .. l : k + 1 > 1
  OBVIOUS
<1>3. \A k \in 1 .. l + 1 : k > 1 => k # 1
  OBVIOUS
<1>4. ASSUME NEW n, CandidateAfter(q, 1, n) PROVE CandidateIn(t, n)
  BY <1>1, <1>3, <1>4 DEF CandidateAfter, CandidateIn
<1>5. AnswerAfter(q, 1) => Has(t, "answer")
  BY <1>1, <1>3 DEF AnswerAfter, Has
<1>6. ASSUME LastOne(q, 1) PROVE OnlyCandidates(t)
  <2>1. ASSUME NEW i \in 1 .. l PROVE t[i].type = "candidate"
    <3>1. i + 1 \in DOMAIN q /\ i + 1 > 1 /\ t[i] = q[i + 1]
      BY <1>1, <1>2
    <3> QED BY <1>6, <3>1 DEF LastOne
  <2> QED BY <1>1, <2>1 DEF OnlyCandidates
<1> QED BY <1>1, <1>4, <1>5, <1>6 DEF t

LEMMA TailDescribes ==
    ASSUME NEW S, NEW q \in Seq(S), q # <<>>, NEW type, NEW d, NEW n,
           Describes(q, type, d, n)
    PROVE  /\ Describes(Tail(q), type, d, n)
           /\ Head(q).type = type => /\ Head(q).description = d
                                     /\ d.ice = n \/ CandidateIn(Tail(q), d.ice)
<1>1. ASSUME NEW i \in DOMAIN Tail(q), Tail(q)[i].type = type
      PROVE  /\ Tail(q)[i].description = d
             /\ d.ice = n \/ CandidateAfter(Tail(q), i, d.ice)
  BY <1>1, TailAfter DEF Describes
<1>2. Head(q).type = type => /\ Head(q).description = d
                             /\ d.ice = n \/ CandidateIn(Tail(q), d.ice)
  BY FirstAfter DEF Describes
<1> QED BY <1>1, <1>2 DEF Describes

LEMMA TailOpenOrDoomed ==
    ASSUME NEW S, NEW q \in Seq(S), q # <<>>,
           NEW a, NEW d, NEW n, NEW b, NEW r, OpenOrDoomed(q, a, d, n, b, r)
    PROVE  /\ OpenOrDoomed(Tail(q), a, d, n, b, r)
           /\ Head(q).type = "offer" =>
                 \/ /\ a /\ OnlyCandidates(Tail(q)) /\ Head(q).description = d
                    /\ d.ice = n \/ CandidateIn(Tail(q), d.ice)
                 \/ b /\ (r \/ Has(Tail(q), "answer"))
<1>1. ASSUME NEW i \in DOMAIN Tail(q), Tail(q)[i].type = "offer"
      PROVE  \/ /\ a /\ LastOne(Tail(q), i) /\ Tail(q)[i].description = d
                /\ d.ice = n \/ CandidateAfter(Tail(q), i, d.ice)
             \/ b /\ (r \/ AnswerAfter(Tail(q), i))
  BY <1>1, TailAfter DEF OpenOrDoomed
<1>2. ASSUME Head(q).type = "offer"
      PROVE  \/ /\ a /\ OnlyCandidates(Tail(q)) /\ Head(q).description = d
                /\ d.ice = n \/ CandidateIn(Tail(q), d.ice)
             \/ b /\ (r \/ Has(Tail(q), "answer"))
  BY <1>2, FirstAfter DEF OpenOrDoomed
<1> QED BY <1>1, <1>2 DEF OpenOrDoomed

-----------------------------------------------------------------------------
(* A queue to which a description m is added, and its candidate c, if f.     *)
Sent(q, m, f, c) == q \o (<<m>> \o IF f THEN <<c>> ELSE <<>>)

LEMMA SentIs ==
    ASSUME NEW q \in Seq(Signals), NEW m \in Signals, NEW f \in BOOLEAN, NEW c,
           f => c \in Signals
    PROVE  \E l \in Nat, k \in Nat :
              /\ DOMAIN q = 1 .. l /\ DOMAIN Sent(q, m, f, c) = 1 .. k
              /\ k = IF f THEN l + 2 ELSE l + 1
              /\ \A i \in 1 .. l : i \in 1 .. k /\ Sent(q, m, f, c)[i] = q[i]
              /\ l + 1 \in 1 .. k /\ Sent(q, m, f, c)[l + 1] = m
              /\ f => l + 2 \in 1 .. k /\ Sent(q, m, f, c)[l + 2] = c
<1> DEFINE s == <<m>> \o IF f THEN <<c>> ELSE <<>>
<1>2. /\ s \in Seq(Signals) /\ Len(s) = IF f THEN 2 ELSE 1
      /\ s[1] = m /\ (f => s[2] = c)
  <2>1. <<m>> \in Seq(Signals) /\ Len(<<m>>) = 1 /\ <<m>>[1] = m
    OBVIOUS
  <2>2. CASE f
    <3>1. <<c>> \in Seq(Signals) /\ Len(<<c>>) = 1 /\ <<c>>[1] = c
      BY <2>2
    <3>2. /\ <<m>> \o <<c>> \in Seq(Signals) /\ Len(<<m>> \o <<c>>) = 2
          /\ (<<m>> \o <<c>>)[1] = m /\ (<<m>> \o <<c>>)[2] = c
      BY <2>1, <3>1, ConcatProperties
    <3> QED BY <2>2, <3>2
  <2>3. CASE ~f
    <3>1. <<m>> \o <<>> = <<m>>
      BY <2>1, ConcatEmptySeq
    <3> QED BY <2>1, <2>3, <3>1
  <2> QED BY <2>2, <2>3
<1>3. PICK l \in Nat : l = Len(q)
  OBVIOUS
<1>4. PICK k \in Nat : k = IF f THEN l + 2 ELSE l + 1
  OBVIOUS
<1> HIDE DEF s
<1>5. /\ q \o s \in Seq(Signals) /\ Len(q \o s) = k
      /\ \A i \in 1 .. k : (q \o s)[i] = IF i <= l THEN q[i] ELSE s[i - l]
  <2>1. Len(q) + Len(s) = k /\ q \in Seq(Signals)
    BY <1>2, <1>3, <1>4
  <2>2. q \o s \in Seq(Signals) /\ Len(q \o s) = Len(q) + Len(s)
    BY <1>2, ConcatProperties
  <2>3. \A i \in 1 .. Len(q) + Len(s) :
           (q \o s)[i] = IF i <= Len(q) THEN q[i] ELSE s[i - Len(q)]
    BY <1>2, ConcatProperties
  <2>4. \A i \in 1 .. k : (q \o s)[i] = IF i <= l THEN q[i] ELSE s[i - l]
    BY <1>3, <2>1, <2>3
  <2> QED BY <2>1, <2>2, <2>4
<1>6. DOMAIN q = 1 .. l /\ DOMAIN (q \o s) = 1 .. k
  BY <1>3, <1>5, LenProperties
<1>7. \A i \in 1 .. l : i \in 1 .. k /\ (q \o s)[i] = q[i]
  BY <1>4, <1>5
<1>8. l + 1 \in 1 .. k /\ (q \o s)[l + 1] = m
  <2>1. l + 1 \in 1 .. k /\ ~(l + 1 <= l) /\ l + 1 - l = 1
    BY <1>4
  <2>2. (q \o s)[l + 1] = s[1]
    BY <1>5, <2>1
  <2> QED BY <1>2, <2>1, <2>2
<1>9. f => l + 2 \in 1 .. k /\ (q \o s)[l + 2] = c
  <2>1. f => l + 2 \in 1 .. k /\ ~(l + 2 <= l) /\ l + 2 - l = 2
    BY <1>4
  <2>2. f => (q \o s)[l + 2] = s[2]
    BY <1>5, <2>1
  <2> QED BY <1>2, <2>1, <2>2
<1>10. Sent(q, m, f, c) = q \o s
  BY DEF Sent, s
<1> QED BY <1>4, <1>6, <1>7, <1>8, <1>9, <1>10

LEMMA SentHas ==
    ASSUME NEW q \in Seq(Signals), NEW m \in Offers, NEW f \in BOOLEAN,
           NEW c, f => c \in Candidates
    PROVE  /\ \A type \in {"offer", "answer"} :
                 Has(Sent(q, m, f, c), type) <=> Has(q, type) \/ m.type = type
           /\ \A n : CandidateIn(q, n) => CandidateIn(Sent(q, m, f, c), n)
           /\ m.type = "offer" => EndsInOffer(Sent(q, m, f, c))
<1> DEFINE z == Sent(q, m, f, c)
<1>1. PICK l \in Nat, k \in Nat :
              /\ DOMAIN q = 1 .. l /\ DOMAIN z = 1 .. k
              /\ k = IF f THEN l + 2 ELSE l + 1
              /\ \A i \in 1 .. l : i \in 1 .. k /\ z[i] = q[i]
              /\ l + 1 \in 1 .. k /\ z[l + 1] = m
              /\ f => l + 2 \in 1 .. k /\ z[l + 2] = c
  BY SentIs DEF Signals
<1> HIDE DEF z
<1>2. \A i \in 1 .. k : i \in 1 .. l \/ i = l + 1 \/ (f /\ i = l + 2)
  BY <1>1
<1>3. f => c.type = "candidate"
  BY DEF Candidates
<1>4. ASSUME NEW type \in {"offer", "answer"}
      PROVE  Has(z, type) <=> Has(q, type) \/ m.type = type
  <2>1. ASSUME Has(z, type) PROVE Has(q, type) \/ m.type = type
    <3>1. PICK i \in 1 .. k : z[i].type = type
      BY <1>1, <2>1 DEF Has
    <3>2. CASE i \in 1 .. l
      BY <1>1, <3>1, <3>2 DEF Has
    <3>3. CASE i = l + 1
      BY <1>1, <3>1, <3>3
    <3>4. CASE f /\ i = l + 2
      BY <1>1, <1>3, <3>1, <3>4
    <3> QED BY <1>2, <3>2, <3>3, <3>4
  <2>2. ASSUME Has(q, type) PROVE Has(z, type)
    <3>1. PICK i \in 1 .. l : q[i].type = type
      BY <1>1, <2>2 DEF Has
    <3> QED BY <1>1, <3>1 DEF Has
  <2>3. ASSUME m.type = type PROVE Has(z, type)
    <3>1. PICK i \in 1 .. k : z[i] = m
      BY <1>1
    <3> QED BY <1>1, <2>3, <3>1 DEF Has
  <2> QED BY <2>1, <2>2, <2>3
<1>5. ASSUME NEW n, CandidateIn(q, n) PROVE CandidateIn(z, n)
  <2>1. PICK i \in 1 .. l : q[i].type = "candidate" /\ q[i].ice = n
    BY <1>1, <1>5 DEF CandidateIn
  <2> QED BY <1>1, <2>1 DEF CandidateIn
<1>6. ASSUME m.type = "offer" PROVE EndsInOffer(z)
  <2>1. ASSUME NEW j \in 1 .. k, j > l + 1 PROVE z[j].type = "candidate"
    <3>1. f /\ j = l + 2
      BY <1>2, <2>1
    <3> QED BY <1>1, <1>3, <3>1
  <2>2. PICK i \in 1 .. k : i = l + 1
    BY <1>1
  <2>3. LastOne(z, i) /\ z[i].type = "offer"
    BY <1>1, <1>6, <2>1, <2>2 DEF LastOne
  <2> QED BY <1>1, <2>3 DEF EndsInOffer
<1> QED BY <1>4, <1>5, <1>6 DEF z

LEMMA SentShape ==
    ASSUME NEW q \in Seq(Signals), NEW m \in Offers, NEW f \in BOOLEAN,
           NEW c, f => c \in Candidates
    PROVE  /\ OnlyCandidates(q) => AnswerThenOffer(Sent(q, m, f, c))
           /\ AnswerThenOffer(q) /\ ~Has(q, "offer") /\ m.type = "offer" =>
                 AnswerThenOffer(Sent(q, m, f, c))
           /\ OneAnswer(q) /\ (m.type = "offer" \/ ~Has(q, "answer")) =>
                 OneAnswer(Sent(q, m, f, c))
<1> DEFINE z == Sent(q, m, f, c)
<1>1. PICK l \in Nat, k \in Nat :
              /\ DOMAIN q = 1 .. l /\ DOMAIN z = 1 .. k
              /\ k = IF f THEN l + 2 ELSE l + 1
              /\ \A i \in 1 .. l : i \in 1 .. k /\ z[i] = q[i]
              /\ l + 1 \in 1 .. k /\ z[l + 1] = m
              /\ f => l + 2 \in 1 .. k /\ z[l + 2] = c
  BY SentIs DEF Signals
<1> HIDE DEF z
<1>2. \A i \in 1 .. k : i \in 1 .. l \/ i = l + 1 \/ (f /\ i = l + 2)
  BY <1>1
<1>3. f => c.type = "candidate"
  BY DEF Candidates
<1>4. ASSUME NEW i \in 1 .. k, z[i].type # "candidate"
      PROVE  (i \in 1 .. l /\ z[i] = q[i]) \/ (i = l + 1 /\ z[i] = m)
  BY <1>1, <1>2, <1>3, <1>4
<1>5. \A i \in 1 .. l : q[i] \in Signals
  BY <1>1
<1>6. \A i \in 1 .. l : q[i].type \in {"offer", "answer", "candidate"}
  BY <1>5 DEF Signals, Offers, Candidates
<1>7. ASSUME OnlyCandidates(q) PROVE AnswerThenOffer(z)
  <2>1. ASSUME NEW i \in 1 .. k, NEW j \in 1 .. k, i < j,
               z[i].type # "candidate", z[j].type # "candidate"
        PROVE  FALSE
    <3>1. i = l + 1 /\ j = l + 1
      BY <1>1, <1>4, <1>7, <2>1 DEF OnlyCandidates
    <3> QED BY <2>1, <3>1
  <2> QED BY <1>1, <2>1 DEF AnswerThenOffer
<1>8. ASSUME AnswerThenOffer(q), ~Has(q, "offer"), m.type = "offer"
      PROVE  AnswerThenOffer(z)
  <2>1. ASSUME NEW i \in 1 .. k, NEW j \in 1 .. k, i < j,
               z[i].type # "candidate", z[j].type # "candidate"
        PROVE  z[i].type = "answer" /\ z[j].type = "offer"
    <3>1. i \in 1 .. l /\ z[i] = q[i]
      <4>1. j <= l + 1
        BY <1>4, <2>1
      <4>2. i # l + 1
        BY <2>1, <4>1
      <4> QED BY <1>4, <2>1, <4>2
    <3>2. z[i].type = "answer"
      BY <1>1, <1>6, <1>8, <2>1, <3>1 DEF Has
    <3>3. CASE j \in 1 .. l /\ z[j] = q[j]
      BY <1>1, <1>8, <2>1, <3>1, <3>3 DEF AnswerThenOffer
    <3>4. CASE z[j] = m
      BY <1>8, <3>2, <3>4
    <3> QED BY <1>4, <2>1, <3>2, <3>3, <3>4
  <2> QED BY <1>1, <2>1 DEF AnswerThenOffer
<1>9. ASSUME OneAnswer(q), m.type = "offer" \/ ~Has(q, "answer")
      PROVE  OneAnswer(z)
  <2>1. ASSUME NEW i \in 1 .. k, NEW j \in 1 .. k, i < j,
               z[i].type = "answer", z[j].type = "answer"
        PROVE  FALSE
    <3>1. i \in 1 .. l /\ z[i] = q[i]
      <4>1. j <= l + 1
        BY <1>4, <2>1
      <4>2. i # l + 1
        BY <2>1, <4>1
      <4> QED BY <1>4, <2>1, <4>2
    <3>2. Has(q, "answer")
      BY <1>1, <2>1, <3>1 DEF Has
    <3>3. j \in 1 .. l /\ z[j] = q[j]
      BY <1>4, <1>9, <2>1, <3>2
    <3> QED BY <1>1, <1>9, <2>1, <3>1, <3>3 DEF OneAnswer
  <2> QED BY <1>1, <2>1 DEF OneAnswer
<1> QED BY <1>7, <1>8, <1>9 DEF z

LEMMA SentAfter ==
    ASSUME NEW q \in Seq(Signals), NEW m \in Offers, NEW f \in BOOLEAN,
           NEW c, f => c \in Candidates, NEW i \in DOMAIN Sent(q, m, f, c),
           Sent(q, m, f, c)[i].type # "candidate"
    PROVE  \/ /\ i \in DOMAIN q /\ Sent(q, m, f, c)[i] = q[i]
              /\ \A n : CandidateAfter(q, i, n) => CandidateAfter(Sent(q, m, f, c), i, n)
              /\ AnswerAfter(q, i) => AnswerAfter(Sent(q, m, f, c), i)
              /\ m.type = "answer" => AnswerAfter(Sent(q, m, f, c), i)
           \/ /\ Sent(q, m, f, c)[i] = m /\ LastOne(Sent(q, m, f, c), i)
              /\ f => CandidateAfter(Sent(q, m, f, c), i, c.ice)
<1> DEFINE z == Sent(q, m, f, c)
<1>1. PICK l \in Nat, k \in Nat :
              /\ DOMAIN q = 1 .. l /\ DOMAIN z = 1 .. k
              /\ k = IF f THEN l + 2 ELSE l + 1
              /\ \A j \in 1 .. l : j \in 1 .. k /\ z[j] = q[j]
              /\ l + 1 \in 1 .. k /\ z[l + 1] = m
              /\ f => l + 2 \in 1 .. k /\ z[l + 2] = c
  BY SentIs DEF Signals
<1>0. i \in 1 .. k /\ z[i].type # "candidate"
  BY <1>1
<1> HIDE DEF z
<1>2. \A j \in 1 .. k : j \in 1 .. l \/ j = l + 1 \/ (f /\ j = l + 2)
  BY <1>1
<1>3. f => c.type = "candidate"
  BY DEF Candidates
<1>4. CASE i \in 1 .. l
  <2>1. ASSUME NEW n, CandidateAfter(q, i, n) PROVE CandidateAfter(z, i, n)
    <3>1. PICK j \in 1 .. l : j > i /\ q[j].type = "candidate" /\ q[j].ice = n
      BY <1>1, <2>1 DEF CandidateAfter
    <3>2. j \in DOMAIN z /\ z[j] = q[j]
      BY <1>1
    <3> QED BY <3>1, <3>2 DEF CandidateAfter
  <2>2. ASSUME AnswerAfter(q, i) PROVE AnswerAfter(z, i)
    <3>1. PICK j \in 1 .. l : j > i /\ q[j].type = "answer"
      BY <1>1, <2>2 DEF AnswerAfter
    <3>2. j \in DOMAIN z /\ z[j] = q[j]
      BY <1>1
    <3> QED BY <3>1, <3>2 DEF AnswerAfter
  <2>3. ASSUME m.type = "answer" PROVE AnswerAfter(z, i)
    <3>1. PICK j \in 1 .. k : j = l + 1
      BY <1>1
    <3>2. j \in DOMAIN z /\ j > i /\ z[j].type = "answer"
      BY <1>1, <1>4, <2>3, <3>1
    <3> QED BY <3>2 DEF AnswerAfter
  <2> QED BY <1>1, <1>4, <2>1, <2>2, <2>3 DEF z
<1>5. CASE i = l + 1
  <2>1. ASSUME NEW j \in 1 .. k, j > i PROVE z[j].type = "candidate"
    <3>1. f /\ j = l + 2
      BY <1>2, <1>5, <2>1
    <3> QED BY <1>1, <1>3, <3>1
  <2>2. LastOne(z, i)
    BY <1>1, <2>1 DEF LastOne
  <2>3. ASSUME f PROVE CandidateAfter(z, i, c.ice)
    <3>1. PICK j \in 1 .. k : j = l + 2
      BY <1>1, <2>3
    <3>2. j \in DOMAIN z /\ j > i /\ z[j] = c
      BY <1>1, <1>5, <2>3, <3>1
    <3> QED BY <1>3, <2>3, <3>2 DEF CandidateAfter
  <2> QED BY <1>1, <1>5, <2>2, <2>3 DEF z
<1>6. CASE f /\ i = l + 2
  BY <1>0, <1>1, <1>3, <1>6
<1> QED BY <1>0, <1>2, <1>4, <1>5, <1>6

LEMMA SentDescribes ==
    ASSUME NEW q \in Seq(Signals), NEW m \in Offers, NEW f \in BOOLEAN,
           NEW c, f => c \in Candidates /\ c.ice = m.description.ice,
           NEW type \in {"offer", "answer"}, NEW d, NEW n
    PROVE  /\ m.type # type /\ Describes(q, type, d, n) =>
                 Describes(Sent(q, m, f, c), type, d, n)
           /\ ~Has(q, type) /\ d = m.description /\ (f \/ d.ice = n) =>
                 Describes(Sent(q, m, f, c), type, d, n)
<1> DEFINE z == Sent(q, m, f, c)
<1>1. ASSUME m.type # type, Describes(q, type, d, n),
             NEW i \in DOMAIN z, z[i].type = type
      PROVE  z[i].description = d /\ (d.ice = n \/ CandidateAfter(z, i, d.ice))
  <2>1. /\ i \in DOMAIN q /\ z[i] = q[i]
        /\ \A k : CandidateAfter(q, i, k) => CandidateAfter(z, i, k)
    BY <1>1, SentAfter
  <2> QED BY <1>1, <2>1 DEF Describes
<1>2. ASSUME ~Has(q, type), d = m.description, f \/ d.ice = n,
             NEW i \in DOMAIN z, z[i].type = type
      PROVE  z[i].description = d /\ (d.ice = n \/ CandidateAfter(z, i, d.ice))
  <2>1. ~(i \in DOMAIN q /\ z[i] = q[i])
    BY <1>2 DEF Has
  <2>2. z[i] = m /\ (f => CandidateAfter(z, i, c.ice))
    BY <1>2, <2>1, SentAfter
  <2> QED BY <1>2, <2>2
<1> QED BY <1>1, <1>2 DEF Describes

LEMMA SentOpenOrDoomed ==
    ASSUME NEW q \in Seq(Signals), NEW m \in Offers, NEW f \in BOOLEAN,
           NEW c, f => c \in Candidates /\ c.ice = m.description.ice,
           NEW a \in BOOLEAN, NEW d, NEW n, NEW b \in BOOLEAN, NEW r \in BOOLEAN
    PROVE  /\ m.type = "answer" /\ b => OpenOrDoomed(Sent(q, m, f, c), a, d, n, b, r)
           /\ /\ m.type = "offer" /\ a /\ d = m.description /\ (f \/ d.ice = n)
              /\ \E e, k : OpenOrDoomed(q, FALSE, e, k, b, FALSE)
              => OpenOrDoomed(Sent(q, m, f, c), a, d, n, b, r)
<1> DEFINE z == Sent(q, m, f, c)
<1>1. ASSUME m.type = "answer", b, NEW i \in DOMAIN z, z[i].type = "offer"
      PROVE  b /\ (r \/ AnswerAfter(z, i))
  BY <1>1, SentAfter
<1>2. ASSUME m.type = "offer", a, d = m.description, f \/ d.ice = n,
             NEW e, NEW k, OpenOrDoomed(q, FALSE, e, k, b, FALSE),
             NEW i \in DOMAIN z, z[i].type = "offer"
      PROVE  \/ /\ a /\ LastOne(z, i) /\ z[i].description = d
                /\ d.ice = n \/ CandidateAfter(z, i, d.ice)
             \/ b /\ (r \/ AnswerAfter(z, i))
  <2>1. CASE i \in DOMAIN q /\ z[i] = q[i] /\ (AnswerAfter(q, i) => AnswerAfter(z, i))
    BY <1>2, <2>1 DEF OpenOrDoomed
  <2>2. CASE z[i] = m /\ LastOne(z, i) /\ (f => CandidateAfter(z, i, c.ice))
    BY <1>2, <2>2
  <2> QED BY <1>2, <2>1, <2>2, SentAfter
<1> HIDE DEF z
<1>3. m.type = "answer" /\ b => OpenOrDoomed(z, a, d, n, b, r)
  BY <1>1 DEF OpenOrDoomed
<1>4. ASSUME m.type = "offer", a, d = m.description, f \/ d.ice = n,
             \E e, k : OpenOrDoomed(q, FALSE, e, k, b, FALSE)
      PROVE  OpenOrDoomed(z, a, d, n, b, r)
  <2>1. PICK e, k : OpenOrDoomed(q, FALSE, e, k, b, FALSE)
    BY <1>4
  <2> QED BY <1>2, <1>4, <2>1 DEF OpenOrDoomed
<1> QED BY <1>3, <1>4 DEF z

LEMMA CandidatesOnly ==
    ASSUME NEW q \in Seq(Signals)
    PROVE  /\ OnlyCandidates(q) <=> ~Has(q, "offer") /\ ~Has(q, "answer")
           /\ OnlyCandidates(q) => /\ AnswerThenOffer(q) /\ OneAnswer(q)
                                   /\ ~EndsInOffer(q)
           /\ ~Has(q, "offer") => /\ ~EndsInOffer(q)
                                  /\ \A a, d, n, b, r : OpenOrDoomed(q, a, d, n, b, r)
<1>1. \A i \in DOMAIN q : q[i].type \in {"offer", "answer", "candidate"}
  <2>1. \A i \in DOMAIN q : q[i] \in Signals
    OBVIOUS
  <2> QED BY <2>1 DEF Signals, Offers, Candidates
<1>2. OnlyCandidates(q) <=> ~Has(q, "offer") /\ ~Has(q, "answer")
  BY <1>1 DEF OnlyCandidates, Has
<1>3. OnlyCandidates(q) => AnswerThenOffer(q)
  BY DEF OnlyCandidates, AnswerThenOffer
<1>4. OnlyCandidates(q) => OneAnswer(q)
  BY DEF OnlyCandidates, OneAnswer
<1>5. ~Has(q, "offer") => ~EndsInOffer(q)
  BY DEF Has, EndsInOffer
<1>6. ~Has(q, "offer") => \A a, d, n, b, r : OpenOrDoomed(q, a, d, n, b, r)
  BY DEF Has, OpenOrDoomed
<1> QED BY <1>2, <1>3, <1>4, <1>5, <1>6

-----------------------------------------------------------------------------
(* How the two ends stand to each other: a and b are the connections of the  *)
(* polite and the impolite one, x and y the queues to them, and m says that  *)
(* the impolite one is making an offer.  An answer under way is awaited, and *)
(* is all there is beside an offer of the end that gave it; an offer to the  *)
(* polite end is open, one to the impolite end open or doomed; who waits for *)
(* an answer to its offer will get one, or the other's offer; and with no    *)
(* answer under way each end knows how the other has described itself.      *)
HasLocal(c) == c.signaling = "have-local-offer"
HasRemote(c) == c.signaling = "have-remote-offer"

Met(a, b, x, y, m) ==
    /\ AnswerThenOffer(x) /\ OneAnswer(y)
    /\ Has(x, "answer") =>
          /\ HasLocal(a) /\ ~HasRemote(b) /\ b.remote = a.offer /\ OnlyCandidates(y)
          /\ Describes(x, "answer", b.local, a.remote.ice)
    /\ Has(y, "answer") =>
          /\ HasLocal(b) /\ ~HasRemote(a) /\ a.remote = b.offer /\ OnlyCandidates(x)
          /\ Describes(y, "answer", a.local, b.remote.ice)
    /\ HasRemote(a) => /\ HasLocal(b) /\ a.remote = b.offer
                       /\ OnlyCandidates(x) /\ ~Has(y, "answer")
    /\ HasRemote(b) => /\ HasLocal(a) /\ b.remote = a.offer
                       /\ OnlyCandidates(x) /\ OnlyCandidates(y)
    /\ Has(x, "offer") => /\ HasLocal(b) /\ ~HasRemote(a) /\ ~Has(y, "answer")
                          /\ Describes(x, "offer", b.offer, b.local.ice)
    /\ OpenOrDoomed(y, HasLocal(a) /\ ~Has(x, "answer"), a.offer, a.local.ice,
                    HasLocal(b), HasRemote(a))
    /\ HasLocal(a) => \/ EndsInOffer(y) \/ HasRemote(b) \/ Has(x, "answer")
                      \/ m \/ Has(x, "offer")
    /\ HasLocal(b) => Has(x, "offer") \/ HasRemote(a) \/ Has(y, "answer")
    /\ ~Has(x, "answer") /\ ~Has(y, "answer") =>
          /\ ~HasRemote(a) => a.remote = b.local
          /\ ~HasRemote(b) => b.remote = a.local

\* What an end knows of the other's candidates, and of its own ICE generation.
Ices(c, q) ==
    /\ c.candidate = c.remote.ice \/ CandidateIn(q, c.remote.ice)
    /\ ~c.fresh => c.ice = IF HasLocal(c) THEN c.offer.ice ELSE c.local.ice

\* Two connections that differ in nothing Met speaks of.
Alike(c, k) == /\ c.signaling = k.signaling /\ c.offer = k.offer
               /\ c.local = k.local /\ c.remote = k.remote

LEMMA MetAlike ==
    ASSUME NEW a, NEW b, NEW x, NEW y, NEW m, Met(a, b, x, y, m),
           NEW c, NEW d, NEW n, Alike(a, c), Alike(b, d), m => n
    PROVE  Met(c, d, x, y, n)
BY DEF Alike, Met, HasLocal, HasRemote

LEMMA MetTakesCandidate ==
    ASSUME NEW a, NEW b, NEW x \in Seq(Signals), NEW y \in Seq(Signals), NEW m,
           Met(a, b, x, y, m)
    PROVE  /\ x # <<>> /\ Head(x).type = "candidate" => Met(a, b, Tail(x), y, m)
           /\ y # <<>> /\ Head(y).type = "candidate" => Met(a, b, x, Tail(y), m)
<1>1. ASSUME x # <<>>, Head(x).type = "candidate" PROVE Met(a, b, Tail(x), y, m)
  <2>1. /\ Has(Tail(x), "offer") <=> Has(x, "offer")
        /\ Has(Tail(x), "answer") <=> Has(x, "answer")
        /\ OnlyCandidates(x) => OnlyCandidates(Tail(x))
        /\ AnswerThenOffer(x) => AnswerThenOffer(Tail(x))
    BY <1>1, TailHas, TailShape
  <2>2. /\ Has(x, "answer") => Describes(Tail(x), "answer", b.local, a.remote.ice)
        /\ Has(x, "offer") => Describes(Tail(x), "offer", b.offer, b.local.ice)
    BY <1>1, TailDescribes DEF Met
  <2> QED BY <2>1, <2>2 DEF Met
<1>2. ASSUME y # <<>>, Head(y).type = "candidate" PROVE Met(a, b, x, Tail(y), m)
  <2>1. /\ Has(Tail(y), "answer") <=> Has(y, "answer")
        /\ OnlyCandidates(y) => OnlyCandidates(Tail(y))
        /\ OneAnswer(y) => OneAnswer(Tail(y))
        /\ EndsInOffer(y) => EndsInOffer(Tail(y))
    BY <1>2, TailHas, TailShape
  <2>2. Has(y, "answer") => Describes(Tail(y), "answer", a.local, b.remote.ice)
    BY <1>2, TailDescribes DEF Met
  <2>3. OpenOrDoomed(Tail(y), HasLocal(a) /\ ~Has(x, "answer"), a.offer, a.local.ice,
                     HasLocal(b), HasRemote(a))
    BY <1>2, TailOpenOrDoomed DEF Met
  <2> QED BY <2>1, <2>2, <2>3 DEF Met
<1> QED BY <1>1, <1>2

\* The impolite end ignores an offer, since it makes or has made one.
LEMMA MetIgnores ==
    ASSUME NEW a, NEW b, NEW x \in Seq(Signals), NEW y \in Seq(Signals), NEW m,
           Met(a, b, x, y, m), y # <<>>, Head(y).type = "offer", m \/ HasLocal(b)
    PROVE  Met(a, b, x, Tail(y), m)
<1>1. /\ Has(Tail(y), "answer") <=> Has(y, "answer")
      /\ OnlyCandidates(y) => OnlyCandidates(Tail(y))
      /\ OneAnswer(y) => OneAnswer(Tail(y))
      /\ EndsInOffer(y) => EndsInOffer(Tail(y)) \/ OnlyCandidates(Tail(y))
  BY TailHas, TailShape
<1>2. Has(y, "answer") => Describes(Tail(y), "answer", a.local, b.remote.ice)
  BY TailDescribes DEF Met
<1>3. OpenOrDoomed(Tail(y), HasLocal(a) /\ ~Has(x, "answer"), a.offer, a.local.ice,
                   HasLocal(b), HasRemote(a))
  BY TailOpenOrDoomed DEF Met
<1>4. /\ HasLocal(a) => ~HasRemote(a)
      /\ OnlyCandidates(Tail(y)) => ~Has(Tail(y), "answer")
  BY DEF HasLocal, HasRemote, OnlyCandidates, Has
<1> QED BY <1>1, <1>2, <1>3, <1>4 DEF Met

\* The polite end takes an offer, and rolls its own one back.
LEMMA PoliteTakesOffer ==
    ASSUME NEW a, NEW b, NEW x \in Seq(Signals), NEW y \in Seq(Signals), NEW m,
           Met(a, b, x, y, m), x # <<>>, Head(x).type = "offer",
           NEW c, HasRemote(c), c.remote = Head(x).description,
           c.offer = a.offer, c.local = a.local
    PROVE  /\ Met(c, b, Tail(x), y, m)
           /\ c.remote.ice = a.remote.ice \/ CandidateIn(Tail(x), c.remote.ice)
<1>1. OnlyCandidates(Tail(x)) /\ Has(x, "offer") /\ ~Has(x, "answer")
  <2>1. OnlyCandidates(Tail(x)) /\ Has(x, "offer")
    BY TailHas, TailShape DEF Met
  <2> QED BY <2>1, TailHas DEF OnlyCandidates, Has
<1>2. /\ ~Has(Tail(x), "offer") /\ ~Has(Tail(x), "answer")
      /\ AnswerThenOffer(Tail(x))
  BY <1>1, TailShape DEF Met, OnlyCandidates, Has
<1>3. /\ Head(x).description = b.offer /\ HasLocal(b) /\ ~HasRemote(a)
      /\ b.offer.ice = b.local.ice \/ CandidateIn(Tail(x), b.offer.ice)
      /\ ~Has(y, "answer") /\ a.remote = b.local
  BY <1>1, TailDescribes DEF Met
<1>4. OpenOrDoomed(y, FALSE, c.offer, c.local.ice, TRUE, TRUE)
  BY DEF OpenOrDoomed
<1>5. ~HasLocal(c) /\ ~HasRemote(b)
  BY <1>3 DEF HasLocal, HasRemote
<1>6. OpenOrDoomed(y, HasLocal(c) /\ ~Has(Tail(x), "answer"), c.offer, c.local.ice,
                   HasLocal(b), HasRemote(c))
  BY <1>3 DEF OpenOrDoomed
<1>7. b.remote = a.local
  BY <1>1, <1>3, <1>5 DEF Met
<1>8. Met(c, b, Tail(x), y, m)
  BY <1>1, <1>2, <1>3, <1>5, <1>6, <1>7 DEF Met
<1> QED BY <1>3, <1>8

\* The impolite end, in a stable state, takes an offer.
LEMMA ImpoliteTakesOffer ==
    ASSUME NEW a, NEW b, NEW x \in Seq(Signals), NEW y \in Seq(Signals), NEW m,
           Met(a, b, x, y, m), y # <<>>, Head(y).type = "offer",
           b.signaling = "stable",
           NEW c, HasRemote(c), c.remote = Head(y).description,
           c.offer = b.offer, c.local = b.local
    PROVE  /\ Met(a, c, x, Tail(y), m)
           /\ c.remote.ice = b.remote.ice \/ CandidateIn(Tail(y), c.remote.ice)
<1>1. ~HasLocal(b) /\ ~HasRemote(b) /\ ~HasLocal(c)
  BY DEF HasLocal, HasRemote
<1>2. /\ HasLocal(a) /\ ~Has(x, "answer") /\ OnlyCandidates(Tail(y))
      /\ Head(y).description = a.offer
      /\ a.offer.ice = a.local.ice \/ CandidateIn(Tail(y), a.offer.ice)
  <2> DEFINE open == HasLocal(a) /\ ~Has(x, "answer")
  <2>1. OpenOrDoomed(y, open, a.offer, a.local.ice, HasLocal(b), HasRemote(a))
    BY DEF Met
  <2> HIDE DEF open
  <2>2. \/ /\ open /\ OnlyCandidates(Tail(y)) /\ Head(y).description = a.offer
           /\ a.offer.ice = a.local.ice \/ CandidateIn(Tail(y), a.offer.ice)
        \/ HasLocal(b) /\ (HasRemote(a) \/ Has(Tail(y), "answer"))
    BY <2>1, TailOpenOrDoomed
  <2> QED BY <1>1, <2>2 DEF open
<1>3. ~Has(x, "offer") /\ OnlyCandidates(x) /\ ~HasRemote(a)
  BY <1>1, <1>2, CandidatesOnly DEF Met
<1>4. ~Has(Tail(y), "answer") /\ ~Has(Tail(y), "offer") /\ ~Has(y, "answer")
  BY <1>2, TailHas DEF OnlyCandidates, Has
<1>5. OneAnswer(Tail(y))
  BY TailShape DEF Met
<1>6. OpenOrDoomed(Tail(y), HasLocal(a) /\ ~Has(x, "answer"), a.offer, a.local.ice,
                   HasLocal(c), HasRemote(a))
  BY <1>4 DEF OpenOrDoomed, Has
<1>7. b.remote = a.local /\ a.remote = b.local
  BY <1>1, <1>2, <1>3, <1>4 DEF Met
<1>8. Met(a, c, x, Tail(y), m)
  BY <1>1, <1>2, <1>3, <1>4, <1>5, <1>6, <1>7 DEF Met
<1> QED BY <1>2, <1>7, <1>8

\* The polite end takes the answer to its offer.
LEMMA PoliteTakesAnswer ==
    ASSUME NEW a, NEW b, NEW x \in Seq(Signals), NEW y \in Seq(Signals), NEW m,
           Met(a, b, x, y, m), x # <<>>, Head(x).type = "answer",
           NEW c, c.signaling = "stable", c.remote = Head(x).description,
           c.offer = a.offer, c.local = a.offer
    PROVE  /\ Met(c, b, Tail(x), y, m)
           /\ c.remote.ice = a.remote.ice \/ CandidateIn(Tail(x), c.remote.ice)
<1>1. ~HasLocal(c) /\ ~HasRemote(c)
  BY DEF HasLocal, HasRemote
<1>2. Has(x, "answer")
  BY TailHas
<1>3. /\ HasLocal(a) /\ ~HasRemote(b) /\ b.remote = a.offer /\ OnlyCandidates(y)
      /\ Head(x).description = b.local
      /\ b.local.ice = a.remote.ice \/ CandidateIn(Tail(x), b.local.ice)
  BY <1>2, TailDescribes DEF Met
<1>4. /\ ~Has(y, "answer") /\ ~Has(y, "offer") /\ ~HasRemote(a)
  BY <1>3 DEF OnlyCandidates, Has, HasLocal, HasRemote
<1>5. /\ ~Has(Tail(x), "answer") /\ AnswerThenOffer(Tail(x))
      /\ Has(Tail(x), "offer") <=> Has(x, "offer")
  BY TailHas, TailShape DEF Met
<1>6. Has(x, "offer") => Describes(Tail(x), "offer", b.offer, b.local.ice)
  BY TailDescribes DEF Met
<1>7. OpenOrDoomed(y, HasLocal(c) /\ ~Has(Tail(x), "answer"), c.offer, c.local.ice,
                   HasLocal(b), HasRemote(c))
  BY <1>4 DEF OpenOrDoomed, Has
<1>8. Met(c, b, Tail(x), y, m)
  BY <1>1, <1>3, <1>4, <1>5, <1>6, <1>7 DEF Met
<1> QED BY <1>3, <1>8

\* The impolite end does.
LEMMA ImpoliteTakesAnswer ==
    ASSUME NEW a, NEW b, NEW x \in Seq(Signals), NEW y \in Seq(Signals), NEW m,
           Met(a, b, x, y, m), y # <<>>, Head(y).type = "answer",
           NEW c, c.signaling = "stable", c.remote = Head(y).description,
           c.offer = b.offer, c.local = b.offer
    PROVE  /\ Met(a, c, x, Tail(y), m)
           /\ c.remote.ice = b.remote.ice \/ CandidateIn(Tail(y), c.remote.ice)
<1>1. ~HasLocal(c) /\ ~HasRemote(c)
  BY DEF HasLocal, HasRemote
<1>2. Has(y, "answer")
  BY TailHas
<1>3. /\ HasLocal(b) /\ ~HasRemote(a) /\ a.remote = b.offer /\ OnlyCandidates(x)
      /\ Head(y).description = a.local
      /\ a.local.ice = b.remote.ice \/ CandidateIn(Tail(y), a.local.ice)
  BY <1>2, TailDescribes DEF Met
<1>4. /\ ~Has(x, "answer") /\ ~Has(x, "offer") /\ ~HasRemote(b)
  BY <1>3 DEF OnlyCandidates, Has, HasLocal, HasRemote
<1>5. /\ ~Has(Tail(y), "answer") /\ OneAnswer(Tail(y))
      /\ EndsInOffer(y) => EndsInOffer(Tail(y))
  BY TailShape DEF Met
<1>6. OpenOrDoomed(Tail(y), HasLocal(a) /\ ~Has(x, "answer"), a.offer, a.local.ice,
                   HasLocal(b), HasRemote(a))
  BY TailOpenOrDoomed DEF Met
<1>7. OpenOrDoomed(Tail(y), HasLocal(a) /\ ~Has(x, "answer"), a.offer, a.local.ice,
                   HasLocal(c), HasRemote(a))
  BY <1>3, <1>5, <1>6 DEF OpenOrDoomed, AnswerAfter, Has
<1>8. Met(a, c, x, Tail(y), m)
  BY <1>1, <1>3, <1>4, <1>5, <1>7 DEF Met
<1> QED BY <1>3, <1>8

\* The polite end makes an offer d, in a stable state.
LEMMA PoliteOffers ==
    ASSUME NEW a, NEW b, NEW x \in Seq(Signals), NEW y \in Seq(Signals), NEW m,
           Met(a, b, x, y, m), a.signaling = "stable",
           NEW s \in Offers, NEW f \in BOOLEAN, NEW k, s.type = "offer",
           f => k \in Candidates /\ k.ice = s.description.ice,
           f \/ s.description.ice = a.local.ice,
           NEW c, HasLocal(c), c.offer = s.description,
           c.local = a.local, c.remote = a.remote
    PROVE  Met(c, b, x, Sent(y, s, f, k), m)
<1> DEFINE z == Sent(y, s, f, k)
<1>1. ~HasLocal(a) /\ ~HasRemote(a) /\ ~HasRemote(c)
  BY DEF HasLocal, HasRemote
<1>2. ~Has(x, "answer") /\ ~HasRemote(b)
  BY <1>1 DEF Met
<1>3. OneAnswer(z) /\ EndsInOffer(z) /\ (Has(z, "answer") <=> Has(y, "answer"))
  BY SentHas, SentShape DEF Met
<1>4. Has(y, "answer") => Describes(z, "answer", c.local, b.remote.ice)
  BY SentDescribes DEF Met
<1>5. OpenOrDoomed(z, HasLocal(c) /\ ~Has(x, "answer"), c.offer, c.local.ice,
                   HasLocal(b), HasRemote(c))
  <2>1. OpenOrDoomed(y, FALSE, a.offer, a.local.ice, HasLocal(b), FALSE)
    BY <1>1 DEF Met, OpenOrDoomed
  <2>2. HasLocal(b) \in BOOLEAN
    BY DEF HasLocal
  <2>3. OpenOrDoomed(z, TRUE, c.offer, c.local.ice, HasLocal(b), FALSE)
    BY <2>1, <2>2, SentOpenOrDoomed
  <2> QED BY <1>1, <1>2, <2>3 DEF OpenOrDoomed
<1> HIDE DEF z
<1>6. Met(c, b, x, z, m)
  BY <1>1, <1>2, <1>3, <1>4, <1>5 DEF Met
<1> QED BY <1>6 DEF z

\* The impolite end does.
LEMMA ImpoliteOffers ==
    ASSUME NEW a, NEW b, NEW x \in Seq(Signals), NEW y \in Seq(Signals), NEW m,
           Met(a, b, x, y, m), b.signaling = "stable",
           NEW s \in Offers, NEW f \in BOOLEAN, NEW k, s.type = "offer",
           f => k \in Candidates /\ k.ice = s.description.ice,
           f \/ s.description.ice = b.local.ice,
           NEW c, HasLocal(c), c.offer = s.description,
           c.local = b.local, c.remote = b.remote, NEW n
    PROVE  Met(a, c, Sent(x, s, f, k), y, n)
<1> DEFINE z == Sent(x, s, f, k)
<1>1. ~HasLocal(b) /\ ~HasRemote(b) /\ ~HasRemote(c)
  BY DEF HasLocal, HasRemote
<1>2. ~Has(y, "answer") /\ ~HasRemote(a) /\ ~Has(x, "offer")
  BY <1>1 DEF Met
<1>3. AnswerThenOffer(z) /\ Has(z, "offer") /\ (Has(z, "answer") <=> Has(x, "answer"))
  BY <1>2, SentHas, SentShape DEF Met
<1>4. Has(x, "answer") => Describes(z, "answer", c.local, a.remote.ice)
  BY SentDescribes DEF Met
<1>5. Describes(z, "offer", c.offer, c.local.ice)
  BY <1>2, SentDescribes
<1>6. OpenOrDoomed(y, HasLocal(a) /\ ~Has(z, "answer"), a.offer, a.local.ice,
                   HasLocal(c), HasRemote(a))
  BY <1>1, <1>3 DEF Met, OpenOrDoomed
<1> HIDE DEF z
<1>7. Met(a, c, z, y, n)
  BY <1>1, <1>2, <1>3, <1>4, <1>5, <1>6 DEF Met
<1> QED BY <1>7 DEF z

\* The polite end makes an answer d.
LEMMA PoliteAnswers ==
    ASSUME NEW a, NEW b, NEW x \in Seq(Signals), NEW y \in Seq(Signals), NEW m,
           Met(a, b, x, y, m), HasRemote(a),
           NEW s \in Offers, NEW f \in BOOLEAN, NEW k, s.type = "answer",
           f => k \in Candidates /\ k.ice = s.description.ice,
           f \/ s.description.ice = a.local.ice,
           NEW c, c.signaling = "stable", c.local = s.description,
           c.remote = a.remote
    PROVE  Met(c, b, x, Sent(y, s, f, k), m)
<1> DEFINE z == Sent(y, s, f, k)
<1>1. ~HasLocal(c) /\ ~HasRemote(c)
  BY DEF HasLocal, HasRemote
<1>2. /\ HasLocal(b) /\ ~HasRemote(b) /\ a.remote = b.offer
      /\ OnlyCandidates(x) /\ ~Has(y, "answer")
      /\ ~Has(x, "answer") /\ ~Has(x, "offer")
  BY CandidatesOnly DEF Met, HasLocal, HasRemote
<1>3. b.remote = a.local
  BY <1>2 DEF Met
<1>4. OneAnswer(z) /\ Has(z, "answer")
  BY <1>2, SentHas, SentShape DEF Met
<1>5. Describes(z, "answer", c.local, b.remote.ice)
  BY <1>2, <1>3, SentDescribes
<1>6. OpenOrDoomed(z, HasLocal(c) /\ ~Has(x, "answer"), c.offer, c.local.ice,
                   HasLocal(b), HasRemote(c))
  <2>1. OpenOrDoomed(z, FALSE, c.offer, c.local.ice, TRUE, FALSE)
    BY SentOpenOrDoomed
  <2> QED BY <1>1, <1>2, <2>1 DEF OpenOrDoomed
<1> HIDE DEF z
<1>7. AnswerThenOffer(x)
  BY DEF Met
<1>8. Met(c, b, x, z, m)
  BY <1>1, <1>2, <1>4, <1>5, <1>6, <1>7 DEF Met
<1> QED BY <1>8 DEF z

\* The impolite end does.
LEMMA ImpoliteAnswers ==
    ASSUME NEW a, NEW b, NEW x \in Seq(Signals), NEW y \in Seq(Signals), NEW m,
           Met(a, b, x, y, m), HasRemote(b),
           NEW s \in Offers, NEW f \in BOOLEAN, NEW k, s.type = "answer",
           f => k \in Candidates /\ k.ice = s.description.ice,
           f \/ s.description.ice = b.local.ice,
           NEW c, c.signaling = "stable", c.local = s.description,
           c.remote = b.remote
    PROVE  Met(a, c, Sent(x, s, f, k), y, m)
<1> DEFINE z == Sent(x, s, f, k)
<1>1. ~HasLocal(c) /\ ~HasRemote(c)
  BY DEF HasLocal, HasRemote
<1>2. /\ HasLocal(a) /\ ~HasRemote(a) /\ b.remote = a.offer
      /\ OnlyCandidates(x) /\ OnlyCandidates(y)
      /\ ~Has(x, "answer") /\ ~Has(x, "offer")
      /\ ~Has(y, "answer") /\ ~Has(y, "offer")
  BY CandidatesOnly DEF Met, HasLocal, HasRemote
<1>3. a.remote = b.local
  BY <1>2 DEF Met
<1>4. AnswerThenOffer(z) /\ Has(z, "answer") /\ ~Has(z, "offer")
  BY <1>2, SentHas, SentShape
<1>5. Describes(z, "answer", c.local, a.remote.ice)
  BY <1>2, <1>3, SentDescribes
<1>6. OpenOrDoomed(y, HasLocal(a) /\ ~Has(z, "answer"), a.offer, a.local.ice,
                   HasLocal(c), HasRemote(a))
  BY <1>2 DEF OpenOrDoomed, Has
<1> HIDE DEF z
<1>7. OneAnswer(y)
  BY DEF Met
<1>8. Met(a, c, z, y, m)
  BY <1>1, <1>2, <1>4, <1>5, <1>6, <1>7 DEF Met
<1> QED BY <1>8 DEF z

-----------------------------------------------------------------------------
(* The invariant: how the ends stand, as long as both live and every signal  *)
(* arrives.  The impolite end takes an offer in a stable state only.        *)
Settling ==
    /\ Met(rtc[Polite], rtc[Impolite], Queue(Polite), Queue(Impolite),
           peer[Impolite].making)
    /\ \A e \in End : Ices(rtc[e], Queue(e))
    /\ peer[Impolite].handling.step = "remote"
       /\ peer[Impolite].handling.signal.type = "offer" =>
          rtc[Impolite].signaling = "stable" /\ ~peer[Impolite].making

NInv == ~lost /\ (\A e \in End : Live(e)) => Settling

LEMMA Ends ==
    /\ Polite \in End /\ Impolite \in End /\ Polite # Impolite
    /\ \A e \in End : /\ Other(e) \in End /\ Other(e) # e
                      /\ \A d \in End : d # e => d = Other(e)
                      /\ \/ e = Polite /\ Other(e) = Impolite
                         \/ e = Impolite /\ Other(e) = Polite
BY PeerAssumption DEF End, Other

LEMMA QueueIs ==
    ASSUME PInv, NEW e \in End
    PROVE  /\ Queue(e) \in Seq(Signals) /\ inbox[e] \in Seq(Signals)
           /\ peer[e].handling.step # "remote" => Queue(e) = inbox[e]
           /\ peer[e].handling.step = "remote" =>
                 /\ peer[e].handling.signal \in Offers
                 /\ Queue(e) # <<>> /\ Head(Queue(e)) = peer[e].handling.signal
                 /\ Tail(Queue(e)) = inbox[e]
<1>1. inbox[e] \in Seq(Signals) /\ peer[e].handling \in Handlings
  BY DEF PInv, Peers
<1>2. CASE peer[e].handling.step # "remote"
  BY <1>1, <1>2 DEF Queue
<1>3. CASE peer[e].handling.step = "remote"
  <2> DEFINE s == peer[e].handling.signal
             q == inbox[e]
  <2>1. s \in Offers /\ s \in Signals
    BY <1>1, <1>3, StepOfHandling DEF Signals
  <2>2. Queue(e) = <<s>> \o q
    BY <1>3 DEF Queue
  <2> HIDE DEF s, q
  <2>3. q \in Seq(Signals)
    BY <1>1 DEF q
  <2>4. /\ <<s>> \o q \in Seq(Signals) /\ <<s>> \o q # <<>>
        /\ Head(<<s>> \o q) = s /\ Tail(<<s>> \o q) = q
    BY <2>1, <2>3
  <2> QED BY <1>3, <2>1, <2>2, <2>3, <2>4 DEF s, q
<1> QED BY <1>2, <1>3

-----------------------------------------------------------------------------
(* Steps that the negotiation does not see.                                 *)
SameTalk(c, k) == /\ Alike(c, k) /\ k.candidate = c.candidate /\ k.ice = c.ice
                  /\ c.fresh => k.fresh
SameTurn(p, q) == /\ q.handling = p.handling
                  /\ p.making => q.making
                  /\ p.handling # Idle => q.making = p.making

LEMMA Calm ==
    ASSUME PInv, Settling, UNCHANGED inbox,
           \A d \in End : SameTalk(rtc[d], rtc'[d]) /\ SameTurn(peer[d], peer'[d])
    PROVE  Settling'
<1>1. ASSUME NEW d \in End
      PROVE  peer'[d].handling = peer[d].handling /\ Queue(d)' = Queue(d)
  <2>1. peer'[d].handling = peer[d].handling
    BY DEF SameTurn
  <2>2. inbox' = inbox
    OBVIOUS
  <2> QED BY <2>1, <2>2 DEF Queue
<1>2. Met(rtc'[Polite], rtc'[Impolite], Queue(Polite), Queue(Impolite),
          peer'[Impolite].making)
  <2>1. /\ Alike(rtc[Polite], rtc'[Polite]) /\ Alike(rtc[Impolite], rtc'[Impolite])
        /\ peer[Impolite].making => peer'[Impolite].making
    BY Ends DEF SameTalk, SameTurn
  <2>2. Met(rtc[Polite], rtc[Impolite], Queue(Polite), Queue(Impolite),
            peer[Impolite].making)
    BY DEF Settling
  <2> QED BY <2>1, <2>2, MetAlike
<1>3. ASSUME NEW d \in End PROVE Ices(rtc'[d], Queue(d))
  <2>1. Ices(rtc[d], Queue(d)) /\ SameTalk(rtc[d], rtc'[d])
    BY DEF Settling
  <2> QED BY <2>1 DEF Ices, SameTalk, Alike, HasLocal
<1>4. peer'[Impolite].handling.step = "remote"
      /\ peer'[Impolite].handling.signal.type = "offer" =>
         rtc'[Impolite].signaling = "stable" /\ ~peer'[Impolite].making
  <2>1. /\ peer[Impolite].handling.step = "remote" => peer[Impolite].handling # Idle
        /\ rtc'[Impolite].signaling = rtc[Impolite].signaling
    BY Ends DEF Idle, SameTalk, Alike
  <2> QED BY <1>1, <2>1, Ends DEF Settling, SameTurn
<1> QED BY <1>1, <1>2, <1>3, <1>4, Ends DEF Settling

LEMMA CalmEnd ==
    ASSUME PInv, Settling, UNCHANGED inbox, NEW e \in End, NEW p, NEW c,
           peer' = [peer EXCEPT ![e] = p], rtc' = [rtc EXCEPT ![e] = c],
           SameTalk(rtc[e], c), SameTurn(peer[e], p)
    PROVE  Settling'
<1>1. ASSUME NEW d \in End
      PROVE  SameTalk(rtc[d], rtc'[d]) /\ SameTurn(peer[d], peer'[d])
  <2>1. CASE d = e
    BY <2>1 DEF PInv
  <2>2. CASE d # e
    BY <2>2 DEF PInv, SameTalk, SameTurn, Alike
  <2> QED BY <2>1, <2>2
<1> QED BY <1>1, Calm

LEMMA NegotiateSettles ==
    ASSUME PInv, Settling, NEW e \in End, Negotiate(e) PROVE Settling'
<1> DEFINE p == [peer[e] EXCEPT !.making = TRUE]
<1>1. peer' = [peer EXCEPT ![e] = p] /\ rtc' = [rtc EXCEPT ![e] = rtc[e]]
  BY DEF Negotiate, PInv
<1>2. SameTurn(peer[e], p)
  BY DEF SameTurn, Negotiate, PInv, Peers
<1>3. SameTalk(rtc[e], rtc[e]) /\ UNCHANGED inbox
  BY DEF SameTalk, Alike, Negotiate
<1> QED BY <1>1, <1>2, <1>3, CalmEnd

LEMMA CheckedTurn ==
    ASSUME NEW p \in Peers, NEW c PROVE SameTurn(p, Checked(p, c))
BY DEF SameTurn, Checked, Peers

LEMMA ConnectionSettles ==
    ASSUME PInv, Settling, NEW e \in End
    PROVE  /\ ChannelOpens(e) => Settling'
           /\ \A to \in {"connecting", "connected", "disconnected"} :
                 ConnectionStateOther(e, to) => Settling'
<1>1. rtc[e] \in Connections /\ peer[e] \in Peers
  BY DEF PInv
<1>2. ASSUME ChannelOpens(e) PROVE Settling'
  <2> DEFINE c == [rtc[e] EXCEPT !.open = TRUE]
  <2>1. rtc' = [rtc EXCEPT ![e] = c] /\ SameTalk(rtc[e], c) /\ UNCHANGED inbox
    BY <1>1, <1>2 DEF ChannelOpens, SameTalk, Alike, Connections
  <2>2. peer' = [peer EXCEPT ![e] = Checked(peer[e], rtc'[e])]
    BY <1>2 DEF ChannelOpens
  <2> HIDE DEF c
  <2> QED BY <1>1, <2>1, <2>2, CheckedTurn, CalmEnd
<1>3. ASSUME NEW to \in {"connecting", "connected", "disconnected"},
             ConnectionStateOther(e, to)
      PROVE  Settling'
  <2> DEFINE c == [rtc[e] EXCEPT !.conn = to, !.retry = @ /\ to # "connecting"]
             p == [peer[e] EXCEPT !.recoverTimer = to = "disconnected"]
  <2>1. /\ rtc' = [rtc EXCEPT ![e] = c] /\ UNCHANGED inbox
        /\ peer' = [peer EXCEPT ![e] = Checked(p, c)]
    BY <1>3 DEF ConnectionStateOther
  <2>2. SameTalk(rtc[e], c)
    BY <1>1 DEF SameTalk, Alike, Connections
  <2>3. p \in Peers /\ SameTurn(peer[e], p)
    BY <1>1 DEF SameTurn, Peers
  <2> HIDE DEF c, p
  <2>4. SameTurn(peer[e], Checked(p, c))
    <3>1. SameTurn(p, Checked(p, c))
      BY <2>3, CheckedTurn
    <3> QED BY <2>3, <3>1, Zenon DEF SameTurn
  <2> QED BY <2>1, <2>2, <2>4, CalmEnd
<1> QED BY <1>2, <1>3

\* A recovery is a restart, of which the next offer tells, or the end.
LEMMA RecoverySettles ==
    ASSUME PInv, Settling, NEW e \in End, ConnectionFailed(e) \/ RecoverTimeout(e),
           Live(e)'
    PROVE  Settling'
<1>1. rtc[e] \in Connections /\ peer[e] \in Peers
  BY DEF PInv
<1>2. ASSUME NEW c, c \in Connections, SameTalk(rtc[e], c), Recover(e, c)
      PROVE  Settling'
  <2> DEFINE p == [peer[e] EXCEPT !.restarted = TRUE, !.recoverTimer = TRUE]
             k == [c EXCEPT !.fresh = TRUE]
  <2>1. ~Destroy(e)
    <3>1. ASSUME Destroy(e) PROVE FALSE
      <4>1. peer'[e] = Destroyed(peer[e])
        BY <3>1 DEF Destroy, PInv
      <4> QED BY <1>1, <4>1, NewEnd DEF Live
    <3> QED BY <3>1
  <2>2. /\ peer' = [peer EXCEPT ![e] = p] /\ rtc' = [rtc EXCEPT ![e] = k]
        /\ UNCHANGED inbox
    BY <1>2, <2>1 DEF Recover
  <2>3. SameTurn(peer[e], p)
    BY <1>1 DEF SameTurn, Peers
  <2>4. SameTalk(rtc[e], k)
    BY <1>1, <1>2 DEF SameTalk, Alike, Connections
  <2> HIDE DEF p, k
  <2> QED BY <2>2, <2>3, <2>4, CalmEnd
<1>3. CASE ConnectionFailed(e)
  <2> DEFINE c == [rtc[e] EXCEPT !.conn = "failed"]
  <2>1. c \in Connections /\ SameTalk(rtc[e], c)
    BY <1>1 DEF SameTalk, Alike, Connections
  <2>2. Recover(e, c)
    BY <1>3 DEF ConnectionFailed
  <2> HIDE DEF c
  <2> QED BY <1>2, <2>1, <2>2
<1>4. SameTalk(rtc[e], rtc[e])
  BY DEF SameTalk, Alike
<1>5. CASE RecoverTimeout(e)
  <2>1. CASE rtc[e].conn = "connected"
    <3> DEFINE p == [peer[e] EXCEPT !.recoverTimer = FALSE]
    <3>1. /\ peer' = [peer EXCEPT ![e] = p] /\ rtc' = [rtc EXCEPT ![e] = rtc[e]]
          /\ UNCHANGED inbox
      BY <1>5, <2>1 DEF RecoverTimeout, PInv
    <3>2. SameTurn(peer[e], p)
      BY <1>1 DEF SameTurn, Peers
    <3> QED BY <1>4, <3>1, <3>2, CalmEnd
  <2>2. CASE rtc[e].conn # "connected"
    <3>1. Recover(e, rtc[e])
      BY <1>5, <2>2 DEF RecoverTimeout
    <3> QED BY <1>1, <1>2, <1>4, <3>1
  <2> QED BY <2>1, <2>2
<1> QED BY <1>3, <1>5

LEMMA StillSettles ==
    ASSUME PInv, Settling
    PROVE  /\ GoesDown \/ ComesBack \/ UNCHANGED vars => Settling'
           /\ \A e \in End : \A t : AddTrack(e, t) \/ RemoveTrack(e, t) => Settling'
<1>1. ASSUME UNCHANGED <<peer, rtc, inbox>> PROVE Settling'
  BY <1>1, Calm DEF SameTalk, SameTurn, Alike
<1>2. ASSUME NEW e \in End, NEW t, AddTrack(e, t) \/ RemoveTrack(e, t)
      PROVE  Settling'
  <2>1. PICK tracks : rtc' = [rtc EXCEPT ![e].tracks = tracks]
    BY <1>2 DEF AddTrack, RemoveTrack
  <2> DEFINE c == [rtc[e] EXCEPT !.tracks = tracks]
  <2>2. rtc' = [rtc EXCEPT ![e] = c] /\ SameTalk(rtc[e], c)
    BY <2>1 DEF PInv, SameTalk, Alike, Connections
  <2>3. peer' = [peer EXCEPT ![e] = peer[e]] /\ UNCHANGED inbox
    BY <1>2 DEF AddTrack, RemoveTrack, PInv
  <2>4. SameTurn(peer[e], peer[e])
    BY DEF SameTurn
  <2> HIDE DEF c
  <2> QED BY <2>2, <2>3, <2>4, CalmEnd
<1> QED BY <1>1, <1>2 DEF GoesDown, ComesBack, vars, network

-----------------------------------------------------------------------------
(* Signals that are taken.                                                  *)

\* Nothing an end does disturbs what it sees of the other end.
LEMMA OtherEnd ==
    ASSUME PInv, NEW e \in End, NEW d \in End, d # e,
           peer' = [peer EXCEPT ![e] = peer'[e]], inbox'[d] = inbox[d]
    PROVE  peer'[d] = peer[d] /\ Queue(d)' = Queue(d)
<1>1. peer'[d] = peer[d]
  BY DEF PInv
<1> QED BY <1>1 DEF Queue

\* What is needed of a step of e that leaves the handling of the other alone.
LEMMA Settles ==
    ASSUME PInv, NEW e \in End, NEW c, rtc' = [rtc EXCEPT ![e] = c],
           Met(rtc'[Polite], rtc'[Impolite], Queue(Polite)', Queue(Impolite)',
               peer'[Impolite].making),
           Ices(c, Queue(e)'), Ices(rtc[Other(e)], Queue(Other(e))'),
           peer'[Impolite].handling.step = "remote"
           /\ peer'[Impolite].handling.signal.type = "offer" =>
              rtc'[Impolite].signaling = "stable" /\ ~peer'[Impolite].making
    PROVE  Settling'
<1>1. rtc'[e] = c /\ rtc'[Other(e)] = rtc[Other(e)]
  BY Ends DEF PInv
<1>2. ASSUME NEW d \in End PROVE Ices(rtc'[d], Queue(d)')
  <2>1. d = e \/ d = Other(e)
    BY Ends
  <2> QED BY <1>1, <2>1
<1> QED BY <1>2 DEF Settling

LEMMA CandidateSettles ==
    ASSUME PInv, Settling, NEW e \in End, ReceiveCandidate(e) PROVE Settling'
<1> DEFINE q == inbox[e]
           h == Head(q)
           c == rtc'[e]
<1>1. /\ peer[e].handling = Idle /\ q # <<>> /\ q \in Seq(Signals)
      /\ h \in Candidates /\ inbox' = [inbox EXCEPT ![e] = Tail(q)]
  <2>1. h \in Signals /\ h.type = "candidate"
    BY TakesSignal DEF ReceiveCandidate
  <2> QED BY <2>1 DEF ReceiveCandidate, PInv, Signals, Offers
<1>2. peer[e] \in Peers /\ rtc[e] \in Connections
  BY DEF PInv
<1>3. /\ peer' = [peer EXCEPT ![e] = peer'[e]]
      /\ peer'[e].handling = Idle /\ peer'[e].making = peer[e].making
  BY <1>1, <1>2 DEF ReceiveCandidate, PInv, Peers
<1>4. /\ rtc' = [rtc EXCEPT ![e] = c] /\ Alike(rtc[e], c)
      /\ c.ice = rtc[e].ice /\ c.fresh = rtc[e].fresh
      /\ c.candidate = IF /\ rtc[e].remote # NoDescription
                          /\ h.ice = rtc[e].remote.ice
                       THEN h.ice ELSE rtc[e].candidate
  BY <1>2 DEF ReceiveCandidate, PInv, Connections, Alike
<1>5. Queue(e) = q /\ Queue(e)' = Tail(q)
  BY <1>1, <1>3 DEF Queue, Idle, PInv
<1>6. /\ peer'[Other(e)] = peer[Other(e)] /\ Queue(Other(e))' = Queue(Other(e))
      /\ rtc'[Other(e)] = rtc[Other(e)]
  <2>1. inbox'[Other(e)] = inbox[Other(e)] /\ rtc'[Other(e)] = rtc[Other(e)]
    BY <1>1, <1>4, Ends DEF PInv
  <2> QED BY <1>3, <2>1, Ends, OtherEnd
<1> HIDE DEF q, h, c
<1>7. Ices(c, Tail(q))
  <2>1. Ices(rtc[e], q)
    BY <1>5 DEF Settling
  <2>2. c.candidate = c.remote.ice \/ CandidateIn(Tail(q), c.remote.ice)
    <3>1. /\ c.remote = rtc[e].remote
          /\ rtc[e].candidate = rtc[e].remote.ice \/ CandidateIn(q, rtc[e].remote.ice)
      BY <1>4, <2>1 DEF Ices, Alike
    <3>2. CASE rtc[e].candidate = rtc[e].remote.ice
      BY <1>4, <3>1, <3>2
    <3>3. CASE CandidateIn(q, rtc[e].remote.ice)
      <4>1. \/ CandidateIn(Tail(q), rtc[e].remote.ice)
            \/ h.ice = rtc[e].remote.ice
        BY <1>1, <3>3, TailHas DEF h
      <4>2. h.ice # 0 /\ NoDescription.ice = 0
        BY <1>1 DEF Candidates, NoDescription
      <4>3. CASE h.ice = rtc[e].remote.ice
        BY <1>4, <3>1, <4>2, <4>3
      <4> QED BY <3>1, <4>1, <4>3
    <3> QED BY <3>1, <3>2, <3>3
  <2> QED BY <1>4, <2>1, <2>2 DEF Ices, Alike, HasLocal
<1>8. Ices(rtc[Other(e)], Queue(Other(e))')
  BY <1>6, Ends DEF Settling
<1>9. Met(rtc'[Polite], rtc'[Impolite], Queue(Polite)', Queue(Impolite)',
          peer'[Impolite].making)
  <2>1. /\ Queue(Polite) \in Seq(Signals) /\ Queue(Impolite) \in Seq(Signals)
        /\ h.type = "candidate"
    BY <1>1, QueueIs, Ends DEF Candidates
  <2>2. Met(rtc[Polite], rtc[Impolite], Queue(Polite)', Queue(Impolite)',
            peer[Impolite].making)
    <3>1. Met(rtc[Polite], rtc[Impolite], Queue(Polite), Queue(Impolite),
              peer[Impolite].making)
      BY DEF Settling
    <3>2. q # <<>> /\ Head(q).type = "candidate"
      BY <1>1, <2>1 DEF h
    <3>3. CASE e = Polite /\ Other(e) = Impolite
      <4>1. Met(rtc[Polite], rtc[Impolite], Tail(q), Queue(Impolite),
                peer[Impolite].making)
        BY <1>5, <2>1, <3>1, <3>2, <3>3, MetTakesCandidate
      <4> QED BY <1>5, <1>6, <3>3, <4>1
    <3>4. CASE e = Impolite /\ Other(e) = Polite
      <4>1. Met(rtc[Polite], rtc[Impolite], Queue(Polite), Tail(q),
                peer[Impolite].making)
        BY <1>5, <2>1, <3>1, <3>2, <3>4, MetTakesCandidate
      <4> QED BY <1>5, <1>6, <3>4, <4>1
    <3> QED BY <3>3, <3>4, Ends
  <2>3. \A d \in End : Alike(rtc[d], rtc'[d]) /\ peer'[d].making = peer[d].making
    BY <1>3, <1>4, <1>6, Ends DEF Alike, c
  <2> QED BY <2>2, <2>3, Ends, MetAlike
<1>10. peer'[Impolite].handling.step = "remote"
       /\ peer'[Impolite].handling.signal.type = "offer" =>
          rtc'[Impolite].signaling = "stable" /\ ~peer'[Impolite].making
  BY <1>3, <1>6, Ends DEF Idle, Settling
<1> QED BY <1>4, <1>5, <1>7, <1>8, <1>9, <1>10, Settles

LEMMA DescriptionSettles ==
    ASSUME PInv, Settling, NEW e \in End, ReceiveDescription(e) PROVE Settling'
<1> DEFINE q == inbox[e]
           h == Head(q)
           ignored == IgnoresOffer(e, h.type)
<1>1. /\ peer[e].handling = Idle /\ q # <<>> /\ q \in Seq(Signals)
      /\ h \in Offers /\ inbox' = [inbox EXCEPT ![e] = Tail(q)] /\ rtc' = rtc
  <2>1. h \in Signals /\ h.type # "candidate"
    BY TakesSignal DEF ReceiveDescription
  <2> QED BY <2>1 DEF ReceiveDescription, PInv, Signals, Candidates
<1>2. peer[e] \in Peers
  BY DEF PInv
<1>3. /\ peer' = [peer EXCEPT ![e] = peer'[e]] /\ peer'[e].making = peer[e].making
      /\ peer'[e].handling = IF ignored THEN Idle
                             ELSE [step |-> "remote", signal |-> h]
  BY <1>1, <1>2 DEF ReceiveDescription, PInv, Peers
<1>4. Queue(e) = q
  BY <1>1 DEF Queue, Idle
<1>5. inbox'[e] = Tail(q)
  BY <1>1 DEF PInv
<1>6. peer'[Other(e)] = peer[Other(e)] /\ Queue(Other(e))' = Queue(Other(e))
  <2>1. inbox'[Other(e)] = inbox[Other(e)]
    BY <1>1, Ends DEF PInv
  <2> QED BY <1>3, <2>1, Ends, OtherEnd
<1>7. /\ rtc' = [rtc EXCEPT ![e] = rtc[e]] /\ Ices(rtc[Other(e)], Queue(Other(e))')
      /\ Ices(rtc[e], q)
      /\ Met(rtc[Polite], rtc[Impolite], Queue(Polite), Queue(Impolite),
             peer[Impolite].making)
  BY <1>1, <1>4, <1>6, Ends DEF Settling, PInv
<1>8. peer'[Impolite].making = peer[Impolite].making
  BY <1>3, <1>6, Ends
<1>9. CASE ~ignored
  <2>1. Queue(e)' = Queue(e)
    <3>1. <<h>> \o Tail(q) = q
      BY <1>1
    <3>2. Queue(e)' = <<h>> \o Tail(q)
      <4> HIDE DEF h, q
      <4> QED BY <1>3, <1>5, <1>9 DEF Queue
    <3> QED BY <1>4, <3>1, <3>2
  <2>2. Met(rtc'[Polite], rtc'[Impolite], Queue(Polite)', Queue(Impolite)',
            peer'[Impolite].making)
    BY <1>1, <1>6, <1>7, <1>8, <2>1, Ends
  <2>3. peer'[Impolite].handling.step = "remote"
        /\ peer'[Impolite].handling.signal.type = "offer" =>
           rtc'[Impolite].signaling = "stable" /\ ~peer'[Impolite].making
    <3>1. CASE e = Impolite
      <4>1. peer'[e].handling.signal = h
        BY <1>3, <1>9
      <4> HIDE DEF h
      <4> QED BY <1>1, <1>3, <1>9, <3>1, <4>1 DEF IgnoresOffer
    <3>2. CASE e # Impolite
      BY <1>1, <1>6, <3>2, Ends DEF Settling
    <3> QED BY <3>1, <3>2
  <2> QED BY <1>4, <1>7, <2>1, <2>2, <2>3, Settles
<1>10. CASE ignored
  <2>1. /\ h.type = "offer" /\ e = Impolite
        /\ peer[Impolite].making \/ HasLocal(rtc[Impolite])
    <3>1. EndOK(peer[e], rtc[e])
      BY DEF PInv
    <3>2. rtc[e].signaling # "have-remote-offer"
      BY <1>1, <3>1 DEF EndOK, Idle
    <3> QED BY <1>10, <3>1, <3>2 DEF IgnoresOffer, HasLocal, EndOK, Connections
  <2>2. Queue(e)' = Tail(q)
    BY <1>3, <1>5, <1>10 DEF Queue, Idle
  <2>3. Queue(Polite) \in Seq(Signals)
    BY QueueIs, Ends
  <2> HIDE DEF q, h, ignored
  <2>4. Met(rtc'[Polite], rtc'[Impolite], Queue(Polite)', Queue(Impolite)',
            peer'[Impolite].making)
    <3>1. Met(rtc[Polite], rtc[Impolite], Queue(Polite), Tail(q), peer[Impolite].making)
      BY <1>1, <1>4, <1>7, <2>1, <2>3, MetIgnores DEF h
    <3> QED BY <1>1, <1>6, <1>8, <2>1, <2>2, <3>1, Ends
  <2>5. Ices(rtc[e], Tail(q))
    <3>1. \A n : CandidateIn(q, n) => CandidateIn(Tail(q), n)
      BY <1>1, <2>1, TailHas DEF h
    <3> QED BY <1>7, <3>1 DEF Ices
  <2>6. peer'[Impolite].handling.step # "remote"
    BY <1>3, <1>10, <2>1 DEF Idle
  <2> QED BY <1>7, <2>2, <2>4, <2>5, <2>6, Settles
<1> QED BY <1>9, <1>10

\* What is taken is no candidate.
LEMMA IcesTaken ==
    ASSUME NEW q \in Seq(Signals), q # <<>>, Head(q).type # "candidate",
           NEW k, NEW c, Ices(k, q),
           c.remote.ice = k.remote.ice \/ CandidateIn(Tail(q), c.remote.ice),
           c.candidate = c.remote.ice \/ c.candidate = k.candidate,
           ~c.fresh => c.ice = IF HasLocal(c) THEN c.offer.ice ELSE c.local.ice
    PROVE  Ices(c, Tail(q))
<1>1. CandidateIn(q, k.remote.ice) => CandidateIn(Tail(q), k.remote.ice)
  BY TailHas
<1>2. c.candidate = c.remote.ice \/ CandidateIn(Tail(q), c.remote.ice)
  BY <1>1 DEF Ices
<1> QED BY <1>2 DEF Ices

LEMMA RemoteSettles ==
    ASSUME PInv, Settling, NEW e \in End, RemoteSet(e) PROVE Settling'
<1> DEFINE m == peer[e].handling.signal
           d == m.description
           k == rtc[e]
           c == rtc'[e]
           q == Queue(e)
<1>1. /\ EndOK(peer[e], k) /\ peer[e].handling.step = "remote" /\ ~peer[e].making
      /\ UNCHANGED inbox /\ peer[e] \in Peers /\ k \in Connections
  BY DEF PInv, RemoteSet
<1>2. /\ m \in Offers /\ q \in Seq(Signals) /\ q # <<>> /\ Head(q) = m
      /\ Tail(q) = inbox[e]
  BY <1>1, QueueIs
<1>3. m.type \in {"offer", "answer"} /\ d \in Description
  BY <1>2 DEF Offers
<1>4. /\ Met(rtc[Polite], rtc[Impolite], Queue(Polite), Queue(Impolite),
             peer[Impolite].making)
      /\ Ices(k, q) /\ Ices(rtc[Other(e)], Queue(Other(e)))
  BY Ends DEF Settling
<1>5. Has(q, m.type)
  BY <1>2, TailHas
<1>6. m.type = "answer" => HasLocal(k)
  <2>1. CASE e = Polite
    BY <1>4, <1>5, <2>1 DEF Met
  <2>2. CASE e = Impolite
    BY <1>4, <1>5, <2>2 DEF Met
  <2> QED BY <2>1, <2>2, Ends
<1>7. /\ rtc' = [rtc EXCEPT ![e] = c] /\ peer' = [peer EXCEPT ![e] = peer'[e]]
      /\ peer'[e].making = peer[e].making
      /\ peer'[e].handling.step # "remote"
      /\ c.remote = d /\ c.offer = k.offer /\ c.ice = k.ice
      /\ c.candidate = d.ice \/ c.candidate = k.candidate
      /\ \/ /\ m.type = "offer" /\ c.signaling = "have-remote-offer"
            /\ c.local = k.local
            /\ ~c.fresh => /\ ~k.fresh
                           /\ HasLocal(k) => k.offer.ice = k.local.ice
         \/ /\ m.type = "answer" /\ c.signaling = "stable"
            /\ c.local = k.offer /\ c.fresh = k.fresh
  <2> DEFINE n == [k EXCEPT !.remote = d,
                    !.candidate = IF d.ice \in peer[e].pending THEN d.ice ELSE @,
                    !.retry = d.ice # k.remote.ice]
             rolledBack == k.signaling = "have-local-offer" /\ k.offer.ice # k.local.ice
             restart == k.remote # NoDescription /\ d.ice # k.remote.ice
             c1 == [n EXCEPT !.signaling = "have-remote-offer",
                             !.fresh = @ \/ rolledBack \/ restart]
             c2 == [n EXCEPT !.signaling = "stable", !.local = k.offer]
             p1 == [peer[e] EXCEPT !.pending = {}, !.handling = [step |-> "answer"]]
             p2 == [peer[e] EXCEPT !.pending = {}, !.handling = Idle]
  <2>1. \/ /\ m.type = "offer"
           /\ peer' = [peer EXCEPT ![e] = p1] /\ rtc' = [rtc EXCEPT ![e] = c1]
        \/ /\ m.type = "answer"
           /\ peer' = [peer EXCEPT ![e] = p2] /\ rtc' = [rtc EXCEPT ![e] = c2]
    BY <1>6 DEF RemoteSet, HasLocal
  <2>2. /\ p1.making = peer[e].making /\ p1.handling.step # "remote"
        /\ p2.making = peer[e].making /\ p2.handling.step # "remote"
    BY <1>1 DEF Peers, Idle
  <2>3. /\ DOMAIN n = DOMAIN k
        /\ n.remote = d /\ n.offer = k.offer /\ n.ice = k.ice /\ n.fresh = k.fresh
        /\ n.local = k.local
        /\ n.candidate = d.ice \/ n.candidate = k.candidate
    BY <1>1 DEF Connections
  <2>4. DOMAIN k = {"signaling", "conn", "open", "tracks", "local", "offer",
                    "remote", "candidate", "ice", "fresh", "retry"}
    BY <1>1 DEF Connections
  <2> HIDE DEF n, k, d, m
  <2>5. /\ c1.signaling = "have-remote-offer"
        /\ c1.fresh = (n.fresh \/ rolledBack \/ restart)
        /\ c1.remote = n.remote /\ c1.offer = n.offer /\ c1.ice = n.ice
        /\ c1.local = n.local /\ c1.candidate = n.candidate
    BY <2>3, <2>4
  <2>6. /\ c2.signaling = "stable" /\ c2.fresh = n.fresh
        /\ c2.remote = n.remote /\ c2.offer = n.offer /\ c2.ice = n.ice
        /\ c2.local = k.offer /\ c2.candidate = n.candidate
    BY <2>3, <2>4
  <2>7. ~c1.fresh => /\ ~k.fresh
                     /\ HasLocal(k) => k.offer.ice = k.local.ice
    BY <2>3, <2>5 DEF HasLocal
  <2> HIDE DEF c1, c2, p1, p2, c
  <2>8. CASE /\ m.type = "offer"
             /\ peer' = [peer EXCEPT ![e] = p1] /\ rtc' = [rtc EXCEPT ![e] = c1]
    <3>1. c = c1 /\ peer'[e] = p1
      BY <2>8 DEF PInv, c
    <3>2. peer' = [peer EXCEPT ![e] = peer'[e]] /\ rtc' = [rtc EXCEPT ![e] = c]
      BY <2>8, <3>1
    <3>3. /\ c.remote = d /\ c.offer = k.offer /\ c.ice = k.ice
          /\ c.local = k.local /\ c.signaling = "have-remote-offer"
          /\ c.candidate = d.ice \/ c.candidate = k.candidate
      BY <2>3, <2>5, <3>1
    <3> QED BY <2>2, <2>7, <2>8, <3>1, <3>2, <3>3
  <2>9. CASE /\ m.type = "answer"
             /\ peer' = [peer EXCEPT ![e] = p2] /\ rtc' = [rtc EXCEPT ![e] = c2]
    <3>1. c = c2 /\ peer'[e] = p2
      BY <2>9 DEF PInv, c
    <3> QED BY <2>2, <2>3, <2>6, <2>9, <3>1
  <2> QED BY <2>1, <2>8, <2>9
<1>8. Queue(e)' = Tail(q)
  BY <1>1, <1>2, <1>7 DEF Queue
<1>9. /\ peer'[Other(e)] = peer[Other(e)] /\ Queue(Other(e))' = Queue(Other(e))
      /\ rtc'[Other(e)] = rtc[Other(e)]
  <2>1. inbox'[Other(e)] = inbox[Other(e)] /\ rtc'[Other(e)] = rtc[Other(e)]
    BY <1>1, <1>7, Ends DEF PInv
  <2> QED BY <1>7, <2>1, Ends, OtherEnd
<1>10. /\ peer'[Impolite].making = peer[Impolite].making
       /\ Queue(Other(e)) \in Seq(Signals)
  BY <1>7, <1>9, Ends, QueueIs
<1>11. e = Impolite /\ m.type = "offer" => k.signaling = "stable"
  BY <1>1 DEF Settling
<1>12. peer'[Impolite].handling.step = "remote"
       /\ peer'[Impolite].handling.signal.type = "offer" =>
          rtc'[Impolite].signaling = "stable" /\ ~peer'[Impolite].making
  BY <1>7, <1>9, Ends DEF Settling
<1> HIDE DEF m, d, k, c, q
<1>13. /\ Met(rtc'[Polite], rtc'[Impolite], Queue(Polite)', Queue(Impolite)',
              peer'[Impolite].making)
       /\ c.remote.ice = k.remote.ice \/ CandidateIn(Tail(q), c.remote.ice)
  <2>1. CASE e = Polite /\ Other(e) = Impolite
    <3>0. Queue(Impolite) \in Seq(Signals)
      BY <1>10, <2>1
    <3>1. Met(k, rtc[Impolite], q, Queue(Impolite), peer[Impolite].making)
      BY <1>4, <2>1 DEF k, q
    <3>2. /\ Met(c, rtc[Impolite], Tail(q), Queue(Impolite), peer[Impolite].making)
          /\ c.remote.ice = k.remote.ice \/ CandidateIn(Tail(q), c.remote.ice)
      <4>1. CASE m.type = "offer"
        <5>1. /\ HasRemote(c) /\ c.remote = Head(q).description
              /\ c.offer = k.offer /\ c.local = k.local /\ Head(q).type = "offer"
          BY <1>2, <1>7, <4>1 DEF HasRemote, d
        <5> QED BY <1>2, <3>0, <3>1, <5>1, PoliteTakesOffer
      <4>2. CASE m.type = "answer"
        <5>1. /\ c.signaling = "stable" /\ c.remote = Head(q).description
              /\ c.offer = k.offer /\ c.local = k.offer /\ Head(q).type = "answer"
          BY <1>2, <1>7, <4>2 DEF d
        <5> QED BY <1>2, <3>0, <3>1, <5>1, PoliteTakesAnswer
      <4> QED BY <1>3, <4>1, <4>2
    <3>3. rtc'[Polite] = c
      BY <2>1 DEF c
    <3> QED BY <1>8, <1>9, <1>10, <2>1, <3>2, <3>3
  <2>2. CASE e = Impolite /\ Other(e) = Polite
    <3>0. Queue(Polite) \in Seq(Signals)
      BY <1>10, <2>2
    <3>1. Met(rtc[Polite], k, Queue(Polite), q, peer[Impolite].making)
      BY <1>4, <2>2 DEF k, q
    <3>2. /\ Met(rtc[Polite], c, Queue(Polite), Tail(q), peer[Impolite].making)
          /\ c.remote.ice = k.remote.ice \/ CandidateIn(Tail(q), c.remote.ice)
      <4>1. CASE m.type = "offer"
        <5>1. /\ HasRemote(c) /\ c.remote = Head(q).description
              /\ c.offer = k.offer /\ c.local = k.local /\ Head(q).type = "offer"
          BY <1>2, <1>7, <4>1 DEF HasRemote, d
        <5> QED BY <1>2, <1>11, <2>2, <4>1, <3>0, <3>1, <5>1, ImpoliteTakesOffer
      <4>2. CASE m.type = "answer"
        <5>1. /\ c.signaling = "stable" /\ c.remote = Head(q).description
              /\ c.offer = k.offer /\ c.local = k.offer /\ Head(q).type = "answer"
          BY <1>2, <1>7, <4>2 DEF d
        <5> QED BY <1>2, <3>0, <3>1, <5>1, ImpoliteTakesAnswer
      <4> QED BY <1>3, <4>1, <4>2
    <3>3. rtc'[Impolite] = c
      BY <2>2 DEF c
    <3> QED BY <1>8, <1>9, <1>10, <2>2, <3>2, <3>3
  <2> QED BY <2>1, <2>2, Ends
<1>14. ~c.fresh => c.ice = IF HasLocal(c) THEN c.offer.ice ELSE c.local.ice
  <2>1. ~HasLocal(c)
    BY <1>7 DEF HasLocal
  <2>2. ~k.fresh => k.ice = IF HasLocal(k) THEN k.offer.ice ELSE k.local.ice
    BY <1>4 DEF Ices
  <2> QED BY <1>6, <1>7, <2>1, <2>2
<1>15. Ices(c, Tail(q))
  <2>1. m.type # "candidate"
    BY <1>3
  <2> QED BY <1>2, <1>4, <1>7, <1>13, <1>14, <2>1, IcesTaken
<1>16. Ices(rtc[Other(e)], Queue(Other(e))')
  BY <1>4, <1>9
<1> QED BY <1>7, <1>8, <1>12, <1>13, <1>15, <1>16, Settles

-----------------------------------------------------------------------------
(* Signals that are sent.                                                   *)

\* End e has the description s of a type set as its local one, which makes its
\* connection c, and has sent it, and its candidate k if f.
Described(e, type, s, f, k, c) ==
    /\ s.type = type
    /\ f => k \in Candidates /\ k.ice = s.description.ice
    /\ f \/ s.description.ice = rtc[e].local.ice
    /\ rtc' = [rtc EXCEPT ![e] = c]
    /\ inbox'[e] = inbox[e]
    /\ Queue(Other(e))' = Sent(Queue(Other(e)), s, f, k)
    /\ c.remote = rtc[e].remote /\ c.candidate = rtc[e].candidate
    /\ c.ice = s.description.ice
    /\ type = "offer" => /\ HasLocal(c) /\ c.offer = s.description
                         /\ c.local = rtc[e].local
    /\ type = "answer" => /\ c.signaling = "stable"
                          /\ c.local = s.description

LEMMA HeadStays ==
    ASSUME NEW h \in Signals, NEW q \in Seq(Signals), NEW s \in Seq(Signals)
    PROVE  (<<h>> \o q) \o s = <<h>> \o (q \o s)
<1> DEFINE t == <<h>>
<1>1. t \in Seq(Signals)
  OBVIOUS
<1> HIDE DEF t
<1>2. (t \o q) \o s = t \o (q \o s)
  BY <1>1, ConcatAssociative
<1> QED BY <1>2 DEF t

LEMMA LocalIs ==
    ASSUME PInv, Settling, NEW e \in End, NEW type \in {"offer", "answer"},
           NEW tracks \in SUBSET Track, SetLocal(e, type, tracks),
           ~HasLocal(rtc[e]), Live(Other(e)), UNCHANGED network,
           peer' = [peer EXCEPT ![e] = peer'[e]]
    PROVE  \E s \in Offers : \E f \in BOOLEAN : \E k, c : Described(e, type, s, f, k, c)
<1> DEFINE r == rtc[e]
           o == Other(e)
           ice == IF r.fresh THEN r.ice + 1 ELSE r.ice
           d == [tracks |-> tracks, ice |-> ice]
           s == [type |-> type, description |-> d]
           f == r.fresh
           k == [type |-> "candidate", ice |-> ice]
           n == [r EXCEPT !.ice = ice, !.fresh = FALSE]
           c == IF type = "offer"
                THEN [n EXCEPT !.signaling = "have-local-offer", !.offer = d]
                ELSE [n EXCEPT !.signaling = "stable", !.local = d]
           new == <<s>> \o IF f THEN <<k>> ELSE <<>>
<1>1. r \in Connections /\ f \in BOOLEAN /\ r.ice \in Nat
  BY DEF PInv, Connections
<1>2. ice \in Nat /\ (f => ice \in Nat \ {0})
  BY <1>1
<1>3. rtc' = [rtc EXCEPT ![e] = c] /\ inbox' = [inbox EXCEPT ![o] = inbox[o] \o new]
  <2>1. rtc' = [rtc EXCEPT ![e] = c] /\ Signal(e, new)
    BY DEF SetLocal
  <2> HIDE DEF new, c
  <2> QED BY <2>1 DEF Signal
<1>4. o \in End /\ o # e
  BY Ends
<1>5. f \/ ice = r.local.ice
  BY DEF Settling, Ices
<1>6. DOMAIN r = {"signaling", "conn", "open", "tracks", "local", "offer",
                  "remote", "candidate", "ice", "fresh", "retry"}
  BY <1>1 DEF Connections
<1> HIDE DEF r, o, ice, f
<1>7. s \in Offers /\ s.type = type /\ s.description = d /\ d.ice = ice
  BY <1>2 DEF Offers, Description
<1>8. f => k \in Candidates /\ k.ice = ice
  BY <1>2 DEF Candidates
<1> HIDE DEF s, k, d
<1>9. /\ c.remote = r.remote /\ c.candidate = r.candidate /\ c.ice = ice
      /\ type = "offer" => /\ c.signaling = "have-local-offer" /\ c.offer = d
                           /\ c.local = r.local
      /\ type = "answer" => c.signaling = "stable" /\ c.local = d
  BY <1>6
<1> HIDE DEF c
<1>10. new \in Seq(Signals)
  <2>1. s \in Signals /\ (f => k \in Signals)
    BY <1>7, <1>8 DEF Signals
  <2> QED BY <2>1, ConcatProperties
<1>11. inbox[o] \in Seq(Signals) /\ inbox'[o] = inbox[o] \o new /\ inbox'[e] = inbox[e]
  <2> HIDE DEF new
  <2> QED BY <1>3, <1>4 DEF PInv
<1>12. peer'[o] = peer[o] /\ peer[o] \in Peers
  BY <1>4 DEF PInv
<1>13. Queue(o)' = Queue(o) \o new
  <2> HIDE DEF new
  <2>1. CASE peer[o].handling.step = "remote"
    <3> DEFINE h == peer[o].handling.signal
    <3>1. h \in Signals
      BY <1>12, <2>1, StepOfHandling DEF Signals, Peers
    <3>2. Queue(o) = <<h>> \o inbox[o] /\ Queue(o)' = <<h>> \o (inbox[o] \o new)
      BY <1>11, <1>12, <2>1 DEF Queue
    <3> HIDE DEF h
    <3>3. (<<h>> \o inbox[o]) \o new = <<h>> \o (inbox[o] \o new)
      BY <1>10, <1>11, <3>1, HeadStays
    <3> QED BY <3>2, <3>3
  <2>2. CASE peer[o].handling.step # "remote"
    BY <1>11, <1>12, <2>2 DEF Queue
  <2> QED BY <2>1, <2>2
<1>14. Queue(o)' = Sent(Queue(o), s, f, k)
  BY <1>13 DEF Sent, new
<1> HIDE DEF new
<1>15. type = "offer" => HasLocal(c)
  BY <1>9 DEF HasLocal
<1>16. Described(e, type, s, f, k, c)
  BY <1>3, <1>5, <1>7, <1>8, <1>9, <1>11, <1>14, <1>15 DEF Described, r, o
<1> QED BY <1>1, <1>7, <1>16 DEF f

LEMMA OfferSettles ==
    ASSUME PInv, Settling, NEW e \in End, OfferMade(e), Live(Other(e))
    PROVE  Settling'
<1> DEFINE o == Other(e)
<1>1. /\ EndOK(peer[e], rtc[e]) /\ peer[e].making /\ rtc[e].signaling = "stable"
      /\ peer[e] \in Peers /\ rtc[e] \in Connections
  BY DEF PInv, OfferMade, EndOK
<1>2. ~HasLocal(rtc[e]) /\ rtc[e].tracks \in SUBSET Track
  BY <1>1 DEF HasLocal, Connections
<1>3. /\ peer' = [peer EXCEPT ![e] = peer'[e]] /\ UNCHANGED network
      /\ peer'[e].handling = peer[e].handling
      /\ SetLocal(e, "offer", rtc[e].tracks)
  BY <1>1 DEF OfferMade, PInv, Peers
<1>a. PICK s \in Offers :
        \E f \in BOOLEAN : \E k, c : Described(e, "offer", s, f, k, c)
  BY <1>2, <1>3, LocalIs
<1>b. PICK f \in BOOLEAN : \E k, c : Described(e, "offer", s, f, k, c)
  BY <1>a
<1>0. PICK k, c : Described(e, "offer", s, f, k, c)
  BY <1>b
<1>4. /\ s.type = "offer"
      /\ f => k \in Candidates /\ k.ice = s.description.ice
      /\ f \/ s.description.ice = rtc[e].local.ice
      /\ rtc' = [rtc EXCEPT ![e] = c]
      /\ inbox'[e] = inbox[e]
      /\ Queue(o)' = Sent(Queue(o), s, f, k)
      /\ c.remote = rtc[e].remote /\ c.candidate = rtc[e].candidate
      /\ c.ice = s.description.ice
      /\ HasLocal(c) /\ c.offer = s.description /\ c.local = rtc[e].local
  BY <1>0 DEF Described
<1>5. /\ o \in End /\ o # e /\ rtc'[o] = rtc[o] /\ rtc'[e] = c /\ peer'[o] = peer[o]
  BY <1>3, <1>4, Ends DEF PInv
<1>6. Queue(e)' = Queue(e)
  BY <1>3, <1>4 DEF Queue
<1>7. /\ Met(rtc[Polite], rtc[Impolite], Queue(Polite), Queue(Impolite),
             peer[Impolite].making)
      /\ Ices(rtc[e], Queue(e)) /\ Ices(rtc[o], Queue(o))
      /\ Queue(e) \in Seq(Signals) /\ Queue(o) \in Seq(Signals)
  BY <1>5, QueueIs DEF Settling
<1>8. Met(rtc'[Polite], rtc'[Impolite], Queue(Polite)', Queue(Impolite)',
          peer'[Impolite].making)
  <2>1. CASE e = Polite /\ o = Impolite
    <3>1. /\ rtc[Polite].signaling = "stable" /\ c.local = rtc[Polite].local
          /\ f \/ s.description.ice = rtc[Polite].local.ice
          /\ c.remote = rtc[Polite].remote
          /\ Queue(Polite) \in Seq(Signals) /\ Queue(Impolite) \in Seq(Signals)
      BY <1>1, <1>4, <1>7, <2>1
    <3>2. Met(c, rtc[Impolite], Queue(Polite), Sent(Queue(Impolite), s, f, k),
              peer[Impolite].making)
      BY <1>4, <1>7, <3>1, PoliteOffers
    <3> QED BY <1>4, <1>5, <1>6, <2>1, <3>2
  <2>2. CASE e = Impolite /\ o = Polite
    <3>1. /\ rtc[Impolite].signaling = "stable" /\ c.local = rtc[Impolite].local
          /\ f \/ s.description.ice = rtc[Impolite].local.ice
          /\ c.remote = rtc[Impolite].remote
          /\ Queue(Polite) \in Seq(Signals) /\ Queue(Impolite) \in Seq(Signals)
      BY <1>1, <1>4, <1>7, <2>2
    <3>2. Met(rtc[Polite], c, Sent(Queue(Polite), s, f, k), Queue(Impolite),
              peer'[Impolite].making)
      BY <1>4, <1>7, <3>1, ImpoliteOffers
    <3> QED BY <1>4, <1>5, <1>6, <2>2, <3>2
  <2> QED BY <2>1, <2>2, Ends
<1>9. Ices(c, Queue(e)')
  BY <1>4, <1>6, <1>7 DEF Ices
<1>10. Ices(rtc[Other(e)], Queue(Other(e))')
  <2>1. \A n : CandidateIn(Queue(o), n) => CandidateIn(Sent(Queue(o), s, f, k), n)
    BY <1>4, <1>7, SentHas
  <2> QED BY <1>4, <1>7, <2>1 DEF Ices
<1>11. peer'[Impolite].handling.step = "remote"
       /\ peer'[Impolite].handling.signal.type = "offer" =>
          rtc'[Impolite].signaling = "stable" /\ ~peer'[Impolite].making
  BY <1>1, <1>3, <1>5, Ends DEF Settling
<1> QED BY <1>4, <1>8, <1>9, <1>10, <1>11, Settles

LEMMA AnswerSettles ==
    ASSUME PInv, Settling, NEW e \in End, AnswerMade(e), Live(Other(e))
    PROVE  Settling'
<1> DEFINE o == Other(e)
<1>1. /\ EndOK(peer[e], rtc[e]) /\ peer[e].handling.step = "answer"
      /\ HasRemote(rtc[e]) /\ ~HasLocal(rtc[e])
      /\ peer[e] \in Peers /\ rtc[e] \in Connections
  BY DEF PInv, AnswerMade, EndOK, HasRemote, HasLocal
<1>2. /\ peer' = [peer EXCEPT ![e] = peer'[e]] /\ UNCHANGED network
      /\ peer'[e].handling = Idle /\ peer'[e].making = peer[e].making
  BY <1>1 DEF AnswerMade, PInv, Peers
<1>3. PICK tracks \in SUBSET Track : SetLocal(e, "answer", tracks)
  BY <1>1 DEF AnswerMade, Connections, Description
<1>a. PICK s \in Offers :
        \E f \in BOOLEAN : \E k, c : Described(e, "answer", s, f, k, c)
  <2>1. ~HasLocal(rtc[e]) /\ SetLocal(e, "answer", tracks)
    BY <1>1, <1>3
  <2>2. peer' = [peer EXCEPT ![e] = peer'[e]] /\ UNCHANGED network
    BY <1>2
  <2> QED BY <2>1, <2>2, LocalIs
<1>b. PICK f \in BOOLEAN : \E k, c : Described(e, "answer", s, f, k, c)
  BY <1>a
<1>0. PICK k, c : Described(e, "answer", s, f, k, c)
  BY <1>b
<1>4. /\ s.type = "answer"
      /\ f => k \in Candidates /\ k.ice = s.description.ice
      /\ f \/ s.description.ice = rtc[e].local.ice
      /\ rtc' = [rtc EXCEPT ![e] = c]
      /\ inbox'[e] = inbox[e]
      /\ Queue(o)' = Sent(Queue(o), s, f, k)
      /\ c.remote = rtc[e].remote /\ c.candidate = rtc[e].candidate
      /\ c.ice = s.description.ice
      /\ c.signaling = "stable" /\ c.local = s.description
  BY <1>0 DEF Described
<1>5. /\ o \in End /\ o # e /\ rtc'[o] = rtc[o] /\ rtc'[e] = c /\ peer'[o] = peer[o]
  BY <1>2, <1>4, Ends DEF PInv
<1>6. Queue(e)' = Queue(e)
  BY <1>1, <1>2, <1>4 DEF Queue, Idle
<1>7. /\ Met(rtc[Polite], rtc[Impolite], Queue(Polite), Queue(Impolite),
             peer[Impolite].making)
      /\ Ices(rtc[e], Queue(e)) /\ Ices(rtc[o], Queue(o))
      /\ Queue(e) \in Seq(Signals) /\ Queue(o) \in Seq(Signals)
  BY <1>5, QueueIs DEF Settling
<1>8. Met(rtc'[Polite], rtc'[Impolite], Queue(Polite)', Queue(Impolite)',
          peer'[Impolite].making)
  <2>1. CASE e = Polite /\ o = Impolite
    <3>1. /\ HasRemote(rtc[Polite])
          /\ f \/ s.description.ice = rtc[Polite].local.ice
          /\ c.remote = rtc[Polite].remote
          /\ Queue(Polite) \in Seq(Signals) /\ Queue(Impolite) \in Seq(Signals)
      BY <1>1, <1>4, <1>7, <2>1
    <3>2. Met(c, rtc[Impolite], Queue(Polite), Sent(Queue(Impolite), s, f, k),
              peer[Impolite].making)
      BY <1>4, <1>7, <3>1, PoliteAnswers
    <3> QED BY <1>4, <1>5, <1>6, <2>1, <3>2
  <2>2. CASE e = Impolite /\ o = Polite
    <3>1. /\ HasRemote(rtc[Impolite])
          /\ f \/ s.description.ice = rtc[Impolite].local.ice
          /\ c.remote = rtc[Impolite].remote
          /\ Queue(Polite) \in Seq(Signals) /\ Queue(Impolite) \in Seq(Signals)
      BY <1>1, <1>4, <1>7, <2>2
    <3>2. Met(rtc[Polite], c, Sent(Queue(Polite), s, f, k), Queue(Impolite),
              peer[Impolite].making)
      BY <1>4, <1>7, <3>1, ImpoliteAnswers
    <3> QED BY <1>2, <1>4, <1>5, <1>6, <2>2, <3>2
  <2> QED BY <2>1, <2>2, Ends
<1>9. Ices(c, Queue(e)')
  <2>1. ~HasLocal(c)
    BY <1>4 DEF HasLocal
  <2> QED BY <1>4, <1>6, <1>7, <2>1 DEF Ices
<1>10. Ices(rtc[Other(e)], Queue(Other(e))')
  <2>1. \A n : CandidateIn(Queue(o), n) => CandidateIn(Sent(Queue(o), s, f, k), n)
    BY <1>4, <1>7, SentHas
  <2> QED BY <1>4, <1>7, <2>1 DEF Ices
<1>11. peer'[Impolite].handling.step = "remote"
       /\ peer'[Impolite].handling.signal.type = "offer" =>
          rtc'[Impolite].signaling = "stable" /\ ~peer'[Impolite].making
  BY <1>2, <1>5, Ends DEF Settling, Idle
<1> QED BY <1>4, <1>8, <1>9, <1>10, <1>11, Settles

-----------------------------------------------------------------------------
(* The invariant is one: what breaks its premise breaks it for good.        *)

LEMMA DestroyEnds ==
    ASSUME PInv, NEW e \in End, Destroy(e)
    PROVE  ~Live(e)'
<1>1. peer[e] \in Peers /\ peer'[e] = Destroyed(peer[e])
  BY DEF PInv, Destroy
<1> QED BY <1>1, NewEnd DEF Live

LEMMA LivesOn ==
    ASSUME PInv, NInv, NEW e \in End, Live(e), lost' = lost,
           \A d \in End : d # e => peer'[d] = peer[d],
           ~lost', \A d \in End : Live(d)'
    PROVE  Settling /\ Live(Other(e))
<1>1. \A d \in End : Live(d)
  BY DEF Live
<1> QED BY <1>1, Ends DEF NInv

\* What the controls of a session do to the connection.
LEMMA ControlsBelow ==
    ASSUME NEW e \in End, Controls(e)
    PROVE  \/ UNCHANGED vars
           \/ \E t : AddTrack(e, t) \/ RemoveTrack(e, t)
           \/ Destroy(e)
<1>1. ASSUME NEW cap, StopScreen(e, cap)
      PROVE  UNCHANGED vars \/ RemoveTrack(e, call[e].screen)
  BY <1>1 DEF StopScreen
<1>2. CASE ToggleOn(e) \/ EndSession(e)
  BY <1>2 DEF ToggleOn, EndSession
<1>3. CASE ToggleOff(e)
  BY <1>1, <1>3 DEF ToggleOff
<1>4. ASSUME NEW t \in Track,
             \/ PromptDenied(e, t) \/ PromptGranted(e, t)
             \/ Replaced(e, t) \/ ReplaceFails(e, t)
             \/ TrackEnded(e, t) \/ TrackEndsUnheard(e, t)
               \/ Restored(e, t)
      PROVE  \/ UNCHANGED vars
             \/ \E s : AddTrack(e, s) \/ RemoveTrack(e, s)
  <2>1. CASE PromptDenied(e, t) \/ Replaced(e, t) \/ ReplaceFails(e, t)
             \/ Restored(e, t) \/ TrackEndsUnheard(e, t)
    BY <2>1 DEF PromptDenied, Replaced, ReplaceFails, Restored, TrackEndsUnheard
  <2>2. CASE PromptGranted(e, t)
    BY <2>2 DEF PromptGranted
  <2>3. CASE TrackEnded(e, t)
    BY <1>1, <2>3 DEF TrackEnded
  <2> QED BY <1>4, <2>1, <2>2, <2>3
<1> QED BY <1>2, <1>3, <1>4 DEF Controls

LEMMA NegotiationInit == Init => NInv
<1> SUFFICES ASSUME Init PROVE NInv
  OBVIOUS
<1>1. ASSUME NEW e \in End
      PROVE  peer[e] = NewPeer /\ rtc[e] = NewConnection /\ Queue(e) = <<>>
  BY DEF Init, Queue, NewPeer, Idle
<1>2. /\ NewConnection.signaling = "stable"
      /\ NewConnection.remote = NewConnection.local
      /\ NewConnection.candidate = NewConnection.remote.ice
      /\ NewConnection.fresh
      /\ NewPeer.handling.step = "idle"
  BY DEF NewConnection, NewPeer, NoDescription, Idle
<1>3. ~HasLocal(NewConnection) /\ ~HasRemote(NewConnection)
  BY <1>2 DEF HasLocal, HasRemote
<1>4. <<>> \in Seq(Signals) /\ OnlyCandidates(<<>>)
  BY DEF OnlyCandidates
<1>5. /\ ~Has(<<>>, "offer") /\ ~Has(<<>>, "answer")
      /\ AnswerThenOffer(<<>>) /\ OneAnswer(<<>>)
      /\ \A a, d, n, b, r : OpenOrDoomed(<<>>, a, d, n, b, r)
  BY <1>4, CandidatesOnly
<1>6. Met(NewConnection, NewConnection, <<>>, <<>>, peer[Impolite].making)
  BY <1>2, <1>3, <1>5 DEF Met
<1>7. Ices(NewConnection, <<>>)
  BY <1>2 DEF Ices
<1> QED BY <1>1, <1>2, <1>6, <1>7, Ends DEF NInv, Settling

LEMMA NegotiationNext ==
    ASSUME PInv, NInv, Next PROVE NInv'
<1> SUFFICES ASSUME ~lost', \A d \in End : Live(d)' PROVE Settling'
  BY DEF NInv
<1>1. ASSUME NEW e \in End, Live(e), UNCHANGED network, NEW p,
             peer' = [peer EXCEPT ![e] = p]
      PROVE  Settling /\ Live(Other(e))
  <2>1. \A d \in End : d # e => peer'[d] = peer[d]
    BY <1>1 DEF PInv
  <2>2. lost' = lost
    BY <1>1 DEF network
  <2> QED BY <1>1, <2>1, <2>2, LivesOn
<1>2. ASSUME NEW e \in End PROVE ~Destroy(e)
  BY <1>2, DestroyEnds
<1>3. peer = [e \in End |-> peer[e]]
  BY DEF PInv
<1>4. ASSUME NEW e \in End, Negotiate(e) PROVE Settling'
  <2>1. PICK p : peer' = [peer EXCEPT ![e] = p]
    BY <1>4 DEF Negotiate
  <2>2. Settling
    BY <1>1, <1>4, <2>1 DEF Negotiate
  <2> QED BY <1>4, <2>2, NegotiateSettles
<1>5. ASSUME NEW e \in End, Handle(e) PROVE Settling'
  <2>1. Live(e) /\ UNCHANGED network
    BY <1>5 DEF Handle, OfferMade, ReceiveDescription, ReceiveCandidate, RemoteSet,
                AnswerMade
  <2>2. \A d \in End : d # e => peer'[d] = peer[d]
    <3>1. CASE OfferMade(e)
      BY <3>1 DEF OfferMade, PInv
    <3>2. CASE ReceiveDescription(e)
      BY <3>2 DEF ReceiveDescription, PInv
    <3>3. CASE ReceiveCandidate(e)
      BY <3>3 DEF ReceiveCandidate, PInv
    <3>4. CASE RemoteSet(e)
      BY <3>4 DEF RemoteSet, PInv
    <3>5. CASE AnswerMade(e)
      BY <3>5 DEF AnswerMade, PInv
    <3> QED BY <1>5, <3>1, <3>2, <3>3, <3>4, <3>5 DEF Handle
  <2>3. Settling /\ Live(Other(e))
    BY <2>1, <2>2, LivesOn DEF network
  <2> QED BY <1>5, <2>3, OfferSettles, DescriptionSettles, CandidateSettles,
             RemoteSettles, AnswerSettles DEF Handle
<1>6. ASSUME NEW e \in End, ChannelOpens(e) PROVE Settling'
  <2>1. Live(e) /\ UNCHANGED network
    BY <1>6 DEF ChannelOpens
  <2>2. PICK p : peer' = [peer EXCEPT ![e] = p]
    BY <1>6 DEF ChannelOpens
  <2>3. Settling
    BY <1>1, <2>1, <2>2
  <2> QED BY <1>6, <2>3, ConnectionSettles
<1>7. ASSUME NEW e \in End, NEW to \in {"connecting", "connected", "disconnected"},
             ConnectionStateOther(e, to)
      PROVE  Settling'
  <2>1. Live(e) /\ UNCHANGED network
    BY <1>7 DEF ConnectionStateOther
  <2>2. PICK p : peer' = [peer EXCEPT ![e] = p]
    BY <1>7 DEF ConnectionStateOther
  <2>3. Settling
    BY <1>1, <2>1, <2>2
  <2> QED BY <1>7, <2>3, ConnectionSettles
<1>8. ASSUME NEW e \in End, ConnectionFailed(e) \/ RecoverTimeout(e) PROVE Settling'
  <2>1. ASSUME NEW c, Recover(e, c)
        PROVE  UNCHANGED network /\ \E p : peer' = [peer EXCEPT ![e] = p]
    BY <1>2, <2>1 DEF Recover
  <2>2. /\ Live(e) /\ UNCHANGED network
        /\ \E p : peer' = [peer EXCEPT ![e] = p]
    <3>1. CASE ConnectionFailed(e)
      BY <2>1, <3>1 DEF ConnectionFailed
    <3>2. CASE RecoverTimeout(e)
      BY <2>1, <3>2 DEF RecoverTimeout
    <3> QED BY <1>8, <3>1, <3>2
  <2>3. Settling
    BY <1>1, <2>2
  <2> QED BY <1>8, <2>3, RecoverySettles
<1>9. ASSUME NEW e \in End, LoseSignal(e) PROVE FALSE
  BY <1>9 DEF LoseSignal
<1>10. CASE GoesDown \/ ComesBack
  <2>1. UNCHANGED <<peer, lost>>
    BY <1>10 DEF GoesDown, ComesBack
  <2>2. Settling
    BY <2>1 DEF NInv, Live
  <2> QED BY <1>10, <2>2, StillSettles
<1> QED
  BY <1>2, <1>4, <1>5, <1>6, <1>7, <1>8, <1>9, <1>10 DEF Next, Close, ConnectTimeout

LEMMA NegotiationStep ==
    ASSUME PInv, NInv, [ScreenNext]_<<vars, shareVars>> PROVE NInv'
<1>1. CASE Below(Next)
  BY <1>1, NegotiationNext DEF Below
<1>2. ASSUME NEW e \in End, Destroy(e) PROVE NInv'
  BY <1>2, DestroyEnds DEF NInv
<1>3. ASSUME UNCHANGED vars \/ \E e \in End : \E t : AddTrack(e, t) \/ RemoveTrack(e, t)
      PROVE  NInv'
  <2>1. UNCHANGED <<peer, lost>>
    BY <1>3 DEF vars, network, AddTrack, RemoveTrack
  <2>2. Settling => Settling'
    BY <1>3, StillSettles
  <2> QED BY <2>1, <2>2 DEF NInv, Live
<1>4. ASSUME NEW e \in End, Controls(e) PROVE NInv'
  BY <1>2, <1>3, <1>4, ControlsBelow
<1>5. CASE UNCHANGED <<vars, shareVars>>
  BY <1>3, <1>5
<1> QED BY <1>1, <1>4, <1>5 DEF ScreenNext

LEMMA NegotiationInvariance == ScreenSpec => []NInv
<1>1. ScreenInit => NInv
  BY NegotiationInit DEF ScreenInit
<1>2. SInv => PInv
  BY DEF SInv
<1> QED BY <1>1, <1>2, NegotiationStep, ScreenInvariance, PTL DEF ScreenSpec

-----------------------------------------------------------------------------
(* The theorems.                                                            *)

\* The variables of a Peer object and its connection, and of a session that
\* shares its screen, hold what peer.js and controller.js mean them to, and the
\* flags of a peer go together: it answers only an offer that is in place, and
\* its connect timer runs until it is connected or destroyed, whatever offers
\* cross, however often the connection is restarted.
THEOREM ScreenTypes == ScreenSpec => []ScreenTypeOK
<1>1. SInv => ScreenTypeOK
  BY PeerTypes DEF SInv, ScreenTypeOK, Sessions, Captures, States
<1> QED BY <1>1, ScreenInvariance, PTL

\* No screen capture outlives the session that shows it, and the call window
\* says "sharing" exactly while a screen is live, is being taken back, or was
\* ended by the browser before its listener was there (controller.js 571-583),
\* unless a second click came before the first was done or the session or its
\* connection ended during a replaceTrack: the windows that toggleScreenShare
\* and stopScreenShare leave open.
THEOREM ScreensHaveOwners == ScreenSpec => []OrphansOnlyByRace
<1>1. SInv => OrphansOnlyByRace
  <2> SUFFICES ASSUME SInv, NEW e \in End, ~call[e].raced
               PROVE  /\ \A t \in Track :
                           /\ capture[e][t] \in {"replacing", "cut", "live", "dead",
                                                  "restoring"} => ~call[e].ended
                           /\ capture[e][t] \in {"live", "dead"} =>
                                 call[e].screen = t
                      /\ ~call[e].ended =>
                           (call[e].sharing <=>
                               Pending(e, {"live", "dead", "restoring"}))
    BY DEF OrphansOnlyByRace
  <2>1. ShareOf(call[e], capture[e])
    BY DEF SInv, ShareOK
  <2> QED BY <2>1 DEF ShareOf, UnderWay, Pending
<1> QED BY <1>1, ScreenInvariance, PTL

\* Negotiation ends in agreement: whenever nothing is under way and nothing was
\* lost, both ends are stable, each has described the tracks it sends, knows the
\* other's description and has used the candidate that belongs to it, whatever
\* offers crossed, were rolled back or ignored, and however often either end
\* restarted its connection or changed its tracks (negotiate and applySignal).
THEOREM NegotiationSettles == ScreenSpec => []QuietIsSettled
<1>1. SInv /\ NInv => QuietIsSettled
  <2> SUFFICES ASSUME PInv, NInv, Quiet
               PROVE  \A e \in End : /\ rtc[e].signaling = "stable"
                                     /\ rtc[e].local.tracks = rtc[e].tracks
                                     /\ rtc[e].remote = rtc[Other(e)].local
                                     /\ rtc[e].candidate = rtc[e].remote.ice
    BY DEF QuietIsSettled, SInv
  <2>1. Settling
    BY DEF Quiet, NInv
  <2>2. ASSUME NEW e \in End
        PROVE  /\ Queue(e) = <<>> /\ ~HasRemote(rtc[e]) /\ peer[e].making = FALSE
               /\ rtc[e].signaling # "stable" => HasLocal(rtc[e])
    <3>1. EndOK(peer[e], rtc[e]) /\ peer[e].handling = Idle
      BY DEF PInv, Quiet
    <3> QED BY <3>1 DEF Quiet, Queue, Idle, EndOK, HasRemote, HasLocal, Connections,
                        Peers
  <2>3. <<>> \in Seq(Signals) /\ OnlyCandidates(<<>>)
    BY DEF OnlyCandidates
  <2>4. ~Has(<<>>, "offer") /\ ~Has(<<>>, "answer") /\ ~EndsInOffer(<<>>)
    BY <2>3, CandidatesOnly
  <2>5. /\ ~HasLocal(rtc[Polite]) /\ ~HasLocal(rtc[Impolite])
        /\ rtc[Polite].remote = rtc[Impolite].local
        /\ rtc[Impolite].remote = rtc[Polite].local
    <3>1. Met(rtc[Polite], rtc[Impolite], <<>>, <<>>, FALSE)
      BY <2>1, <2>2, Ends DEF Settling
    <3> QED BY <2>2, <2>4, <3>1, Ends DEF Met
  <2>6. ASSUME NEW e \in End
        PROVE  /\ rtc[e].signaling = "stable"
               /\ rtc[e].local.tracks = rtc[e].tracks
               /\ rtc[e].remote = rtc[Other(e)].local
               /\ rtc[e].candidate = rtc[e].remote.ice
    <3>1. rtc[e].signaling = "stable" /\ rtc[e].remote = rtc[Other(e)].local
      BY <2>2, <2>5, Ends
    <3>2. rtc[e].local.tracks = rtc[e].tracks
      BY <3>1 DEF Quiet, Needed
    <3>3. rtc[e].candidate = rtc[e].remote.ice
      <4>1. Ices(rtc[e], <<>>)
        BY <2>1, <2>2 DEF Settling
      <4>2. \A n : ~CandidateIn(<<>>, n)
        BY DEF CandidateIn
      <4> QED BY <4>1, <4>2 DEF Ices
    <3> QED BY <3>1, <3>2, <3>3
  <2> QED BY <2>6
<1> QED BY <1>1, ScreenInvariance, NegotiationInvariance, PTL
=============================================================================
