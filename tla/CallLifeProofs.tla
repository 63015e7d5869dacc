---------------------------- MODULE CallLifeProofs ----------------------------
(* More proofs about module Call: the life of the call a tab shows, what     *)
(* ends each of its waits, and what its card may say.                        *)
EXTENDS CallProofs

(* What one run of the event loop may do to the call of its tab.  Every      *)
(* action of Call is one of these turns, and no other tab takes one.         *)
TabStep(c) == \/ UserStep(c) \/ MediaStep(c) \/ TimerStep(c)
              \/ ReplyStep(c) \/ InboxStep(c) \/ MeshStep(c)

KeepsLinks(c) ==
    /\ session'[c] = session[c] /\ timers'[c] = timers[c]
    /\ mesh'[c] = mesh[c] /\ peer'[c] = peer[c]

Freed(c) ==
    /\ session'[c] = NoId /\ timers'[c] = {} /\ mesh'[c] = {}
    /\ peer'[c] = NoOne /\ media'[c] \subseteq media[c]

\* Nothing, a card remembered, or a prompt answered for an earlier call.
TurnIdle(c) ==
    /\ KeepsLinks(c)
    /\ call'[c] \in {call[c], [call[c] EXCEPT !.post = TRUE]}
    /\ call'[c] # call[c] => session[c] # NoId
    /\ media'[c] \subseteq media[c]
    /\ session[c] \in media[c] => session[c] \in media'[c]

\* The window of an ended call closes.
TurnClose(c) ==
    /\ KeepsLinks(c) /\ media'[c] = media[c]
    /\ session[c] = NoId /\ call[c] # NoCall /\ call'[c] = NoCall

\* startCall and receiveInvite.
TurnBegin(c) ==
    \E i \in CallId, dir \in {"outgoing", "incoming"} :
        /\ session[c] = NoId /\ session'[c] = i
        /\ call'[c] = NewCall(i, dir)
        /\ mesh'[c] = {} /\ peer'[c] = NoOne
        /\ \/ /\ dir = "outgoing" /\ caller[i] = NoOne
              /\ timers'[c] = {} /\ media'[c] = media[c] \cup {i}
              /\ \E user \in User : callee' = [callee EXCEPT ![i] = user]
              /\ caller' = [caller EXCEPT ![i] = c]
              /\ joined' = joined /\ net' = net
           \/ /\ dir = "incoming" /\ UNCHANGED callVars
              /\ \E m \in net : /\ m.type = "invite" /\ m.to = c /\ m.id = i
                               /\ net' = net \ {m}
              /\ timers'[c] = {<<"ring", i>>} /\ media'[c] = media[c]

\* The caller's prompt is granted.
TurnAsked(c) ==
    /\ session[c] \in media[c] /\ caller[session[c]] = c
    /\ media'[c] = media[c] \ {session[c]}
    /\ session'[c] = session[c] /\ call'[c] = call[c]
    /\ mesh'[c] = mesh[c] /\ peer'[c] = peer[c]
    /\ timers'[c] = IF c \in Broadcaster
                    THEN timers[c] \cup {<<"ring", session[c]>>} ELSE timers[c]

\* acceptCall, before its prompt.
TurnAnswer(c) ==
    /\ session[c] # NoId /\ Incoming(c)
    /\ session'[c] = session[c] /\ mesh'[c] = mesh[c] /\ peer'[c] = peer[c]
    /\ call'[c] = ToStatus(call[c], "connecting")
    /\ timers'[c] = timers[c] \ {<<"ring", session[c]>>}
    /\ media'[c] = media[c] \cup {session[c]}

JoinsCall(c) ==
    /\ joined' = [joined EXCEPT ![session[c]] = @ \cup {c}]
    /\ UNCHANGED <<caller, callee>>

\* joinMesh, of a caller who is accepted, ...
TurnAccepted(c) ==
    /\ session[c] # NoId /\ session'[c] = session[c] /\ JoinsCall(c)
    /\ \E m \in net : m.id = session[c] /\ Accepts(c, m)
    /\ call'[c] = ToStatus(call[c], "connecting")
    /\ mesh'[c] = {session[c]} /\ peer'[c] = peer[c] /\ media'[c] = media[c]
    /\ timers'[c] = (timers[c] \ {<<"ring", session[c]>>})
                        \cup {<<"connect", session[c]>>}

\* ... and of a callee whose prompt is granted.
TurnJoin(c) ==
    /\ session[c] \in media[c] /\ caller[session[c]] # c
    /\ media'[c] = media[c] \ {session[c]}
    /\ session'[c] = session[c] /\ call'[c] = call[c] /\ peer'[c] = peer[c]
    /\ mesh'[c] = {session[c]} /\ JoinsCall(c)
    /\ timers'[c] = (timers[c] \ {<<"ring", session[c]>>})
                        \cup {<<"connect", session[c]>>}

\* acceptCall stops half-way: sendInbox throws.
TurnStuck(c) ==
    /\ session[c] \in media[c] /\ caller[session[c]] # c /\ c \notin Broadcaster
    /\ media'[c] = media[c] \ {session[c]}
    /\ KeepsLinks(c) /\ call'[c] = call[c]

TurnConnect(c) ==
    /\ session[c] # NoId /\ session'[c] = session[c]
    /\ mesh[c] # {} /\ mesh'[c] = mesh[c] /\ media'[c] = media[c]
    /\ peer[c] = NoOne /\ peer'[c] # NoOne
    /\ \E d \in Client : slot[c] = d /\ session[c] \in mesh[c] \cap mesh[d]
    /\ timers'[c] = timers[c] \ ({"connect", "reconnect"} \X {session[c]})
    /\ call'[c] = [call[c] EXCEPT !.status = "active", !.started = TRUE]

TurnDisconnect(c) ==
    /\ session[c] # NoId /\ session'[c] = session[c]
    /\ mesh'[c] = mesh[c] /\ media'[c] = media[c]
    /\ peer[c] # NoOne /\ peer'[c] = NoOne
    /\ timers'[c] = timers[c] \cup {<<"reconnect", session[c]>>}
    /\ call'[c] = ToStatus(call[c], "reconnecting")

\* finish(), with the ended screen, ...
TurnEnd(c) ==
    /\ session[c] # NoId /\ Freed(c)
    /\ \E r \in Reason : call'[c] = ToEnded(call[c], r)

\* ... or without it: the window closes, or the tab is gone.
TurnLeave(c) == Freed(c) /\ call'[c] = NoCall

Turn(c) ==
    \/ /\ \/ TurnIdle(c) \/ TurnClose(c) \/ TurnAsked(c) \/ TurnAnswer(c)
          \/ TurnStuck(c) \/ TurnConnect(c) \/ TurnDisconnect(c)
          \/ TurnEnd(c) \/ TurnLeave(c)
       /\ UNCHANGED callVars
    \/ TurnBegin(c) \/ TurnAccepted(c) \/ TurnJoin(c)

OthersWait(c) ==
    \A d \in Client \ {c} :
        /\ media'[d] = media[d] /\ profiles'[d] = profiles[d]
        /\ posting'[d] = posting[d] /\ ringing'[d] = ringing[d]

LEMMA TabFacts ==
    ASSUME IInv
    PROVE  /\ Inv /\ TypeOK
           /\ \A c \in Client :
                /\ session[c] # NoId => /\ call[c] \in Calls
                                        /\ call[c].id = session[c]
                                        /\ session[c] \in CallId
                                        /\ call[c].status # "ended"
                /\ session[c] = NoId => /\ ~InCall(c) /\ mesh[c] = {}
                                        /\ timers[c] = {} /\ slot[c] = NoOne
                                        /\ peer[c] = NoOne
                /\ mesh[c] \subseteq {session[c]}
                /\ timers[c] \subseteq Timer \X {session[c]}
                /\ slot[c] # NoOne => mesh[c] # {}
                /\ peer[c] \in {NoOne, slot[c]}
           /\ NoId \notin CallId
<1>1. Inv /\ TypeOK /\ ResourcesFollowSession
  BY DEF IInv, Inv
<1>2. ASSUME NEW c \in Client
      PROVE  /\ mesh[c] \subseteq {session[c]}
             /\ timers[c] \subseteq Timer \X {session[c]}
             /\ slot[c] # NoOne => mesh[c] # {}
             /\ peer[c] \in {NoOne, slot[c]}
  BY <1>1 DEF ResourcesFollowSession
<1>3. ASSUME NEW c \in Client
      PROVE  /\ session[c] # NoId => /\ call[c] \in Calls
                                     /\ call[c].id = session[c]
                                     /\ session[c] \in CallId
                                     /\ call[c].status # "ended"
             /\ session[c] = NoId => /\ ~InCall(c) /\ mesh[c] = {}
                                     /\ timers[c] = {} /\ slot[c] = NoOne
                                     /\ peer[c] = NoOne
  BY <1>1, SessionFacts DEF InCall
<1> QED BY <1>1, <1>2, <1>3, CallAssumption

\* finish() frees the session of its tab and touches no other.
LEMMA FinishTurns ==
    ASSUME IInv, NEW c \in Client, session[c] # NoId, NEW r \in Reason,
           Finish(c, r) \/ FinishAndDismiss(c, r), media'[c] \subseteq media[c]
    PROVE  /\ TurnEnd(c) \/ TurnLeave(c)
           /\ OthersKeep(c)
           /\ ringing' = [ringing EXCEPT ![c] = FALSE]
           /\ call'[c] \in {NoCall, ToEnded(call[c], r)}
           /\ call[c].dir = "outgoing" /\ call[c].post =>
                patch' = [patch EXCEPT ![session[c]] = PostStatus(call[c], r)]
           /\ ~(call[c].dir = "outgoing" /\ call[c].post) => patch' = patch
<1>1. CoreTypeOK
  BY InvHalves DEF IInv, Core
<1>2. PICK next \in {NoCall, ToEnded(call[c], r)} : FinishTo(c, r, next)
  <2>1. call[c].id = session[c]
    BY TabFacts
  <2> QED BY <2>1 DEF Finish, FinishAndDismiss, Reduce
<1>3. OthersKeep(c) /\ call'[c] = next /\ session'[c] = NoId
  BY <1>1, <1>2 DEF FinishTo, Teardown, OthersKeep, CoreTypeOK
<1>4. mesh'[c] = {} /\ peer'[c] = NoOne
  BY <1>1, <1>2, TabFacts DEF FinishTo, Teardown, CoreTypeOK
<1>5. timers'[c] = {}
  BY <1>1, <1>2, TabFacts DEF FinishTo, Teardown, CoreTypeOK
<1>6. TurnEnd(c) \/ TurnLeave(c)
  BY <1>2, <1>3, <1>4, <1>5 DEF TurnEnd, TurnLeave, Freed
<1> QED BY <1>2, <1>3, <1>6 DEF FinishTo

LEMMA GoneTurns ==
    ASSUME IInv, NEW c \in Client, Gone(c)
    PROVE  Turn(c) /\ OthersKeep(c) /\ OthersWait(c)
<1>1. TypeOK
  BY DEF IInv, Inv
<1>2. TurnLeave(c)
  BY <1>1 DEF TypeOK, Gone, TurnLeave, Freed
<1>3. OthersKeep(c)
  BY <1>1 DEF TypeOK, Gone, OthersKeep
<1>4. OthersWait(c)
  BY <1>1 DEF TypeOK, Gone, OthersWait
<1> QED BY <1>2, <1>3, <1>4 DEF Gone, Turn

\* A step that leaves the controller of every tab as it is.
LEMMA IdleTurns ==
    ASSUME IInv, NEW c \in Client,
           UNCHANGED <<session, call, timers, streams, mesh, slot, peer, ringing,
                       media, profiles, posting, callVars>>
    PROVE  Turn(c) /\ OthersKeep(c) /\ OthersWait(c)
<1>1. TurnIdle(c)
  BY DEF TurnIdle, KeepsLinks
<1>2. OthersKeep(c)
  BY DEF OthersKeep
<1>3. OthersWait(c)
  BY DEF OthersWait
<1> QED BY <1>1, <1>2, <1>3 DEF Turn

LEMMA UserTurns ==
    ASSUME IInv, NEW c \in Client, UserStep(c)
    PROVE  Turn(c) /\ OthersKeep(c) /\ OthersWait(c)
<1>0. TypeOK /\ Inv
  BY TabFacts
<1>1. ASSUME NEW user \in User, NEW id \in CallId, StartCall(c, user, id)
      PROVE  Turn(c) /\ OthersKeep(c) /\ OthersWait(c)
  <2>1. session[c] = NoId
    BY <1>0, <1>1, SessionFacts DEF StartCall
  <2>2. /\ callee' = [callee EXCEPT ![id] = user]
        /\ caller' = [caller EXCEPT ![id] = c] /\ joined' = joined /\ net' = net
        /\ session'[c] = id /\ call'[c] = NewCall(id, "outgoing")
        /\ media'[c] = media[c] \cup {id} /\ caller[id] = NoOne
        /\ timers'[c] = {} /\ mesh'[c] = {} /\ peer'[c] = NoOne
    BY <1>0, <1>1, <2>1, TabFacts DEF StartCall, TypeOK, linkVars
  <2>4. TurnBegin(c)
    BY <2>1, <2>2 DEF TurnBegin
  <2>3. OthersKeep(c) /\ OthersWait(c)
    BY <1>0, <1>1 DEF StartCall, OthersKeep, OthersWait, TypeOK, linkVars, cardVars
  <2> QED BY <2>3, <2>4 DEF Turn
<1>2. CASE AcceptCall(c)
  <2>1. session[c] # NoId /\ call[c].id = session[c]
    BY <1>2, TabFacts DEF AcceptCall
  <2>2. TurnAnswer(c)
    BY <1>0, <1>2, <2>1 DEF AcceptCall, TurnAnswer, TypeOK, linkVars, Reduce
  <2>3. OthersKeep(c) /\ OthersWait(c)
    BY <1>0, <1>2 DEF AcceptCall, OthersKeep, OthersWait, TypeOK, linkVars, cardVars
  <2> QED BY <1>2, <2>2, <2>3 DEF Turn, AcceptCall
<1>3. CASE DeclineCall(c)
  <2>1. (TurnEnd(c) \/ TurnLeave(c)) /\ OthersKeep(c)
        /\ ringing' = [ringing EXCEPT ![c] = FALSE]
    BY <1>3, FinishTurns DEF DeclineCall, Reason, pending
  <2>2. OthersWait(c)
    BY <1>0, <1>3, <2>1 DEF DeclineCall, OthersWait, TypeOK, pending, cardVars
  <2> QED BY <1>3, <2>1, <2>2 DEF Turn, DeclineCall
<1>4. CASE HangUp(c)
  <2>1. CASE UNCHANGED <<uiVars, timers, streams, linkVars, patch>>
    BY <1>4, <2>1, IdleTurns DEF HangUp, uiVars, linkVars, pending, cardVars
  <2>2. ASSUME NEW r \in {"cancelled", "hangup"}, FinishAndDismiss(c, r)
        PROVE  Turn(c) /\ OthersKeep(c) /\ OthersWait(c)
    <3>1. (TurnEnd(c) \/ TurnLeave(c)) /\ OthersKeep(c)
          /\ ringing' = [ringing EXCEPT ![c] = FALSE]
      BY <1>4, <2>2, FinishTurns DEF HangUp, Reason, pending
    <3>2. OthersWait(c)
      BY <1>0, <1>4, <3>1 DEF HangUp, OthersWait, TypeOK, pending, cardVars
    <3> QED BY <1>4, <3>1, <3>2 DEF Turn, HangUp
  <2> QED BY <1>4, <2>1, <2>2 DEF HangUp
<1>5. CASE DismissCall(c)
  <2>1. session[c] = NoId
    BY <1>5, TabFacts DEF DismissCall, ShowsEnded
  <2>2. TurnClose(c)
    BY <1>0, <1>5, <2>1
       DEF DismissCall, ShowsEnded, TurnClose, KeepsLinks, TypeOK, linkVars, pending
  <2>3. OthersKeep(c) /\ OthersWait(c)
    BY <1>0, <1>5 DEF DismissCall, OthersKeep, OthersWait, TypeOK, linkVars,
                      pending, cardVars
  <2> QED BY <1>5, <2>2, <2>3 DEF Turn, DismissCall
<1>6. CASE StartInbox(c)
  BY <1>6, IdleTurns DEF StartInbox, uiVars, linkVars, pending, cardVars
<1>7. CASE HangUpOnUnload(c) \/ Crash(c)
  BY <1>7, GoneTurns DEF HangUpOnUnload, Crash, Turn
<1> QED BY <1>1, <1>2, <1>3, <1>4, <1>5, <1>6, <1>7 DEF UserStep

\* A turn that only takes call i off the prompts of its tab.
LEMMA PromptTurns ==
    ASSUME IInv, NEW c \in Client, NEW i \in CallId, i # session[c],
           media' = [media EXCEPT ![c] = @ \ {i}],
           UNCHANGED <<session, call, timers, streams, linkVars, ringing,
                       profiles, posting, callVars>>
    PROVE  Turn(c) /\ OthersKeep(c) /\ OthersWait(c)
<1>0. TypeOK
  BY TabFacts
<1>1. TurnIdle(c)
  BY <1>0 DEF TurnIdle, KeepsLinks, TypeOK, linkVars
<1>2. OthersKeep(c)
  BY DEF OthersKeep, linkVars
<1>3. OthersWait(c)
  BY <1>0 DEF OthersWait, TypeOK
<1> QED BY <1>1, <1>2, <1>3 DEF Turn

LEMMA MediaTurns ==
    ASSUME IInv, NEW c \in Client, MediaStep(c)
    PROVE  Turn(c) /\ OthersKeep(c) /\ OthersWait(c)
<1>0. TypeOK /\ Inv /\ NoId \notin CallId
  BY TabFacts
<1> PICK id \in CallId : \/ StartMediaOk(c, id) \/ StartMediaFail(c, id)
                         \/ AcceptMediaOk(c, id) \/ AcceptMediaFail(c, id)
  BY DEF MediaStep
<1>1. CASE StartMediaOk(c, id)
  <2>1. CASE ~IsCurrent(c, id)
    BY <1>1, <2>1, PromptTurns
       DEF StartMediaOk, IsCurrent, uiVars, cardVars, linkVars
  <2>2. CASE IsCurrent(c, id)
    <3>0. /\ id \in media[c] /\ caller[id] = c /\ session[c] = id
          /\ media' = [media EXCEPT ![c] = @ \ {id}]
          /\ UNCHANGED <<session, call, mesh, peer>>
          /\ timers' = IF c \in Broadcaster
                       THEN [timers EXCEPT ![c] = @ \cup {<<"ring", id>>}]
                       ELSE timers
      BY <1>1, <2>2 DEF StartMediaOk, IsCurrent, CanSend, uiVars, linkVars
    <3>1. TurnAsked(c)
      BY <1>0, <3>0 DEF TurnAsked, TypeOK
    <3>2. OthersKeep(c) /\ OthersWait(c)
      BY <1>0, <1>1, <2>2
         DEF StartMediaOk, OthersKeep, OthersWait, TypeOK, uiVars, linkVars
    <3> QED BY <1>1, <3>1, <3>2 DEF Turn, StartMediaOk
  <2> QED BY <2>1, <2>2
<1>2. CASE StartMediaFail(c, id) \/ AcceptMediaFail(c, id)
  <2>1. /\ id \in media[c] /\ media' = [media EXCEPT ![c] = @ \ {id}]
        /\ UNCHANGED <<profiles, posting, callVars>>
    BY <1>2 DEF StartMediaFail, AcceptMediaFail, cardVars
  <2>2. CASE UNCHANGED <<uiVars, timers, streams, linkVars>> /\ id # session[c]
    BY <2>1, <2>2, PromptTurns DEF uiVars
  <2>3. CASE Finish(c, "error") /\ id = session[c]
    <3>1. (TurnEnd(c) \/ TurnLeave(c)) /\ OthersKeep(c)
          /\ ringing' = [ringing EXCEPT ![c] = FALSE]
      BY <1>0, <2>1, <2>3, FinishTurns DEF Reason, TypeOK
    <3>2. OthersWait(c)
      BY <1>0, <2>1, <3>1 DEF OthersWait, TypeOK
    <3> QED BY <2>1, <3>1, <3>2 DEF Turn
  <2>4. CASE /\ UNCHANGED <<uiVars, timers, streams, linkVars>>
             /\ id = session[c] /\ caller[id] # c /\ c \notin Broadcaster
    <3>1. TurnStuck(c)
      BY <1>0, <2>1, <2>4 DEF TurnStuck, KeepsLinks, TypeOK, uiVars, linkVars
    <3>2. OthersKeep(c) /\ OthersWait(c)
      BY <1>0, <2>1, <2>4 DEF OthersKeep, OthersWait, TypeOK, uiVars, linkVars
    <3> QED BY <2>1, <3>1, <3>2 DEF Turn
  <2> QED BY <1>2, <2>2, <2>3, <2>4
          DEF StartMediaFail, AcceptMediaFail, IsCurrent, CanSend
<1>3. CASE AcceptMediaOk(c, id)
  <2>1. CASE ~IsCurrent(c, id)
    BY <1>3, <2>1, PromptTurns
       DEF AcceptMediaOk, IsCurrent, uiVars, cardVars, linkVars, callVars
  <2>2. CASE IsCurrent(c, id)
    <3>1. CASE CanSend(c)
      <4>1. mesh[c] \cup {id} = {id}
        BY <2>2, TabFacts DEF IsCurrent
      <4>2. TurnJoin(c)
        BY <1>0, <1>3, <2>2, <3>1, <4>1
           DEF AcceptMediaOk, IsCurrent, JoinMesh, TurnJoin, JoinsCall, TypeOK,
               uiVars
      <4>3. OthersKeep(c) /\ OthersWait(c)
        BY <1>0, <1>3, <2>2, <3>1
           DEF AcceptMediaOk, JoinMesh, OthersKeep, OthersWait, TypeOK, uiVars,
               cardVars
      <4> QED BY <4>2, <4>3 DEF Turn
    <3>2. CASE ~CanSend(c)
      <4>1. TurnStuck(c)
        BY <1>0, <1>3, <2>2, <3>2
           DEF AcceptMediaOk, IsCurrent, CanSend, TurnStuck, KeepsLinks, TypeOK,
               uiVars
      <4>2. OthersKeep(c) /\ OthersWait(c)
        BY <1>0, <1>3, <2>2, <3>2
           DEF AcceptMediaOk, OthersKeep, OthersWait, TypeOK, uiVars, cardVars
      <4> QED BY <1>3, <2>2, <3>2, <4>1, <4>2
              DEF AcceptMediaOk, IsCurrent, CanSend, Turn, callVars
    <3> QED BY <3>1, <3>2
  <2> QED BY <2>1, <2>2
<1> QED BY <1>1, <1>2, <1>3

LEMMA TimerTurns ==
    ASSUME IInv, NEW c \in Client, TimerStep(c)
    PROVE  Turn(c) /\ OthersKeep(c) /\ OthersWait(c)
<1>0. TypeOK /\ Inv /\ NoId \notin CallId
  BY TabFacts
<1>1. ASSUME NEW r \in Reason, Finish(c, r), session[c] # NoId,
             UNCHANGED <<pending, cardVars, callVars>>
      PROVE  Turn(c) /\ OthersKeep(c) /\ OthersWait(c)
  <2>1. (TurnEnd(c) \/ TurnLeave(c)) /\ OthersKeep(c)
        /\ ringing' = [ringing EXCEPT ![c] = FALSE]
    BY <1>1, FinishTurns DEF pending
  <2>2. OthersWait(c)
    BY <1>0, <1>1, <2>1 DEF OthersWait, TypeOK, pending, cardVars
  <2> QED BY <1>1, <2>1, <2>2 DEF Turn
<1> PICK id \in CallId :
      \/ RingTimeout(c, id) \/ AutoDismissCall(c, id)
      \/ \E name \in {"connect", "reconnect"} : ConnectionTimeout(c, name, id)
  BY DEF TimerStep
<1>2. \A name \in Timer : <<name, id>> \in timers[c] => session[c] = id
  BY TabFacts
<1>3. CASE RingTimeout(c, id)
  BY <1>0, <1>1, <1>2, <1>3 DEF RingTimeout, IsCurrent, Timer, Reason
<1>4. CASE AutoDismissCall(c, id)
  <2>1. session[c] # id
    BY <1>4 DEF IInv, IdsUsedOnce, DismissesOld, AutoDismissCall
  <2>2. CASE call[c].id = id
    <3>1. session[c] = NoId /\ call[c] # NoCall
      BY <1>0, <2>1, <2>2, TabFacts DEF NoCall
    <3> QED BY <1>0, <1>4, <2>2, <3>1
            DEF AutoDismissCall, Reduce, Turn, TurnClose, KeepsLinks, OthersKeep,
                OthersWait, TypeOK, linkVars, pending, cardVars
  <2>3. CASE call[c].id # id
    <3>1. call' = call
      BY <1>0, <1>4, <2>3 DEF AutoDismissCall, Reduce, TypeOK
    <3> QED BY <1>4, <3>1, IdleTurns
            DEF AutoDismissCall, linkVars, pending, cardVars
  <2> QED BY <2>2, <2>3
<1>5. ASSUME NEW name \in {"connect", "reconnect"},
             ConnectionTimeout(c, name, id)
      PROVE  Turn(c) /\ OthersKeep(c) /\ OthersWait(c)
  BY <1>0, <1>1, <1>2, <1>5 DEF ConnectionTimeout, IsCurrent, Timer, Reason
<1> QED BY <1>3, <1>4, <1>5

LEMMA ReplyTurns ==
    ASSUME IInv, NEW c \in Client, ReplyStep(c)
    PROVE  Turn(c) /\ OthersKeep(c) /\ OthersWait(c)
<1>0. TypeOK /\ Inv /\ NoId \notin CallId
  BY TabFacts
<1> PICK id \in CallId : \/ ProfilesReady(c, id) \/ PostCreated(c, id)
                         \/ PostFails(c, id)
  BY DEF ReplyStep
<1>1. CASE ProfilesReady(c, id)
  <2>1. TurnIdle(c)
    BY <1>1 DEF ProfilesReady, TurnIdle, KeepsLinks, linkVars
  <2> QED BY <1>0, <1>1, <2>1
          DEF ProfilesReady, Turn, OthersKeep, OthersWait, TypeOK, linkVars, cardVars
<1>2. CASE PostCreated(c, id)
  <2>1. TurnIdle(c)
    <3>1. IsCurrent(c, id) => call[c].id = id
      BY <1>0, TabFacts DEF IsCurrent
    <3> QED BY <1>0, <1>2, <3>1
            DEF PostCreated, IsCurrent, Reduce, TurnIdle, KeepsLinks, TypeOK,
                linkVars, pending
  <2>2. OthersKeep(c) /\ OthersWait(c)
    BY <1>0, <1>2 DEF PostCreated, OthersKeep, OthersWait, TypeOK, linkVars, pending
  <2> QED BY <1>2, <2>1, <2>2 DEF Turn, PostCreated
<1>3. CASE PostFails(c, id)
  <2>1. TurnIdle(c)
    BY <1>3 DEF PostFails, TurnIdle, KeepsLinks, uiVars, linkVars, pending
  <2> QED BY <1>0, <1>3, <2>1 DEF PostFails, Turn, OthersKeep, OthersWait, TypeOK,
                                uiVars, linkVars, pending
<1> QED BY <1>1, <1>2, <1>3

LEMMA InboxTurns ==
    ASSUME IInv, NEW c \in Client, InboxStep(c)
    PROVE  Turn(c) /\ OthersKeep(c) /\ OthersWait(c)
<1>0. TypeOK /\ Inv /\ NoId \notin CallId
  BY TabFacts
<1>1. ASSUME NEW r \in Reason, Finish(c, r), session[c] # NoId,
             UNCHANGED <<pending, cardVars, callVars>>
      PROVE  Turn(c) /\ OthersKeep(c) /\ OthersWait(c)
  <2>1. (TurnEnd(c) \/ TurnLeave(c)) /\ OthersKeep(c)
        /\ ringing' = [ringing EXCEPT ![c] = FALSE]
    BY <1>1, FinishTurns DEF pending
  <2>2. OthersWait(c)
    BY <1>0, <1>1, <2>1 DEF OthersWait, TypeOK, pending, cardVars
  <2> QED BY <1>1, <2>1, <2>2 DEF Turn
<1>2. ASSUME UNCHANGED <<uiVars, timers, streams, linkVars, pending, cardVars,
                        callVars>>
      PROVE  Turn(c) /\ OthersKeep(c) /\ OthersWait(c)
  BY <1>2, IdleTurns DEF uiVars, linkVars, pending, cardVars
<1> PICK m \in net : \/ ReceiveInvite(c, m) \/ ReceiveAccept(c, m)
                     \/ ReceiveEnd(c, m) \/ ReceiveIgnored(c, m)
                     \/ ReceiveData(c, m)
  BY DEF InboxStep
<1>3. m.id \in CallId /\ m.type \in Control
  BY <1>0 DEF TypeOK, Message
<1>4. CASE ReceiveInvite(c, m)
  <2>1. CASE InCall(c)
    <3>1. UNCHANGED <<session, call, timers, profiles, ringing, dismissals,
                      streams, linkVars, media, cardVars, callVars>>
      BY <1>4, <2>1 DEF ReceiveInvite
    <3> QED BY <1>2, <3>1 DEF uiVars, pending
  <2>2. CASE ~InCall(c)
    <3>1. session[c] = NoId
      BY <1>0, <2>2, SessionFacts
    <3>2. m.type = "invite" /\ m.to = c
      BY <1>4 DEF ReceiveInvite, Arrives
    <3>3. TurnBegin(c)
      <4>1. /\ session' = [session EXCEPT ![c] = m.id]
            /\ call' = [call EXCEPT ![c] = NewCall(m.id, "incoming")]
            /\ timers' = [timers EXCEPT ![c] = @ \cup {<<"ring", m.id>>}]
            /\ UNCHANGED <<linkVars, media, callVars>> /\ net' = net \ {m}
        BY <1>4, <2>2 DEF ReceiveInvite
      <4>2. /\ session'[c] = m.id /\ call'[c] = NewCall(m.id, "incoming")
            /\ timers'[c] = {<<"ring", m.id>>} /\ mesh'[c] = {}
            /\ peer'[c] = NoOne /\ media'[c] = media[c]
        BY <1>0, <3>1, <4>1, TabFacts DEF TypeOK, linkVars
      <4> QED BY <1>3, <3>1, <3>2, <4>1, <4>2 DEF TurnBegin
    <3>4. OthersKeep(c) /\ OthersWait(c)
      BY <1>0, <1>4, <2>2
         DEF ReceiveInvite, OthersKeep, OthersWait, TypeOK, linkVars, cardVars
    <3> QED BY <3>3, <3>4 DEF Turn
  <2> QED BY <2>1, <2>2
<1>5. CASE ReceiveAccept(c, m)
  <2>1. session[c] = m.id /\ call[c].id = m.id /\ Accepts(c, m)
    BY <1>0, <1>3, <1>5, TabFacts DEF ReceiveAccept, Accepts, Addressed, IsCurrent
  <2>2. mesh[c] \cup {m.id} = {m.id}
    BY <2>1, TabFacts
  <2>3. TurnAccepted(c)
    BY <1>0, <1>3, <1>5, <2>1, <2>2
       DEF ReceiveAccept, JoinMesh, JoinsCall, TurnAccepted, Reduce, TypeOK,
           pending
  <2>4. OthersKeep(c) /\ OthersWait(c)
    BY <1>0, <1>5 DEF ReceiveAccept, JoinMesh, OthersKeep, OthersWait, TypeOK,
                      pending, cardVars
  <2> QED BY <2>3, <2>4 DEF Turn
<1>6. CASE ReceiveEnd(c, m)
  <2>1. session[c] # NoId /\ EndReason[m.type] \in Reason
    BY <1>0, <1>3, <1>6
       DEF ReceiveEnd, Ends, Addressed, IsCurrent, EndReason, Reason
  <2> QED BY <1>1, <1>6, <2>1 DEF ReceiveEnd
<1>7. CASE ReceiveIgnored(c, m)
  BY <1>2, <1>7 DEF ReceiveIgnored
<1>8. CASE ReceiveData(c, m)
  BY <1>0, <1>1, <1>2, <1>3, <1>8 DEF ReceiveData, IsCurrent, Reason
<1> QED BY <1>4, <1>5, <1>6, <1>7, <1>8

LEMMA MeshTurns ==
    ASSUME IInv, NEW c \in Client, MeshStep(c)
    PROVE  Turn(c) /\ OthersKeep(c) /\ OthersWait(c)
<1>0. TypeOK /\ Inv /\ NoId \notin CallId
  BY TabFacts
<1>1. ASSUME NEW d \in Client, NEW id \in CallId, MeshHello(c, d, id)
      PROVE  Turn(c) /\ OthersKeep(c) /\ OthersWait(c)
  <2>1. TurnIdle(c)
    BY <1>1 DEF MeshHello, TurnIdle, KeepsLinks, uiVars, pending
  <2>2. OthersKeep(c) /\ OthersWait(c)
    BY <1>0, <1>1 DEF MeshHello, OthersKeep, OthersWait, TypeOK, uiVars, pending,
                      cardVars
  <2> QED BY <1>1, <2>1, <2>2 DEF Turn, MeshHello
<1>2. ASSUME NEW d \in Client, NEW id \in CallId, PeerConnected(c, d, id)
      PROVE  Turn(c) /\ OthersKeep(c) /\ OthersWait(c)
  <2>1. session[c] = id /\ id # NoId /\ call[c].id = id
    BY <1>0, <1>2, TabFacts DEF PeerConnected, IsCurrent
  <2>2. TurnConnect(c)
    BY <1>0, <1>2, <2>1, CallAssumption
       DEF PeerConnected, TurnConnect, Reduce, TypeOK, pending
  <2>3. OthersKeep(c) /\ OthersWait(c)
    BY <1>0, <1>2 DEF PeerConnected, OthersKeep, OthersWait, TypeOK, pending, cardVars
  <2> QED BY <1>2, <2>2, <2>3 DEF Turn, PeerConnected
<1>3. CASE PeerClosed(c)
  <2>1. session[c] # NoId /\ call[c].id = session[c]
    BY <1>3, TabFacts DEF PeerClosed
  <2>2. CASE peer[c] = NoOne
    <3>1. TurnIdle(c)
      BY <1>3, <2>2 DEF PeerClosed, TurnIdle, KeepsLinks, pending
    <3>2. OthersKeep(c) /\ OthersWait(c)
      BY <1>0, <1>3, <2>2 DEF PeerClosed, OthersKeep, OthersWait, TypeOK, pending,
                              cardVars
    <3> QED BY <1>3, <3>1, <3>2 DEF Turn, PeerClosed
  <2>3. CASE peer[c] # NoOne
    <3>1. TurnDisconnect(c)
      BY <1>0, <1>3, <2>1, <2>3
         DEF PeerClosed, TurnDisconnect, Reduce, TypeOK, pending
    <3>2. OthersKeep(c) /\ OthersWait(c)
      BY <1>0, <1>3, <2>3
         DEF PeerClosed, OthersKeep, OthersWait, TypeOK, pending, cardVars
    <3> QED BY <1>3, <3>1, <3>2 DEF Turn, PeerClosed
  <2> QED BY <2>2, <2>3
<1> QED BY <1>1, <1>2, <1>3 DEF MeshStep

\* A step of a tab is a turn of that tab alone.
LEMMA TabTurns ==
    ASSUME IInv, NEW c \in Client, TabStep(c)
    PROVE  Turn(c) /\ OthersKeep(c) /\ OthersWait(c)
BY UserTurns, MediaTurns, TimerTurns, ReplyTurns, InboxTurns, MeshTurns DEF TabStep

\* The server and the network leave every tab alone.
LEMMA ServerTurns ==
    ASSUME ServerStep \/ UNCHANGED vars
    PROVE  UNCHANGED <<session, call, timers, streams, linkVars, ringing, media,
                       profiles, posting, callVars>> /\ net' \subseteq net
BY DEF ServerStep, PostLands, PatchLands, PatchFails, Lose, vars, uiVars, pending,
       cardVars

-----------------------------------------------------------------------------
(* What a tab may send, and when it may ring.                               *)

\* Whose the ids of the tabs are.
LEMMA IdFacts ==
    ASSUME IInv
    PROVE  /\ \A c \in Client : session[c] # NoId =>
                /\ caller[session[c]] \in Client
                /\ call[c].dir = "outgoing" <=> caller[session[c]] = c
                /\ call[c].dir \in {"outgoing", "incoming"}
           /\ \A c \in Client : \A id \in media[c] :
                id \in CallId /\ caller[id] \in Client
           /\ \A m \in net : /\ m \in Message /\ m.id \in CallId
                             /\ m.from \in Client /\ m.to \in Client
                             /\ caller[m.id] \in Client
           /\ \A id \in CallId : caller[id] # NoOne =>
                Owner[caller[id]] # callee[id]
           /\ \A m \in net : m.type = "invite" =>
                /\ m.from = caller[m.id] /\ m.id \notin media[m.from]
                /\ session[m.to] # m.id
<1>1. TypeOK /\ Dialled /\ InvitedOnce /\ Directed
  BY DEF IInv, Inv, IdsUsedOnce
<1>2. \A m \in net : /\ m \in Message /\ m.id \in CallId
                     /\ m.from \in Client /\ m.to \in Client
  BY <1>1 DEF TypeOK, Message
<1>3. \A c \in Client : media[c] \subseteq CallId
  BY <1>1 DEF TypeOK
<1>4. \A id \in CallId : caller[id] = NoOne \/ caller[id] \in Client
  BY <1>1 DEF TypeOK
<1>5. \A c \in Client : session[c] # NoId => session[c] \in CallId
  BY TabFacts
<1>6. \A c \in Client : session[c] # NoId =>
         call[c].dir \in {"outgoing", "incoming"}
  BY TabFacts DEF Calls
<1> QED BY <1>1, <1>2, <1>3, <1>4, <1>5, <1>6
        DEF Dialled, Unused, InvitedOnce, Directed, Seen

LEMMA SendInboxCopies ==
    ASSUME NEW c \in Client, NEW type \in Control, NEW id \in CallId,
           SendInbox(c, type, id)
    PROVE  \A m \in net' \ net :
             /\ m \in Message /\ m.from = c /\ m.type = type /\ m.id = id
             /\ Owner[m.to] = PeerId(c, id)
BY DEF SendInbox, Copies, Message

\* A new message of tab c.
NewMessage(c, m) ==
    /\ m \in Message /\ m.from = c
    /\ \/ m.id = session[c] \/ m.id \in media[c]
       \/ \E n \in net : n.type = "invite" /\ n.id = m.id
    /\ m.type = "invite" =>
         /\ caller[m.id] = c /\ m.id \in media[c] \ media'[c]
         /\ Owner[m.to] = callee[m.id]
    /\ m.type = "accept" => c \in joined'[m.id]
    /\ m.type = "decline" =>
         /\ caller[m.id] # c /\ session'[c] # m.id
         /\ \/ session[c] = m.id /\ Incoming(c) /\ media'[c] \subseteq media[c]
            \/ m.id \in media[c] \ media'[c]

LEMMA UserMessages ==
    ASSUME IInv, NEW c \in Client, UserStep(c), NEW m \in net' \ net
    PROVE  NewMessage(c, m)
<1>1. session[c] # NoId => session[c] \in CallId
  BY TabFacts
<1>2. ASSUME NEW type \in Control \ {"invite", "accept"}, session[c] # NoId,
             SendInbox(c, type, session[c]),
             type = "decline" => /\ Incoming(c) /\ media'[c] \subseteq media[c]
                                 /\ session'[c] # session[c]
      PROVE  NewMessage(c, m)
  <2>1. /\ m \in Message /\ m.from = c /\ m.type = type /\ m.id = session[c]
    BY <1>1, <1>2, SendInboxCopies
  <2>2. type = "decline" => caller[session[c]] # c
    BY <1>2, IdFacts DEF Incoming
  <2> QED BY <1>2, <2>1, <2>2 DEF NewMessage
<1>3. CASE DeclineCall(c)
  <2>1. session'[c] = NoId /\ media' = media
    BY <1>3, TabFacts DEF DeclineCall, FinishAndDismiss, FinishTo, TypeOK, pending
  <2> QED BY <1>2, <1>3, <2>1 DEF DeclineCall, Control, ShowsCard
<1>4. CASE HangUp(c)
  <2>1. CASE SendInbox(c, "cancel", session[c])
    BY <1>2, <1>4, <2>1 DEF HangUp, Control
  <2>2. CASE m \in DataHangup(c, session[c])
    <3>1. peer[c] \in Client /\ m.type = "data" /\ m.id = session[c]
          /\ m.from = c /\ m.to = peer[c] /\ m \in Message
      BY <1>1, <1>4, <2>2, TabFacts DEF HangUp, DataHangup, TypeOK, Message, Control
    <3> QED BY <3>1 DEF NewMessage
  <2>3. CASE m \in Copies(c, PeerId(c, session[c]), "hangup", session[c])
    BY <1>1, <1>4, <2>3 DEF HangUp, Copies, Message, Control, NewMessage
  <2> QED BY <1>4, <2>1, <2>2, <2>3 DEF HangUp
<1>5. CASE HangUpOnUnload(c)
  <2>1. /\ UnloadType(call[c]) \in Control \ {"invite", "accept"}
        /\ UnloadType(call[c]) = "decline" => Incoming(c)
    BY DEF UnloadType, Control, Incoming
  <2>2. session'[c] = NoId /\ media'[c] = {}
    BY <1>5, TabFacts DEF HangUpOnUnload, Gone, TypeOK
  <2> QED BY <1>2, <1>5, <2>1, <2>2 DEF HangUpOnUnload
<1>6. CASE \E user \in User, id \in CallId : StartCall(c, user, id)
  BY <1>6 DEF StartCall
<1>7. CASE \/ AcceptCall(c) \/ DismissCall(c) \/ StartInbox(c) \/ Crash(c)
  BY <1>7 DEF AcceptCall, DismissCall, StartInbox, Crash
<1> QED BY <1>3, <1>4, <1>5, <1>6, <1>7 DEF UserStep

LEMMA MediaMessages ==
    ASSUME IInv, NEW c \in Client, MediaStep(c), NEW m \in net' \ net
    PROVE  NewMessage(c, m)
<1>0. media \in [Client -> SUBSET CallId] /\ joined \in [CallId -> SUBSET Client]
  BY TabFacts DEF TypeOK
<1> PICK id \in CallId : \/ StartMediaOk(c, id) \/ StartMediaFail(c, id)
                         \/ AcceptMediaOk(c, id) \/ AcceptMediaFail(c, id)
  BY DEF MediaStep
<1>1. CASE StartMediaOk(c, id)
  <2>1. /\ id \in media[c] /\ caller[id] = c /\ SendInbox(c, "invite", id)
        /\ media' = [media EXCEPT ![c] = @ \ {id}]
    BY <1>1 DEF StartMediaOk
  <2>2. PeerId(c, id) = callee[id] /\ id \notin media'[c]
    BY <1>0, <2>1 DEF PeerId
  <2>3. m \in Message /\ m.from = c /\ m.type = "invite" /\ m.id = id
        /\ Owner[m.to] = PeerId(c, id)
    BY <2>1, SendInboxCopies DEF Control
  <2> QED BY <2>1, <2>2, <2>3 DEF NewMessage
<1>2. CASE AcceptMediaOk(c, id)
  <2>1. id \in media[c] /\ SendInbox(c, "accept", id) /\ JoinMesh(c, id)
    BY <1>2 DEF AcceptMediaOk
  <2>2. c \in joined'[id]
    BY <1>0, <2>1 DEF JoinMesh
  <2>3. m \in Message /\ m.from = c /\ m.type = "accept" /\ m.id = id
    BY <2>1, SendInboxCopies DEF Control
  <2> QED BY <2>1, <2>2, <2>3 DEF NewMessage
<1>3. CASE AcceptMediaFail(c, id)
  <2>1. /\ id \in media[c] /\ SendInbox(c, "decline", id) /\ caller[id] # c
        /\ media' = [media EXCEPT ![c] = @ \ {id}]
        /\ IsCurrent(c, id) => Finish(c, "error")
        /\ ~IsCurrent(c, id) => session' = session
    BY <1>3 DEF AcceptMediaFail, uiVars
  <2>2. m \in Message /\ m.from = c /\ m.type = "decline" /\ m.id = id
    BY <2>1, SendInboxCopies DEF Control
  <2>3. session'[c] # id
    BY <2>1, TabFacts, CallAssumption
       DEF IsCurrent, Finish, FinishTo, TypeOK
  <2>4. id \notin media'[c]
    BY <1>0, <2>1
  <2> QED BY <2>1, <2>2, <2>3, <2>4 DEF NewMessage
<1> QED BY <1>1, <1>2, <1>3 DEF StartMediaFail

LEMMA InboxMessages ==
    ASSUME IInv, NEW c \in Client, InboxStep(c), NEW m \in net' \ net
    PROVE  NewMessage(c, m)
<1> PICK n \in net : \/ ReceiveInvite(c, n) \/ ReceiveAccept(c, n)
                     \/ ReceiveEnd(c, n) \/ ReceiveIgnored(c, n)
                     \/ ReceiveData(c, n)
  BY DEF InboxStep
<1>1. n.id \in CallId
  BY TabFacts DEF TypeOK, Message
<1>2. CASE ReceiveInvite(c, n)
  <2>1. n.type = "invite" /\ m \in Copies(c, Owner[n.from], "busy", n.id)
    BY <1>2 DEF ReceiveInvite
  <2>2. m \in Message /\ m.from = c /\ m.type = "busy" /\ m.id = n.id
    BY <1>1, <2>1 DEF Copies, Message, Control
  <2> QED BY <2>1, <2>2 DEF NewMessage
<1>3. CASE ~ReceiveInvite(c, n)
  BY <1>3 DEF ReceiveAccept, ReceiveEnd, ReceiveIgnored, ReceiveData
<1> QED BY <1>2, <1>3

LEMMA TabMessages ==
    ASSUME IInv, NEW c \in Client, TabStep(c), NEW m \in net' \ net
    PROVE  NewMessage(c, m)
<1>1. CASE TimerStep(c)
  <2> PICK id \in CallId :
        \/ RingTimeout(c, id) \/ AutoDismissCall(c, id)
        \/ \E name \in {"connect", "reconnect"} : ConnectionTimeout(c, name, id)
    BY <1>1 DEF TimerStep
  <2>1. session[c] = id /\ SendInbox(c, "cancel", id)
    BY DEF RingTimeout, AutoDismissCall, ConnectionTimeout, IsCurrent
  <2> QED BY <2>1, SendInboxCopies DEF NewMessage, Control
<1>2. CASE ReplyStep(c) \/ MeshStep(c)
  BY <1>2 DEF ReplyStep, MeshStep, ProfilesReady, PostCreated, PostFails,
              MeshHello, PeerConnected, PeerClosed
<1> QED BY <1>1, <1>2, UserMessages, MediaMessages, InboxMessages DEF TabStep

\* A ringtone that is on was on, or its profile has just come; and the session
\* it is for has not changed.
RingTurn(c) ==
    /\ ringing'[c] => /\ ringing[c] \/ session[c] \in profiles[c]
                      /\ session'[c] = session[c] \/ session[c] = NoId
    /\ \A i \in profiles'[c] \ profiles[c] : caller[i] \notin {c, NoOne}

LEMMA RingTurns ==
    ASSUME IInv, NEW c \in Client, TabStep(c)
    PROVE  RingTurn(c)
<1>0. TypeOK
  BY TabFacts
<1>1. ASSUME NEW r, Finish(c, r) \/ FinishAndDismiss(c, r), profiles' = profiles
      PROVE  RingTurn(c)
  BY <1>0, <1>1 DEF Finish, FinishAndDismiss, FinishTo, RingTurn, TypeOK
<1>2. ASSUME ringing'[c] \in {ringing[c], FALSE}, profiles'[c] \subseteq profiles[c],
             session'[c] = session[c] \/ session[c] = NoId
      PROVE  RingTurn(c)
  BY <1>2 DEF RingTurn
<1>3. CASE UserStep(c)
  <2>1. ASSUME NEW user \in User, NEW id \in CallId, StartCall(c, user, id)
        PROVE  RingTurn(c)
    <3>1. session[c] = NoId
      BY <2>1, TabFacts, SessionFacts DEF StartCall
    <3> QED BY <1>2, <2>1, <3>1 DEF StartCall
  <2>2. CASE AcceptCall(c)
    BY <1>0, <1>2, <2>2 DEF AcceptCall, TypeOK
  <2>3. CASE DeclineCall(c) \/ HangUp(c)
    BY <1>1, <1>2, <2>3 DEF DeclineCall, HangUp, pending, uiVars
  <2>4. CASE DismissCall(c) \/ StartInbox(c)
    BY <1>2, <2>4 DEF DismissCall, StartInbox, pending, uiVars
  <2>5. CASE HangUpOnUnload(c) \/ Crash(c)
    BY <1>0, <2>5 DEF HangUpOnUnload, Crash, Gone, RingTurn, TypeOK
  <2> QED BY <1>3, <2>1, <2>2, <2>3, <2>4, <2>5 DEF UserStep
<1>4. CASE MediaStep(c)
  BY <1>1, <1>2, <1>4
     DEF MediaStep, StartMediaOk, StartMediaFail, AcceptMediaOk, AcceptMediaFail,
         uiVars
<1>5. CASE TimerStep(c)
  BY <1>1, <1>2, <1>5
     DEF TimerStep, RingTimeout, AutoDismissCall, ConnectionTimeout, pending, uiVars
<1>6. CASE ReplyStep(c)
  <2> PICK id \in CallId : \/ ProfilesReady(c, id) \/ PostCreated(c, id)
                           \/ PostFails(c, id)
    BY <1>6 DEF ReplyStep
  <2>1. CASE ProfilesReady(c, id)
    BY <1>0, <2>1 DEF ProfilesReady, IsCurrent, RingTurn, TypeOK
  <2> QED BY <1>2, <2>1 DEF PostCreated, PostFails, pending, uiVars
<1>7. CASE InboxStep(c)
  <2> PICK m \in net : \/ ReceiveInvite(c, m) \/ ReceiveAccept(c, m)
                       \/ ReceiveEnd(c, m) \/ ReceiveIgnored(c, m)
                       \/ ReceiveData(c, m)
    BY <1>7 DEF InboxStep
  <2>1. CASE ReceiveInvite(c, m)
    <3>1. m.from = caller[m.id] /\ m.from \in Client /\ m.from # c
      BY <1>0, <2>1
         DEF ReceiveInvite, IInv, IdsUsedOnce, InvitedOnce, TypeOK, Message
    <3>2. ringing' = ringing /\ (session'[c] = session[c] \/ session[c] = NoId)
      BY <2>1, TabFacts, SessionFacts DEF ReceiveInvite
    <3>3. profiles'[c] \subseteq profiles[c] \cup {m.id}
      BY <1>0, <2>1 DEF ReceiveInvite, TypeOK
    <3> QED BY <3>1, <3>2, <3>3, CallAssumption DEF RingTurn
  <2>2. CASE ~ReceiveInvite(c, m)
    BY <1>1, <1>2, <2>2
       DEF ReceiveAccept, ReceiveEnd, ReceiveIgnored, ReceiveData, pending, uiVars
  <2> QED BY <2>1, <2>2
<1>8. CASE MeshStep(c)
  BY <1>2, <1>8
     DEF MeshStep, MeshHello, PeerConnected, PeerClosed, pending, uiVars
<1> QED BY <1>3, <1>4, <1>5, <1>6, <1>7, <1>8 DEF TabStep

-----------------------------------------------------------------------------
(* The inductive invariant of the life of a call.                           *)

\* The invite of id is not out yet: nobody dialled id, or its caller still
\* waits for camera and microphone.
NotSent(id) == caller[id] = NoOne \/ id \in media[caller[id]]

\* Until then the call is known to its caller only.
Fresh ==
    \A id \in CallId : NotSent(id) =>
        /\ \A m \in net : m.id = id => m.from = caller[id]
        /\ joined[id] = {}
        /\ \A c \in Client : c # caller[id] =>
             id \notin media[c] /\ call[c].id # id

\* A tab that has not received its copy of an invite knows nothing of the call.
Untouched ==
    \A m \in net : m.type = "invite" =>
        /\ Owner[m.to] = callee[m.id]
        /\ m.id \notin media[m.to] /\ call[m.to].id # m.id
        /\ m.to \notin joined[m.id]

\* What a tab holds in each status of its call, and while it asks for camera
\* and microphone.
StageOf(c) ==
    LET id == session[c] IN
    id # NoId =>
        /\ call[c].status = "ringing" =>
             mesh[c] = {} /\ timers[c] \subseteq {<<"ring", id>>}
        /\ call[c].status = "connecting" =>
             /\ peer[c] = NoOne
             /\ timers[c] = IF mesh[c] = {} THEN {} ELSE {<<"connect", id>>}
        /\ call[c].status = "active" => peer[c] # NoOne /\ timers[c] = {}
        /\ call[c].status = "reconnecting" =>
             peer[c] = NoOne /\ timers[c] = {<<"reconnect", id>>}
        /\ id \in media[c] =>
             /\ mesh[c] = {} /\ timers[c] = {}
             /\ call[c].status = IF call[c].dir = "outgoing"
                                 THEN "ringing" ELSE "connecting"
        /\ c \in Broadcaster /\ id \notin media[c] =>
             /\ call[c].status = "ringing" => timers[c] # {}
             /\ call[c].status = "connecting" => mesh[c] # {}
Stages == \A c \in Client : StageOf(c)

\* Whoever accepts has joined the mesh of the call.
AcceptsJoined == \A m \in net : m.type = "accept" => m.from \in joined[m.id]

\* A ringtone, and a profile that is awaited for one, belong to a call that
\* another tab dialled.
RungByOthers ==
    \A c \in Client :
        /\ \A id \in profiles[c] : caller[id] \notin {c, NoOne}
        /\ ringing[c] => session[c] # NoId /\ caller[session[c]] # c

Life == /\ Fresh /\ Untouched /\ Stages /\ AcceptsJoined /\ RungByOthers
        /\ CallerWaitsForAccept
LInv == IInv /\ Life

LEMMA LifeInit == Init => Life
<1> SUFFICES ASSUME Init PROVE Life
  OBVIOUS
<1>1. Fresh
  BY CallAssumption DEF Init, Fresh, NotSent, NoCall
<1>2. Stages
  BY DEF Init, Stages, StageOf
<1>3. Untouched /\ AcceptsJoined /\ RungByOthers
  BY DEF Init, Untouched, AcceptsJoined, RungByOthers
<1>4. CallerWaitsForAccept
  BY DEF Init, CallerWaitsForAccept, InCall
<1> QED BY <1>1, <1>2, <1>3, <1>4 DEF Life

\* How the updates of a Redux call treat the fields they do not name.
LEMMA UpdateFields ==
    ASSUME NEW k \in Calls
    PROVE  /\ \A s \in Status : LET n == ToStatus(k, s) IN
                /\ n.id = k.id /\ n.dir = k.dir /\ n.status = s
                /\ n.post = k.post /\ n.started = k.started
                /\ n.reason = k.reason
           /\ \A r \in Reason : LET n == ToEnded(k, r) IN
                /\ n.id = k.id /\ n.dir = k.dir /\ n.status = "ended"
                /\ n.post = k.post /\ n.started = k.started /\ n.reason = r
           /\ LET n == [k EXCEPT !.status = "active", !.started = TRUE] IN
                /\ n.id = k.id /\ n.dir = k.dir /\ n.status = "active"
                /\ n.post = k.post /\ n.started = TRUE /\ n.reason = k.reason
BY DEF Calls, ToStatus, ToEnded

LEMMA PostFields ==
    ASSUME NEW k \in Calls
    PROVE  /\ [k EXCEPT !.post = TRUE].id = k.id
           /\ [k EXCEPT !.post = TRUE].dir = k.dir
           /\ [k EXCEPT !.post = TRUE].status = k.status
           /\ [k EXCEPT !.post = TRUE].post = TRUE
           /\ [k EXCEPT !.post = TRUE].started = k.started
           /\ [k EXCEPT !.post = TRUE].reason = k.reason
BY DEF Calls

LEMMA NewCallFields ==
    ASSUME NEW id, NEW dir
    PROVE  /\ NewCall(id, dir).id = id /\ NewCall(id, dir).dir = dir
           /\ NewCall(id, dir).status = "ringing"
           /\ NewCall(id, dir).reason = "none"
           /\ NewCall(id, dir).started = FALSE
           /\ NewCall(id, dir).post = FALSE
BY DEF NewCall

\* An accept cannot reach a caller who has not invited anybody yet.
LEMMA AcceptedAfterInvite ==
    ASSUME LInv, NEW c \in Client, TurnAccepted(c)
    PROVE  /\ session[c] \notin media[c] /\ call[c].dir = "outgoing"
           /\ call[c].status = "ringing" /\ ~NotSent(session[c])
           /\ \E d \in joined[session[c]] : Owner[d] = callee[session[c]]
<1>1. PICK m \in net : m.id = session[c] /\ Accepts(c, m)
  BY DEF TurnAccepted
<1>2. /\ call[c].dir = "outgoing" /\ call[c].status = "ringing"
      /\ m.type = "accept" /\ PeerId(c, session[c]) = Owner[m.from]
      /\ session[c] \in CallId
  BY <1>1, TabFacts DEF Accepts, Addressed, TurnAccepted, LInv
<1>3. caller[session[c]] = c /\ Owner[m.from] = callee[session[c]]
  BY <1>2, IdFacts DEF LInv, TurnAccepted, PeerId
<1>4. m.from # caller[session[c]]
  BY <1>2, <1>3, IdFacts, CallAssumption DEF LInv
<1>5. ~NotSent(session[c])
  BY <1>1, <1>2, <1>4 DEF LInv, Life, Fresh
<1>6. m.from \in joined[session[c]]
  BY <1>1, <1>2 DEF LInv, Life, AcceptsJoined
<1> QED BY <1>2, <1>3, <1>5, <1>6 DEF NotSent

\* The turns whose status is not in the code's guard, but follows from it.
LEMMA StatusFacts ==
    ASSUME IInv, Stages, NEW c \in Client
    PROVE  /\ TurnAsked(c) => call[c].status = "ringing" /\ session[c] # NoId
           /\ TurnAnswer(c) => call[c].status = "ringing"
           /\ TurnJoin(c) \/ TurnStuck(c) =>
                call[c].status = "connecting" /\ session[c] # NoId
           /\ TurnConnect(c) => call[c].status \in {"connecting", "reconnecting"}
           /\ TurnDisconnect(c) => call[c].status = "active"
<1>1. StageOf(c) /\ NoId \notin media[c]
  BY IdFacts, CallAssumption DEF Stages
<1>2. session[c] # NoId =>
        /\ call[c].status \in {"ringing", "connecting", "active", "reconnecting"}
        /\ peer[c] # NoOne => mesh[c] # {}
  BY TabFacts DEF Calls, Status
<1>3. TurnAsked(c) => call[c].status = "ringing" /\ session[c] # NoId
  BY <1>1, IdFacts DEF TurnAsked, StageOf
<1>4. TurnAnswer(c) => call[c].status = "ringing"
  BY DEF TurnAnswer, Incoming
<1>5. TurnJoin(c) \/ TurnStuck(c) =>
                call[c].status = "connecting" /\ session[c] # NoId
  BY <1>1, IdFacts DEF TurnJoin, TurnStuck, StageOf
<1>6. TurnConnect(c) => call[c].status \in {"connecting", "reconnecting"}
  BY <1>1, <1>2 DEF TurnConnect, StageOf
<1>7. TurnDisconnect(c) => call[c].status = "active"
  BY <1>1, <1>2 DEF TurnDisconnect, StageOf
<1> QED BY <1>3, <1>4, <1>5, <1>6, <1>7

LEMMA StagesTurn ==
    ASSUME LInv, NEW c \in Client, Turn(c), OthersKeep(c), OthersWait(c)
    PROVE  Stages'
<1>0. IInv /\ Stages /\ StageOf(c) /\ Untouched
  BY DEF LInv, Life, Stages
<1>1. SUFFICES StageOf(c)'
  <2> SUFFICES ASSUME NEW d \in Client, d # c PROVE StageOf(d)'
    BY <1>1 DEF Stages
  <2>1. StageOf(d)
    BY <1>0 DEF Stages
  <2>2. /\ session'[d] = session[d] /\ call'[d] = call[d] /\ mesh'[d] = mesh[d]
        /\ timers'[d] = timers[d] /\ peer'[d] = peer[d] /\ media'[d] = media[d]
    BY DEF OthersKeep, OthersWait
  <2> QED BY <2>1, <2>2 DEF StageOf
<1>2. session[c] # NoId =>
        /\ call[c] \in Calls
        /\ call[c].status \in {"ringing", "connecting", "active", "reconnecting"}
        /\ peer[c] # NoOne => mesh[c] # {}
        /\ call[c].dir \in {"outgoing", "incoming"}
  BY <1>0, TabFacts, IdFacts DEF Calls, Status
<1>3. CASE TurnIdle(c)
  <2>1. session[c] # NoId => /\ call'[c].status = call[c].status
                             /\ call'[c].dir = call[c].dir
    BY <1>2, <1>3, PostFields DEF TurnIdle
  <2>2. /\ session'[c] = session[c] /\ timers'[c] = timers[c]
        /\ mesh'[c] = mesh[c] /\ peer'[c] = peer[c]
        /\ session[c] \in media[c] <=> session[c] \in media'[c]
    BY <1>3 DEF TurnIdle, KeepsLinks
  <2> QED BY <1>0, <2>1, <2>2 DEF StageOf
<1>4. CASE TurnClose(c) \/ TurnEnd(c) \/ TurnLeave(c)
  BY <1>4 DEF TurnClose, TurnEnd, TurnLeave, Freed, KeepsLinks, StageOf
<1>5. CASE TurnBegin(c)
  <2>0. PICK i \in CallId, dir \in {"outgoing", "incoming"} :
          /\ session'[c] = i /\ call'[c] = NewCall(i, dir) /\ mesh'[c] = {}
          /\ \/ dir = "outgoing" /\ timers'[c] = {} /\ i \in media'[c]
             \/ /\ dir = "incoming" /\ timers'[c] = {<<"ring", i>>}
                /\ media'[c] = media[c]
                /\ \E m \in net : m.type = "invite" /\ m.to = c /\ m.id = i
    BY <1>5 DEF TurnBegin
  <2>1. dir = "incoming" => i \notin media'[c]
    <3> SUFFICES ASSUME dir = "incoming" PROVE i \notin media'[c]
      OBVIOUS
    <3>1. PICK m \in net : m.type = "invite" /\ m.to = c /\ m.id = i
      BY <2>0
    <3>2. media'[c] = media[c]
      BY <2>0
    <3> QED BY <1>0, <3>1, <3>2 DEF Untouched
  <2>2. call'[c].status = "ringing" /\ call'[c].dir = dir
    <3>1. call'[c] = NewCall(i, dir)
      BY <2>0
    <3> QED BY <3>1 DEF NewCall
  <2> QED BY <2>0, <2>1, <2>2 DEF StageOf
<1>6. CASE TurnAsked(c)
  <2>1. session[c] # NoId /\ call[c].status = "ringing" /\ timers[c] = {}
    BY <1>0, <1>6, StatusFacts DEF TurnAsked, StageOf
  <2> QED BY <1>0, <1>6, <2>1 DEF TurnAsked, StageOf
<1>7. CASE TurnAnswer(c)
  <2>1. /\ call'[c].status = "connecting" /\ call'[c].dir = "incoming"
        /\ call[c].status = "ringing"
    BY <1>0, <1>2, <1>7, UpdateFields, StatusFacts
       DEF TurnAnswer, Incoming, Status
  <2>2. mesh'[c] = {} /\ timers'[c] = {} /\ peer'[c] = NoOne
    BY <1>0, <1>2, <1>7, <2>1 DEF TurnAnswer, StageOf
  <2> QED BY <1>7, <2>1, <2>2 DEF TurnAnswer, StageOf
<1>8. CASE TurnAccepted(c)
  <2>1. session[c] \notin media[c] /\ call[c].status = "ringing"
    BY <1>8, AcceptedAfterInvite
  <2>2. call'[c].status = "connecting"
    BY <1>2, <1>8, UpdateFields DEF TurnAccepted, Status
  <2>3. peer[c] = NoOne /\ timers[c] \subseteq {<<"ring", session[c]>>}
    BY <1>0, <1>2, <1>8, <2>1 DEF TurnAccepted, StageOf
  <2>4. timers'[c] = {<<"connect", session[c]>>}
    BY <1>8, <2>3 DEF TurnAccepted
  <2> QED BY <1>8, <2>1, <2>2, <2>3, <2>4 DEF TurnAccepted, StageOf
<1>9. CASE TurnJoin(c)
  <2>1. call[c].status = "connecting" /\ session[c] # NoId
    BY <1>0, <1>9, StatusFacts
  <2>2. timers[c] = {} /\ peer[c] = NoOne
    BY <1>0, <1>9, <2>1 DEF TurnJoin, StageOf
  <2>3. timers'[c] = {<<"connect", session[c]>>}
    BY <1>9, <2>2 DEF TurnJoin
  <2> QED BY <1>9, <2>1, <2>2, <2>3 DEF TurnJoin, StageOf
<1>10. CASE TurnStuck(c)
  BY <1>0, <1>10, StatusFacts DEF TurnStuck, KeepsLinks, StageOf
<1>11. CASE TurnConnect(c)
  <2>1. call[c].status \in {"connecting", "reconnecting"} /\ session[c] # NoId
    BY <1>0, <1>11, StatusFacts DEF TurnConnect
  <2>2. call'[c].status = "active"
    BY <1>2, <1>11, UpdateFields DEF TurnConnect
  <2>3. timers[c] \subseteq {"connect", "reconnect"} \X {session[c]}
    BY <1>0, <2>1 DEF StageOf
  <2>4. timers'[c] = {}
    BY <1>11, <2>3 DEF TurnConnect
  <2> QED BY <1>0, <1>11, <2>1, <2>2, <2>4 DEF TurnConnect, StageOf
<1>12. CASE TurnDisconnect(c)
  <2>1. call[c].status = "active" /\ session[c] # NoId
    BY <1>0, <1>12, StatusFacts DEF TurnDisconnect
  <2>2. call'[c].status = "reconnecting"
    BY <1>2, <1>12, UpdateFields DEF TurnDisconnect, Status
  <2>3. timers'[c] = {<<"reconnect", session[c]>>} /\ mesh'[c] # {}
    BY <1>0, <1>2, <1>12, <2>1 DEF TurnDisconnect, StageOf
  <2> QED BY <1>0, <1>12, <2>1, <2>2, <2>3 DEF TurnDisconnect, StageOf
<1> QED BY <1>3, <1>4, <1>5, <1>6, <1>7, <1>8, <1>9, <1>10, <1>11, <1>12 DEF Turn

\* Only a call that is dialled, or answered, starts to ask for media.
LEMMA AsksOnce ==
    ASSUME IInv, NEW c \in Client, Turn(c), NEW i \in media'[c] \ media[c]
    PROVE  /\ session'[c] = i
           /\ \/ TurnBegin(c) /\ caller[i] = NoOne
              \/ session[c] = i /\ Incoming(c)
<1>1. CASE TurnBegin(c)
  <2>1. PICK j \in CallId :
          /\ session'[c] = j
          /\ \/ caller[j] = NoOne /\ media'[c] = media[c] \cup {j}
             \/ media'[c] = media[c]
    BY <1>1 DEF TurnBegin
  <2> QED BY <1>1, <2>1
<1>2. CASE TurnAnswer(c)
  BY <1>2 DEF TurnAnswer
<1>3. CASE ~TurnBegin(c) /\ ~TurnAnswer(c)
  <2>1. media'[c] \subseteq media[c]
    <3>1. CASE TurnIdle(c) \/ TurnClose(c) \/ TurnEnd(c) \/ TurnLeave(c)
      BY <3>1 DEF TurnIdle, TurnClose, TurnEnd, TurnLeave, Freed
    <3>2. CASE TurnAsked(c) \/ TurnJoin(c) \/ TurnStuck(c)
      BY <3>2 DEF TurnAsked, TurnJoin, TurnStuck
    <3>3. CASE TurnAccepted(c) \/ TurnConnect(c) \/ TurnDisconnect(c)
      BY <3>3 DEF TurnAccepted, TurnConnect, TurnDisconnect
    <3> QED BY <1>3, <3>1, <3>2, <3>3 DEF Turn
  <2> QED BY <2>1
<1> QED BY <1>1, <1>2, <1>3

\* A turn sends the invite of a call at most once.
LEMMA NotSentShrinks ==
    ASSUME LInv, NEW c \in Client, Turn(c), OthersWait(c),
           NEW id \in CallId, NotSent(id)'
    PROVE  /\ NotSent(id) /\ caller'[id] \in {caller[id], c}
           /\ caller'[id] # caller[id] => caller[id] = NoOne /\ session'[c] = id
<1>1. /\ caller \in [CallId -> Client \cup {NoOne}] /\ NoOne \notin Client
      /\ IInv
  BY CallAssumption DEF LInv, IInv, Inv, TypeOK
<1>2. /\ caller'[id] \in {caller[id], c}
      /\ caller'[id] # caller[id] => caller[id] = NoOne /\ session'[c] = id
  BY <1>1 DEF Turn, TurnBegin, TurnAccepted, TurnJoin, JoinsCall, callVars
<1>3. ASSUME caller'[id] = caller[id], caller[id] # NoOne
      PROVE  id \in media[caller[id]]
  <2> DEFINE a == caller[id]
  <2>1. a \in Client /\ id \in media'[a]
    BY <1>1, <1>3 DEF NotSent
  <2>2. CASE a # c
    BY <2>1, <2>2 DEF OthersWait
  <2>3. CASE a = c
    <3>1. ~(session[c] = id /\ Incoming(c))
      BY <1>1, <2>3, IdFacts, CallAssumption DEF Incoming
    <3> QED BY <1>1, <1>3, <2>1, <2>3, <3>1, AsksOnce
  <2> QED BY <2>2, <2>3
<1> QED BY <1>2, <1>3 DEF NotSent

\* The id a tab shows changes when a call begins only.
LEMMA ShownIds ==
    ASSUME IInv, NEW c \in Client, Turn(c)
    PROVE  call'[c].id \in {call[c].id, NoId} \/ TurnBegin(c)
<1>1. session[c] # NoId => call[c] \in Calls
  BY TabFacts
<1>2. CASE TurnIdle(c)
  BY <1>1, <1>2, PostFields DEF TurnIdle
<1>3. CASE TurnClose(c) \/ TurnEnd(c) \/ TurnLeave(c)
  BY <1>1, <1>3, UpdateFields DEF TurnClose, TurnEnd, TurnLeave, NoCall
<1>4. CASE TurnAsked(c) \/ TurnJoin(c) \/ TurnStuck(c)
  BY <1>4 DEF TurnAsked, TurnJoin, TurnStuck
<1>5. CASE TurnAnswer(c) \/ TurnAccepted(c) \/ TurnDisconnect(c)
  BY <1>1, <1>5, UpdateFields
     DEF TurnAnswer, TurnAccepted, TurnDisconnect, Status
<1>6. CASE TurnConnect(c)
  BY <1>1, <1>6, UpdateFields DEF TurnConnect
<1> QED BY <1>2, <1>3, <1>4, <1>5, <1>6 DEF Turn

\* Who joins a call is in it, and was not asked to join before its invite.
LEMMA JoinsLate ==
    ASSUME LInv, NEW c \in Client, Turn(c), NEW id \in CallId,
           joined'[id] # joined[id]
    PROVE  /\ id = session[c] /\ ~NotSent(id) /\ joined'[id] = joined[id] \cup {c}
           /\ TurnAccepted(c) \/ TurnJoin(c)
<1>0. IInv /\ joined \in [CallId -> SUBSET Client]
  BY DEF LInv, IInv, Inv, TypeOK
<1>1. TurnAccepted(c) \/ TurnJoin(c)
  BY DEF Turn, TurnBegin, callVars
<1>2. JoinsCall(c)
  BY <1>1 DEF TurnAccepted, TurnJoin
<1>3. id = session[c] /\ joined'[id] = joined[id] \cup {c}
  BY <1>0, <1>2 DEF JoinsCall
<1>4. ~NotSent(id)
  <2>1. CASE TurnAccepted(c)
    BY <1>3, <2>1, AcceptedAfterInvite
  <2>2. CASE TurnJoin(c)
    <3>1. id \in media[c] /\ caller[id] # c /\ caller[id] \in Client
      BY <1>0, <1>3, <2>2, IdFacts DEF TurnJoin
    <3> QED BY <3>1 DEF LInv, Life, Fresh
  <2> QED BY <1>1, <2>1, <2>2
<1> QED BY <1>1, <1>3, <1>4

LEMMA FreshTurn ==
    ASSUME LInv, NEW c \in Client, TabStep(c), Turn(c), OthersKeep(c), OthersWait(c)
    PROVE  Fresh'
<1> SUFFICES ASSUME NEW id \in CallId, NotSent(id)'
             PROVE  /\ \A m \in net' : m.id = id => m.from = caller'[id]
                    /\ joined'[id] = {}
                    /\ \A d \in Client : d # caller'[id] =>
                         id \notin media'[d] /\ call'[d].id # id
  BY DEF Fresh
<1>0. IInv /\ id # NoId
  BY TabFacts DEF LInv
<1>1. /\ NotSent(id) /\ caller'[id] \in {caller[id], c}
      /\ caller'[id] # caller[id] => caller[id] = NoOne /\ session'[c] = id
  BY NotSentShrinks
<1>2. /\ \A m \in net : m.id = id => m.from = caller[id]
      /\ joined[id] = {}
      /\ \A d \in Client : d # caller[id] => id \notin media[d] /\ call[d].id # id
  BY <1>1 DEF LInv, Life, Fresh
<1>3. joined'[id] = {}
  BY <1>1, <1>2, JoinsLate
<1>4. caller[id] = NoOne => \A m \in net : m.id # id
  BY <1>0, IdFacts, CallAssumption
<1>5. ASSUME NEW m \in net', m.id = id PROVE m.from = caller'[id]
  <2>1. CASE m \in net
    BY <1>1, <1>2, <1>4, <1>5, <2>1
  <2>2. CASE m \notin net
    <3>1. NewMessage(c, m)
      BY <1>0, <2>2, TabMessages
    <3>2. ~\E n \in net : n.type = "invite" /\ n.id = id
      <4> SUFFICES ASSUME NEW n \in net, n.type = "invite", n.id = id
                   PROVE  FALSE
        OBVIOUS
      <4>1. n.from = caller[id] /\ id \notin media[caller[id]]
        BY <1>0, IdFacts
      <4> QED BY <1>1, <1>4, <4>1 DEF NotSent
    <3>3. id = session[c] \/ id \in media[c]
      BY <1>5, <3>1, <3>2 DEF NewMessage
    <3>4. session[c] = id => call[c].id = id
      BY <1>0, TabFacts
    <3>5. c = caller[id]
      BY <1>2, <3>3, <3>4
    <3> QED BY <1>1, <3>1, <3>5 DEF NewMessage
  <2> QED BY <2>1, <2>2
<1>6. ASSUME NEW d \in Client, d # caller'[id]
      PROVE  id \notin media'[d] /\ call'[d].id # id
  <2>1. CASE d # c
    <3>1. d # caller[id]
      BY <1>1, <1>6, CallAssumption
    <3> QED BY <1>2, <2>1, <3>1 DEF OthersKeep, OthersWait
  <2>2. CASE d = c
    <3>1. c # caller[id] /\ caller'[id] = caller[id]
      BY <1>1, <1>6, <2>2
    <3>2. id \notin media[c] /\ call[c].id # id
      BY <1>2, <3>1
    <3>3. session[c] # id
      BY <1>0, <3>2, TabFacts
    <3>4. ~(TurnBegin(c) /\ session'[c] = id)
      <4> SUFFICES ASSUME TurnBegin(c), session'[c] = id PROVE FALSE
        OBVIOUS
      <4>1. CASE caller[id] = NoOne /\ caller' = [caller EXCEPT ![id] = c]
        BY <1>0, <3>1, <4>1, CallAssumption DEF IInv, Inv, TypeOK
      <4>2. CASE \E n \in net : n.type = "invite" /\ n.id = id
        <5>1. PICK n \in net : n.type = "invite" /\ n.id = id
          BY <4>2
        <5>2. n.from = caller[id] /\ id \notin media[caller[id]]
          BY <1>0, <5>1, IdFacts
        <5> QED BY <1>1, <1>4, <5>1, <5>2 DEF NotSent
      <4> QED BY <4>1, <4>2 DEF TurnBegin
    <3>5. id \notin media'[c]
      <4> SUFFICES ASSUME id \in media'[c] PROVE FALSE
        OBVIOUS
      <4>1. session'[c] = id /\ TurnBegin(c)
        BY <1>0, <3>2, <3>3, AsksOnce
      <4> QED BY <3>4, <4>1
    <3>6. call'[c].id # id
      <4>1. CASE TurnBegin(c)
        <5>1. call'[c].id = session'[c]
          BY <4>1 DEF TurnBegin, NewCall
        <5> QED BY <3>4, <4>1, <5>1
      <4>2. CASE ~TurnBegin(c)
        BY <1>0, <3>2, <4>2, ShownIds
      <4> QED BY <4>1, <4>2
    <3> QED BY <2>2, <3>5, <3>6
  <2> QED BY <2>1, <2>2
<1> QED BY <1>3, <1>5, <1>6

LEMMA UntouchedTurn ==
    ASSUME LInv, NEW c \in Client, TabStep(c), Turn(c), OthersKeep(c), OthersWait(c)
    PROVE  Untouched'
<1> SUFFICES ASSUME NEW m \in net', m.type = "invite"
             PROVE  /\ Owner[m.to] = callee'[m.id]
                    /\ m.id \notin media'[m.to] /\ call'[m.to].id # m.id
                    /\ m.to \notin joined'[m.id]
  BY DEF Untouched
<1> DEFINE id == m.id  d == m.to
<1>0. IInv /\ TypeOK /\ NoOne \notin Client /\ NoId \notin CallId
  BY CallAssumption DEF LInv, IInv, Inv
<1>1. /\ Owner[d] = callee[id] /\ id \notin media[d] /\ call[d].id # id
      /\ d \notin joined[id] /\ session[d] # id /\ caller[id] \in Client
      /\ id \in CallId /\ d \in Client
  <2>1. CASE m \in net
    BY <1>0, <2>1, IdFacts DEF LInv, Life, Untouched
  <2>2. CASE m \notin net
    <3>1. NewMessage(c, m)
      BY <1>0, <2>2, TabMessages
    <3>2. /\ id \in CallId /\ d \in Client /\ caller[id] = c
          /\ id \in media[c] /\ Owner[d] = callee[id]
      BY <3>1 DEF NewMessage, Message
    <3>3. NotSent(id) /\ d # c
      BY <1>0, <3>2, IdFacts DEF NotSent
    <3>4. id \notin media[d] /\ call[d].id # id /\ joined[id] = {}
      BY <3>2, <3>3 DEF LInv, Life, Fresh
    <3>5. session[d] # id
      BY <1>0, <3>2, <3>4, TabFacts
    <3> QED BY <3>2, <3>4, <3>5
  <2> QED BY <2>1, <2>2
<1> HIDE DEF id, d
<1>2. callee'[id] = callee[id]
  <2>1. caller[id] # NoOne
    BY <1>0, <1>1
  <2>2. \/ UNCHANGED callVars \/ callee' = callee
        \/ \E i \in CallId, user \in User :
             caller[i] = NoOne /\ callee' = [callee EXCEPT ![i] = user]
    BY DEF Turn, TurnBegin, TurnAccepted, TurnJoin, JoinsCall
  <2> QED BY <1>0, <1>1, <2>1, <2>2 DEF TypeOK, callVars
<1>3. d \notin joined'[id]
  BY <1>1, JoinsLate
<1>4. ~(d = c /\ TurnBegin(c) /\ session'[c] = id)
  <2> SUFFICES ASSUME d = c, TurnBegin(c), session'[c] = id PROVE FALSE
    OBVIOUS
  <2>1. caller[id] # NoOne
    BY <1>0, <1>1
  <2>2. PICK n \in net : n.type = "invite" /\ n.to = c /\ n.id = id
                         /\ net' = net \ {n}
    BY <2>1 DEF TurnBegin
  <2>3. m \in net /\ m # n
    BY <2>2
  <2>4. n.from = m.from /\ n.to = m.to /\ n.type = m.type /\ n.id = m.id
    BY <1>0, <2>2, <2>3, IdFacts DEF id, d
  <2>5. m \in Message /\ n \in Message
    BY <1>0, <2>2, <2>3, IdFacts
  <2> QED BY <2>3, <2>4, <2>5 DEF Message
<1>5. id \notin media'[d] /\ call'[d].id # id
  <2>1. CASE d # c
    BY <1>1, <2>1 DEF OthersKeep, OthersWait
  <2>2. CASE d = c
    <3>1. id \notin media'[c]
      BY <1>0, <1>1, <1>4, <2>2, AsksOnce
    <3>2. call'[c].id # id
      <4>1. CASE TurnBegin(c)
        <5>1. call'[c].id = session'[c]
          BY <4>1 DEF TurnBegin, NewCall
        <5> QED BY <1>4, <2>2, <4>1, <5>1
      <4>2. CASE ~TurnBegin(c)
        BY <1>0, <1>1, <2>2, <4>2, ShownIds
      <4> QED BY <4>1, <4>2
    <3> QED BY <2>2, <3>1, <3>2
  <2> QED BY <2>1, <2>2
<1> QED BY <1>1, <1>2, <1>3, <1>5 DEF id, d

\* Nobody leaves `joined`, and a call keeps its caller.
LEMMA CallsKept ==
    ASSUME IInv, NEW c \in Client, Turn(c)
    PROVE  /\ \A id \in CallId : joined[id] \subseteq joined'[id]
           /\ \A id \in CallId : caller[id] # NoOne =>
                caller'[id] = caller[id] /\ callee'[id] = callee[id]
<1>0. /\ caller \in [CallId -> Client \cup {NoOne}]
      /\ callee \in [CallId -> User \cup {NoOne}]
      /\ joined \in [CallId -> SUBSET Client]
  BY DEF IInv, Inv, TypeOK
<1>1. CASE UNCHANGED callVars
  BY <1>1 DEF callVars
<1>2. CASE TurnBegin(c)
  <2>1. \/ UNCHANGED callVars
        \/ \E i \in CallId, user \in User :
             /\ caller[i] = NoOne /\ caller' = [caller EXCEPT ![i] = c]
             /\ callee' = [callee EXCEPT ![i] = user] /\ joined' = joined
    BY <1>2 DEF TurnBegin
  <2> QED BY <1>0, <2>1 DEF callVars
<1>3. CASE TurnAccepted(c) \/ TurnJoin(c)
  BY <1>0, <1>3 DEF TurnAccepted, TurnJoin, JoinsCall
<1> QED BY <1>1, <1>2, <1>3 DEF Turn

LEMMA AcceptsTurn ==
    ASSUME LInv, NEW c \in Client, TabStep(c), Turn(c)
    PROVE  AcceptsJoined'
<1> SUFFICES ASSUME NEW m \in net', m.type = "accept"
             PROVE  m.from \in joined'[m.id]
  BY DEF AcceptsJoined
<1>1. CASE m \in net
  BY <1>1, CallsKept, IdFacts DEF LInv, Life, AcceptsJoined
<1>2. CASE m \notin net
  BY <1>2, TabMessages DEF LInv, NewMessage
<1> QED BY <1>1, <1>2

LEMMA RungTurn ==
    ASSUME LInv, TypeOK', NEW c \in Client, Turn(c), RingTurn(c), OthersKeep(c),
           OthersWait(c)
    PROVE  RungByOthers'
<1>0. IInv /\ RungByOthers /\ TypeOK
  BY DEF LInv, Life, IInv, Inv
<1>1. ASSUME NEW d \in Client, NEW id \in profiles'[d]
      PROVE  caller'[id] \notin {d, NoOne}
  <2>1. caller[id] \notin {d, NoOne}
    <3>1. CASE d # c
      BY <1>0, <1>1, <3>1 DEF OthersWait, RungByOthers
    <3>2. CASE d = c
      BY <1>0, <1>1, <3>2 DEF RingTurn, RungByOthers
    <3> QED BY <3>1, <3>2
  <2>2. id \in CallId
    BY DEF TypeOK
  <2> QED BY <1>0, <2>1, <2>2, CallsKept
<1>2. ASSUME NEW d \in Client, ringing'[d]
      PROVE  session'[d] # NoId /\ caller'[session'[d]] # d
  <2>1. session'[d] = session[d] /\ session[d] # NoId /\ caller[session[d]] # d
    <3>1. CASE d # c
      BY <1>0, <1>2, <3>1 DEF OthersKeep, OthersWait, RungByOthers
    <3>2. CASE d = c
      <4>1. ringing[c] \/ session[c] \in profiles[c]
        BY <1>2, <3>2 DEF RingTurn
      <4>2. session[c] # NoId /\ caller[session[c]] # c
        BY <1>0, <4>1, CallAssumption DEF RungByOthers, TypeOK
      <4> QED BY <1>2, <3>2, <4>2 DEF RingTurn
    <3> QED BY <3>1, <3>2
  <2>2. caller'[session[d]] = caller[session[d]]
    BY <1>0, <2>1, CallsKept, SessionDialled
  <2> QED BY <2>1, <2>2
<1> QED BY <1>1, <1>2 DEF RungByOthers

LEMMA CallerWaitsTurn ==
    ASSUME LInv, NEW c \in Client, Turn(c), OthersKeep(c)
    PROVE  CallerWaitsForAccept'
<1> SUFFICES ASSUME NEW d \in Client, InCall(d)', call'[d].dir = "outgoing",
                    call'[d].status # "ringing"
             PROVE  \E e \in joined'[call'[d].id] : Owner[e] = callee'[call'[d].id]
  BY DEF CallerWaitsForAccept
<1> DEFINE id == session[d]
    Has(i) == \E e \in joined[i] : Owner[e] = callee[i]
<1>0. IInv /\ Inv /\ Stages /\ CallerWaitsForAccept
  BY DEF LInv, Life, IInv, Inv
<1>1. SUFFICES id # NoId /\ call'[d].id = id /\ Has(id)
  BY <1>0, <1>1, CallsKept, SessionDialled
<1>2. ASSUME id # NoId, call[d].dir = "outgoing", call[d].status # "ringing"
      PROVE  Has(id) /\ call[d].id = id
  BY <1>0, <1>2, TabFacts, SessionFacts DEF CallerWaitsForAccept
<1>3. session[c] # NoId => call[c] \in Calls /\ call[c].id = session[c]
  BY <1>0, TabFacts
<1>4. CASE d # c
  <2>1. call'[d] = call[d] /\ InCall(d)
    BY <1>4 DEF OthersKeep, InCall
  <2>2. id # NoId
    BY <1>0, <2>1, SessionFacts
  <2> QED BY <1>2, <2>1, <2>2
<1>5. CASE d = c
  <2> HIDE DEF Has
  <2>1. CASE TurnIdle(c)
    <3>1. session[c] # NoId
      BY <1>0, <1>5, <2>1, SessionFacts DEF TurnIdle, InCall
    <3>2. /\ call'[c].dir = call[c].dir /\ call'[c].status = call[c].status
          /\ call'[c].id = call[c].id
      BY <1>3, <2>1, <3>1, PostFields DEF TurnIdle
    <3> QED BY <1>2, <1>5, <3>1, <3>2
  <2>2. CASE TurnClose(c) \/ TurnLeave(c)
    BY <1>5, <2>2 DEF TurnClose, TurnLeave, InCall
  <2>3. CASE TurnBegin(c)
    BY <1>5, <2>3 DEF TurnBegin, NewCall
  <2>4. CASE TurnEnd(c)
    BY <1>3, <1>5, <2>4, UpdateFields DEF TurnEnd, InCall
  <2>5. CASE TurnAsked(c) \/ TurnJoin(c) \/ TurnStuck(c)
    <3>1. session[c] # NoId /\ call'[c] = call[c]
      BY <1>0, <2>5, StatusFacts DEF TurnAsked, TurnJoin, TurnStuck
    <3> QED BY <1>2, <1>5, <3>1
  <2>6. CASE TurnAnswer(c)
    BY <1>3, <1>5, <2>6, UpdateFields DEF TurnAnswer, Incoming, Status
  <2>7. CASE TurnAccepted(c)
    <3>1. Has(session[c])
      BY <2>7, AcceptedAfterInvite DEF Has
    <3>2. call'[c].id = session[c] /\ session[c] # NoId
      BY <1>3, <2>7, UpdateFields DEF TurnAccepted, Status
    <3> QED BY <1>5, <3>1, <3>2
  <2>8. CASE TurnConnect(c) \/ TurnDisconnect(c)
    <3>1. session[c] # NoId /\ call[c].status # "ringing"
      BY <1>0, <2>8, StatusFacts DEF TurnConnect, TurnDisconnect
    <3>2. call'[c].id = session[c] /\ call'[c].dir = call[c].dir
      <4>1. CASE TurnConnect(c)
        BY <1>3, <3>1, <4>1, UpdateFields DEF TurnConnect
      <4>2. CASE TurnDisconnect(c)
        BY <1>3, <3>1, <4>2, UpdateFields DEF TurnDisconnect, Status
      <4> QED BY <2>8, <4>1, <4>2
    <3> QED BY <1>2, <1>5, <3>1, <3>2
  <2> QED BY <2>1, <2>2, <2>3, <2>4, <2>5, <2>6, <2>7, <2>8 DEF Turn
<1> QED BY <1>4, <1>5

LEMMA LifeStep == LInv /\ [Next]_vars => LInv'
<1> SUFFICES ASSUME LInv, [Next]_vars PROVE LInv'
  OBVIOUS
<1>0. IInv /\ Life /\ IInv' /\ TypeOK'
  BY IInvStep DEF LInv, IInv, Inv
<1>1. ASSUME NEW c \in Client, TabStep(c) PROVE Life'
  <2>1. Turn(c) /\ OthersKeep(c) /\ OthersWait(c) /\ RingTurn(c)
    BY <1>0, <1>1, TabTurns, RingTurns
  <2> QED BY <1>0, <1>1, <2>1, StagesTurn, FreshTurn, UntouchedTurn, AcceptsTurn,
                RungTurn, CallerWaitsTurn DEF Life
<1>2. ASSUME ServerStep \/ UNCHANGED vars PROVE Life'
  <2>1. UNCHANGED <<session, call, timers, streams, mesh, slot, peer, ringing,
                    media, profiles, posting, caller, callee, joined>>
        /\ net' \subseteq net
    BY <1>2, ServerTurns DEF linkVars, callVars
  <2>2. Stages'
    BY <1>0, <2>1 DEF Life, Stages, StageOf
  <2>3. Fresh'
    BY <1>0, <2>1 DEF Life, Fresh, NotSent
  <2>4. Untouched' /\ AcceptsJoined'
    BY <1>0, <2>1 DEF Life, Untouched, AcceptsJoined
  <2>5. RungByOthers'
    BY <1>0, <2>1 DEF Life, RungByOthers
  <2>6. CallerWaitsForAccept'
    BY <1>0, <2>1 DEF Life, CallerWaitsForAccept, InCall
  <2> QED BY <2>2, <2>3, <2>4, <2>5, <2>6 DEF Life
<1>3. (\E c \in Client : TabStep(c)) \/ ServerStep \/ UNCHANGED vars
  BY DEF Next, TabStep
<1> QED BY <1>0, <1>1, <1>2, <1>3 DEF LInv

LEMMA LifeInvariance == Spec => []LInv
<1>1. Init => LInv
  BY IInvInit, LifeInit DEF LInv
<1> QED BY <1>1, LifeStep, PTL DEF Spec

\* A timer runs only in the status it was set for, so a leftover ring, connect
\* or reconnect timer never ends a call that has moved on.
THEOREM TimersFollowStatus == Spec => []TimersMatchStatus
<1>1. LInv => TimersMatchStatus
  <2> SUFFICES ASSUME LInv, NEW c \in Client, NEW id \in CallId,
                      NEW name \in {"ring", "connect", "reconnect"},
                      <<name, id>> \in timers[c]
               PROVE  call[c].status = IF name = "ring" THEN "ringing" ELSE
                         IF name = "connect" THEN "connecting" ELSE "reconnecting"
    BY DEF TimersMatchStatus
  <2>1. session[c] = id /\ id # NoId
    BY TabFacts DEF LInv
  <2>2. call[c].status \in {"ringing", "connecting", "active", "reconnecting"}
    BY <2>1, TabFacts DEF LInv, Calls, Status
  <2>3. StageOf(c)
    BY DEF LInv, Life, Stages
  <2> QED BY <2>1, <2>2, <2>3 DEF StageOf
<1> QED BY <1>1, LifeInvariance, PTL

\* A live call of a tab that can send waits for a permission prompt, a timer or
\* its connected peer, in every status.
THEOREM NoWaitWithoutExit == Spec => []WaitsHaveExits
<1>1. LInv => WaitsHaveExits
  <2> SUFFICES ASSUME LInv, NEW c \in Broadcaster, InCall(c) PROVE HasExit(c)
    BY DEF WaitsHaveExits
  <2>1. c \in Client /\ StageOf(c)
    BY CallAssumption DEF LInv, Life, Stages
  <2>2. session[c] # NoId
    BY <2>1, TabFacts DEF LInv
  <2>3. call[c].status \in {"ringing", "connecting", "active", "reconnecting"}
    BY <2>1, <2>2, TabFacts DEF LInv, Calls, Status
  <2> QED BY <2>1, <2>2, <2>3 DEF StageOf, HasExit
<1> QED BY <1>1, LifeInvariance, PTL

\* Whenever the ringtone plays the tab is in an incoming call: a profile that
\* comes late does not start it for a call that is over, nor for a caller.
THEOREM RingtoneHasItsCall == Spec => []RingStopsWithCall
<1>1. LInv => RingStopsWithCall
  <2> SUFFICES ASSUME LInv, NEW c \in Client, ringing[c]
               PROVE  InCall(c) /\ call[c].dir = "incoming"
    BY DEF RingStopsWithCall
  <2>1. session[c] # NoId /\ caller[session[c]] # c
    BY DEF LInv, Life, RungByOthers
  <2> QED BY <2>1, TabFacts, SessionFacts, IdFacts DEF LInv
<1> QED BY <1>1, LifeInvariance, PTL

\* A caller who is past "ringing" in a live call was accepted by a tab of the
\* callee that has joined the mesh of the call.
THEOREM CallerHasAccept == Spec => []CallerWaitsForAccept
<1>1. LInv => CallerWaitsForAccept
  BY DEF LInv, Life
<1> QED BY <1>1, LifeInvariance, PTL

-----------------------------------------------------------------------------
(* Refinement of CallLifecycle.                                             *)

ShownOf == [d \in Client |-> call[d].id]
DirectionOf == [d \in Client |-> call[d].dir]
StatusOf == [d \in Client |-> call[d].status]

LEMMA ShowsOneChange ==
    ASSUME NEW c \in Client, OthersKeep(c)
    PROVE  /\ ShownOf' = [ShownOf EXCEPT ![c] = call'[c].id]
           /\ DirectionOf' = [DirectionOf EXCEPT ![c] = call'[c].dir]
           /\ StatusOf' = [StatusOf EXCEPT ![c] = call'[c].status]
BY DEF OthersKeep, ShownOf, DirectionOf, StatusOf

LEMMA ShowsNoChange ==
    ASSUME NEW c \in Client, OthersKeep(c), call'[c].id = call[c].id,
           call'[c].dir = call[c].dir, call'[c].status = call[c].status
    PROVE  UNCHANGED Lifecycle!vars
<1>1. \A d \in Client : /\ call'[d].id = call[d].id /\ call'[d].dir = call[d].dir
                        /\ call'[d].status = call[d].status
  BY DEF OthersKeep
<1> QED BY <1>1 DEF Lifecycle!vars

\* A status that moves, the rest of the call stays.
LEMMA ShowsMove ==
    ASSUME NEW c \in Client, OthersKeep(c), call'[c].id = call[c].id,
           call'[c].dir = call[c].dir, NEW from, call[c].status \in from,
           NEW to, call'[c].status = to
    PROVE  Lifecycle!Move(c, from, to)
<1>1. ShownOf' = ShownOf /\ DirectionOf' = DirectionOf
  BY DEF OthersKeep, ShownOf, DirectionOf
<1>2. StatusOf' = [StatusOf EXCEPT ![c] = to]
  BY ShowsOneChange
<1>3. StatusOf[c] \in from
  BY DEF StatusOf
<1> QED BY <1>1, <1>2, <1>3 DEF Lifecycle!Move, ShownOf, DirectionOf, StatusOf

LEMMA ShowsClose ==
    ASSUME IInv, NEW c \in Client, OthersKeep(c), call'[c] = NoCall
    PROVE  [Lifecycle!Next]_Lifecycle!vars
<1>1. call[c] \in Calls \cup {NoCall}
  BY DEF IInv, Inv, TypeOK
<1>2. CASE call[c] = NoCall
  <2>1. UNCHANGED Lifecycle!vars
    BY <1>2, ShowsNoChange
  <2> QED BY <2>1
<1>3. CASE call[c] # NoCall
  <2>1. ShownOf[c] # NoId
    BY <1>1, <1>3, CallAssumption DEF Calls, ShownOf
  <2>2. /\ ShownOf' = [ShownOf EXCEPT ![c] = NoId]
        /\ DirectionOf' = [DirectionOf EXCEPT ![c] = "none"]
        /\ StatusOf' = [StatusOf EXCEPT ![c] = "none"]
    BY ShowsOneChange DEF NoCall
  <2>3. Lifecycle!Close(c)
    BY <2>1, <2>2 DEF Lifecycle!Close, ShownOf, DirectionOf, StatusOf
  <2> QED BY <2>3 DEF Lifecycle!Next
<1> QED BY <1>2, <1>3

LEMMA ShowsBegin ==
    ASSUME LInv, NEW c \in Client, OthersKeep(c), TurnBegin(c)
    PROVE  Lifecycle!Begin(c)
<1>1. PICK i \in CallId, dir \in {"outgoing", "incoming"} :
        /\ session[c] = NoId /\ call'[c] = NewCall(i, dir)
        /\ \/ caller[i] = NoOne
           \/ \E m \in net : m.type = "invite" /\ m.to = c /\ m.id = i
  BY DEF TurnBegin
<1>2. call[c].id # i
  <2>1. CASE caller[i] = NoOne
    BY <2>1, CallAssumption DEF LInv, Life, Fresh, NotSent
  <2>2. CASE \E m \in net : m.type = "invite" /\ m.to = c /\ m.id = i
    BY <2>2 DEF LInv, Life, Untouched
  <2> QED BY <1>1, <2>1, <2>2
<1>3. call[c].status \notin Lifecycle!Live
  <2>1. call[c] \in Calls \cup {NoCall} /\ ~InCall(c)
    BY <1>1, SessionFacts DEF LInv, IInv, Inv, TypeOK
  <2> QED BY <2>1 DEF InCall, NoCall, Lifecycle!Live
<1>4. /\ call'[c].id = i /\ call'[c].dir = dir /\ call'[c].status = "ringing"
  BY <1>1 DEF NewCall
<1>5. /\ ShownOf' = [ShownOf EXCEPT ![c] = i]
      /\ DirectionOf' = [DirectionOf EXCEPT ![c] = dir]
      /\ StatusOf' = [StatusOf EXCEPT ![c] = "ringing"]
  BY <1>4, ShowsOneChange
<1>6. StatusOf[c] \notin Lifecycle!Live /\ i \in CallId \ {ShownOf[c]}
  BY <1>2, <1>3 DEF StatusOf, ShownOf
<1> QED BY <1>5, <1>6 DEF Lifecycle!Begin, ShownOf, DirectionOf, StatusOf

LEMMA LifecycleInit == Init => Lifecycle!Init
BY DEF Init, Lifecycle!Init, NoCall

LEMMA LifecycleStep == LInv /\ [Next]_vars => [Lifecycle!Next]_Lifecycle!vars
<1> SUFFICES ASSUME LInv, [Next]_vars PROVE [Lifecycle!Next]_Lifecycle!vars
  OBVIOUS
<1>0. IInv /\ Stages
  BY DEF LInv, Life
<1>1. ASSUME NEW c \in Client, TabStep(c)
      PROVE  [Lifecycle!Next]_Lifecycle!vars
  <2>0. Turn(c) /\ OthersKeep(c)
    BY <1>0, <1>1, TabTurns
  <2>1. session[c] # NoId =>
          /\ call[c] \in Calls
          /\ call[c].status \in {"ringing", "connecting", "active", "reconnecting"}
    BY <1>0, TabFacts DEF Calls, Status
  <2>2. CASE TurnIdle(c)
    <3>1. /\ call'[c].id = call[c].id /\ call'[c].dir = call[c].dir
          /\ call'[c].status = call[c].status
      BY <2>1, <2>2, PostFields DEF TurnIdle
    <3> QED BY <2>0, <3>1, ShowsNoChange
  <2>3. CASE TurnAsked(c) \/ TurnJoin(c) \/ TurnStuck(c)
    <3>1. call'[c] = call[c]
      BY <2>3 DEF TurnAsked, TurnJoin, TurnStuck
    <3> QED BY <2>0, <3>1, ShowsNoChange
  <2>4. CASE TurnClose(c) \/ TurnLeave(c)
    BY <1>0, <2>0, <2>4, ShowsClose DEF TurnClose, TurnLeave
  <2>5. CASE TurnBegin(c)
    BY <2>0, <2>5, ShowsBegin DEF Lifecycle!Next
  <2>6. CASE TurnAnswer(c) \/ TurnAccepted(c)
    <3>1. session[c] # NoId /\ call[c].status = "ringing"
      BY <1>0, <2>6, StatusFacts, AcceptedAfterInvite DEF TurnAnswer, TurnAccepted
    <3>2. /\ call'[c].id = call[c].id /\ call'[c].dir = call[c].dir
          /\ call'[c].status = "connecting"
      BY <2>1, <2>6, <3>1, UpdateFields DEF TurnAnswer, TurnAccepted, Status
    <3>3. Lifecycle!Move(c, {"ringing"}, "connecting")
      BY <2>0, <3>1, <3>2, ShowsMove
    <3> QED BY <3>3 DEF Lifecycle!Next, Lifecycle!Answer
  <2>7. CASE TurnConnect(c)
    <3>1. session[c] # NoId /\ call[c].status \in {"connecting", "reconnecting"}
      BY <1>0, <2>7, StatusFacts DEF TurnConnect
    <3>2. /\ call'[c].id = call[c].id /\ call'[c].dir = call[c].dir
          /\ call'[c].status = "active"
      BY <2>1, <2>7, <3>1, UpdateFields DEF TurnConnect
    <3>3. Lifecycle!Move(c, {"connecting", "reconnecting"}, "active")
      BY <2>0, <3>1, <3>2, ShowsMove
    <3> QED BY <3>3 DEF Lifecycle!Next, Lifecycle!Connect
  <2>8. CASE TurnDisconnect(c)
    <3>1. session[c] # NoId /\ call[c].status = "active"
      BY <1>0, <2>8, StatusFacts DEF TurnDisconnect
    <3>2. /\ call'[c].id = call[c].id /\ call'[c].dir = call[c].dir
          /\ call'[c].status = "reconnecting"
      BY <2>1, <2>8, <3>1, UpdateFields DEF TurnDisconnect, Status
    <3>3. Lifecycle!Move(c, {"active"}, "reconnecting")
      BY <2>0, <3>1, <3>2, ShowsMove
    <3> QED BY <3>3 DEF Lifecycle!Next, Lifecycle!Disconnect
  <2>9. CASE TurnEnd(c)
    <3>1. session[c] # NoId /\ call[c].status \in Lifecycle!Live
      BY <2>1, <2>9 DEF TurnEnd, Lifecycle!Live
    <3>2. /\ call'[c].id = call[c].id /\ call'[c].dir = call[c].dir
          /\ call'[c].status = "ended"
      BY <2>1, <2>9, <3>1, UpdateFields DEF TurnEnd
    <3>3. Lifecycle!Move(c, Lifecycle!Live, "ended")
      BY <2>0, <3>1, <3>2, ShowsMove
    <3> QED BY <3>3 DEF Lifecycle!Next, Lifecycle!End
  <2> QED BY <2>0, <2>2, <2>3, <2>4, <2>5, <2>6, <2>7, <2>8, <2>9 DEF Turn
<1>2. ASSUME ServerStep \/ UNCHANGED vars PROVE UNCHANGED Lifecycle!vars
  BY <1>2, ServerTurns DEF Lifecycle!vars
<1>3. (\E c \in Client : TabStep(c)) \/ ServerStep \/ UNCHANGED vars
  BY DEF Next, TabStep
<1> QED BY <1>1, <1>2, <1>3

\* Every step of the controller is a step of the documented life of a call, or
\* none: no callback that comes late revives a call, skips a status or swaps
\* the call on screen for another.
THEOREM CallIsLifecycle == Spec => RefinesLifecycle
BY LifecycleInit, LifecycleStep, LifeInvariance, PTL
   DEF Spec, RefinesLifecycle, Lifecycle!Spec

-----------------------------------------------------------------------------
(* The call card.                                                           *)

(* What a step of tab c may do to the card of a call: nothing, or give up a *)
(* request, ...                                                             *)
CardKeep(c) ==
    /\ posting'[c] \subseteq posting[c] /\ creating' \subseteq creating
    /\ post' = post /\ patch' = patch
    /\ call'[c].post => call[c].post /\ call'[c].id = call[c].id

\* ... ask for it once the invite is sent, ...
CardCreate(c) ==
    /\ session[c] \in media[c] \ media'[c] /\ caller[session[c]] = c
    /\ posting'[c] = posting[c] \cup {session[c]}
    /\ creating' = creating \cup {session[c]}
    /\ post' = post /\ patch' = patch /\ call'[c] = call[c]

\* ... remember it, or record that its call is over, ...
CardRemember(c) ==
    /\ session[c] \in posting[c] /\ post[session[c]] # "none"
    /\ posting'[c] = posting[c] \ {session[c]}
    /\ creating' = creating /\ post' = post /\ patch' = patch
    /\ session[c] # NoId /\ call'[c] = [call[c] EXCEPT !.post = TRUE]

CardLate(c) ==
    \E id \in posting[c] :
        /\ session[c] # id /\ session'[c] = session[c] /\ post[id] # "none"
        /\ posting'[c] = posting[c] \ {id}
        /\ patch' = [patch EXCEPT ![id] =
              IF call[c].id = id /\ call[c].reason = "declined"
              THEN "declined" ELSE "missed"]
        /\ creating' = creating /\ post' = post /\ call'[c] = call[c]

\* ... or record the outcome when the call ends.
CardEnd(c) ==
    /\ session[c] # NoId /\ session'[c] = NoId
    /\ call[c].dir = "outgoing" /\ call[c].post
    /\ posting'[c] = posting[c] /\ creating' = creating /\ post' = post
    /\ \E r \in Reason :
        /\ patch' = [patch EXCEPT ![session[c]] = PostStatus(call[c], r)]
        /\ call'[c] \in {NoCall, ToEnded(call[c], r)}

CardTurn(c) == \/ CardKeep(c) \/ CardCreate(c) \/ CardRemember(c)
               \/ CardLate(c) \/ CardEnd(c)

\* A Redux call that changes, and not its post.
LEMMA CardsAlone ==
    ASSUME IInv, NEW c \in Client, UNCHANGED <<cardVars, patch>>,
           call'[c].post => call[c].post /\ call'[c].id = call[c].id
    PROVE  CardTurn(c)
BY DEF CardTurn, CardKeep, cardVars

LEMMA FinishCards ==
    ASSUME IInv, NEW c \in Client, session[c] # NoId, NEW r \in Reason,
           Finish(c, r) \/ FinishAndDismiss(c, r),
           media'[c] \subseteq media[c], UNCHANGED cardVars
    PROVE  CardTurn(c)
<1>1. /\ call'[c] \in {NoCall, ToEnded(call[c], r)}
      /\ call[c].dir = "outgoing" /\ call[c].post =>
           patch' = [patch EXCEPT ![session[c]] = PostStatus(call[c], r)]
      /\ ~(call[c].dir = "outgoing" /\ call[c].post) => patch' = patch
  BY FinishTurns
<1>2. session'[c] = NoId
  BY TabFacts DEF Finish, FinishAndDismiss, FinishTo, TypeOK
<1>3. CASE call[c].dir = "outgoing" /\ call[c].post
  BY <1>1, <1>2, <1>3 DEF CardTurn, CardEnd, cardVars
<1>4. CASE ~(call[c].dir = "outgoing" /\ call[c].post)
  <2>1. call[c] \in Calls /\ NoCall.post = FALSE
    BY TabFacts DEF NoCall
  <2>2. call'[c].post => call[c].post /\ call'[c].id = call[c].id
    BY <1>1, <2>1, UpdateFields
  <2> QED BY <1>1, <1>4, <2>2, CardsAlone
<1> QED BY <1>3, <1>4

LEMMA CardTurns ==
    ASSUME IInv, NEW c \in Client, TabStep(c)
    PROVE  CardTurn(c)
<1>0. TypeOK /\ NoId \notin CallId
  BY TabFacts
<1>1. ASSUME NEW r \in Reason, Finish(c, r) \/ FinishAndDismiss(c, r),
             session[c] # NoId, UNCHANGED cardVars, media'[c] \subseteq media[c]
      PROVE  CardTurn(c)
  BY <1>1, FinishCards
<1>2. ASSUME UNCHANGED <<cardVars, patch>>, call'[c] = call[c]
      PROVE  CardTurn(c)
  BY <1>2, CardsAlone
<1>3. ASSUME UNCHANGED <<cardVars, patch>>, call'[c].post = FALSE
      PROVE  CardTurn(c)
  BY <1>3, CardsAlone
<1>4. ASSUME NEW s \in Status, UNCHANGED <<cardVars, patch>>, session[c] # NoId,
             call'[c] = ToStatus(call[c], s)
      PROVE  CardTurn(c)
  <2>1. call[c] \in Calls
    BY <1>4, TabFacts
  <2> QED BY <1>4, <2>1, UpdateFields, CardsAlone
<1>5. CASE UserStep(c)
  <2>1. ASSUME NEW user \in User, NEW id \in CallId, StartCall(c, user, id)
        PROVE  CardTurn(c)
    BY <1>0, <1>3, <2>1 DEF StartCall, NewCall, TypeOK
  <2>2. CASE AcceptCall(c)
    <3>1. call'[c] = ToStatus(call[c], "connecting") /\ session[c] # NoId
      BY <1>0, <2>2, TabFacts DEF AcceptCall, Reduce, TypeOK
    <3> QED BY <1>4, <2>2, <3>1 DEF AcceptCall, Status
  <2>3. CASE DeclineCall(c)
    BY <1>1, <2>3 DEF DeclineCall, Reason, pending
  <2>4. CASE HangUp(c)
    BY <1>1, <1>2, <2>4 DEF HangUp, Reason, pending, uiVars
  <2>5. CASE DismissCall(c)
    BY <1>0, <1>3, <2>5 DEF DismissCall, NoCall, TypeOK
  <2>6. CASE StartInbox(c)
    BY <1>2, <2>6 DEF StartInbox, uiVars
  <2>7. CASE HangUpOnUnload(c) \/ Crash(c)
    <3>1. /\ posting'[c] = {} /\ call'[c] = NoCall
          /\ UNCHANGED <<creating, post, patch>>
      BY <1>0, <2>7 DEF HangUpOnUnload, Crash, Gone, TypeOK
    <3> QED BY <3>1 DEF CardTurn, CardKeep, NoCall
  <2> QED BY <1>5, <2>1, <2>2, <2>3, <2>4, <2>5, <2>6, <2>7 DEF UserStep
<1>6. CASE MediaStep(c)
  <2> PICK id \in CallId : \/ StartMediaOk(c, id) \/ StartMediaFail(c, id)
                           \/ AcceptMediaOk(c, id) \/ AcceptMediaFail(c, id)
    BY <1>6 DEF MediaStep
  <2>0. media'[c] \subseteq media[c]
    BY <1>0 DEF StartMediaOk, StartMediaFail, AcceptMediaOk, AcceptMediaFail, TypeOK
  <2>1. CASE StartMediaOk(c, id)
    <3>1. CASE IsCurrent(c, id) /\ CanSend(c)
      BY <1>0, <2>1, <3>1
         DEF StartMediaOk, IsCurrent, CardTurn, CardCreate, TypeOK, uiVars
    <3>2. CASE ~(IsCurrent(c, id) /\ CanSend(c))
      BY <1>2, <2>1, <3>2 DEF StartMediaOk, uiVars, cardVars
    <3> QED BY <3>1, <3>2
  <2>2. CASE StartMediaFail(c, id) \/ AcceptMediaFail(c, id)
    BY <1>0, <1>1, <1>2, <2>0, <2>2
       DEF StartMediaFail, AcceptMediaFail, IsCurrent, Reason, uiVars
  <2>3. CASE AcceptMediaOk(c, id)
    BY <1>2, <2>3 DEF AcceptMediaOk, uiVars
  <2> QED BY <2>1, <2>2, <2>3
<1>7. CASE TimerStep(c)
  <2> PICK id \in CallId :
        \/ RingTimeout(c, id) \/ AutoDismissCall(c, id)
        \/ \E name \in {"connect", "reconnect"} : ConnectionTimeout(c, name, id)
    BY <1>7 DEF TimerStep
  <2>1. CASE AutoDismissCall(c, id)
    BY <1>0, <1>2, <1>3, <2>1 DEF AutoDismissCall, Reduce, NoCall, TypeOK
  <2>2. CASE RingTimeout(c, id)
    BY <1>0, <1>1, <1>2, <2>2
       DEF RingTimeout, IsCurrent, Reason, pending, uiVars
  <2>3. ASSUME NEW name, ConnectionTimeout(c, name, id) PROVE CardTurn(c)
    BY <1>0, <1>1, <1>2, <2>3
       DEF ConnectionTimeout, IsCurrent, Reason, pending, uiVars
  <2> QED BY <2>1, <2>2, <2>3
<1>8. CASE ReplyStep(c)
  <2> PICK id \in CallId : \/ ProfilesReady(c, id) \/ PostCreated(c, id)
                           \/ PostFails(c, id)
    BY <1>8 DEF ReplyStep
  <2>1. CASE ProfilesReady(c, id)
    BY <1>2, <2>1 DEF ProfilesReady
  <2>2. CASE PostCreated(c, id)
    <3>1. CASE IsCurrent(c, id)
      <4>1. call[c].id = id
        BY <1>0, <3>1, TabFacts DEF IsCurrent
      <4> QED BY <1>0, <2>2, <3>1, <4>1
              DEF PostCreated, IsCurrent, Reduce, CardTurn, CardRemember, TypeOK
    <3>2. CASE ~IsCurrent(c, id)
      <4>1. CardLate(c)
        BY <1>0, <2>2, <3>2 DEF PostCreated, IsCurrent, CardLate, TypeOK
      <4> QED BY <4>1 DEF CardTurn
    <3> QED BY <3>1, <3>2
  <2>3. CASE PostFails(c, id)
    BY <1>0, <2>3 DEF PostFails, CardTurn, CardKeep, TypeOK, uiVars
  <2> QED BY <2>1, <2>2, <2>3
<1>9. CASE InboxStep(c)
  <2> PICK m \in net : \/ ReceiveInvite(c, m) \/ ReceiveAccept(c, m)
                       \/ ReceiveEnd(c, m) \/ ReceiveIgnored(c, m)
                       \/ ReceiveData(c, m)
    BY <1>9 DEF InboxStep
  <2>0. m.id \in CallId /\ m.id # NoId /\ m.type \in Control
    BY <1>0 DEF TypeOK, Message
  <2>1. CASE ReceiveInvite(c, m)
    <3>1. UNCHANGED <<cardVars, patch>>
      BY <2>1 DEF ReceiveInvite
    <3>2. call'[c] = call[c] \/ call'[c] = NewCall(m.id, "incoming")
      BY <1>0, <2>1 DEF ReceiveInvite, TypeOK
    <3>3. NewCall(m.id, "incoming").post = FALSE
      BY DEF NewCall
    <3> QED BY <1>2, <1>3, <3>1, <3>2, <3>3
  <2>2. CASE ReceiveAccept(c, m)
    <3>1. session[c] = m.id /\ call[c].id = m.id
      BY <2>0, <2>2, TabFacts DEF ReceiveAccept, Accepts, Addressed, IsCurrent
    <3>2. call'[c] = ToStatus(call[c], "connecting")
      BY <1>0, <2>2, <3>1 DEF ReceiveAccept, Reduce, TypeOK
    <3> QED BY <1>4, <2>0, <2>2, <3>1, <3>2 DEF ReceiveAccept, Status
  <2>3. CASE ReceiveEnd(c, m)
    <3>1. EndReason[m.type] \in Reason /\ session[c] # NoId
      BY <2>0, <2>3 DEF ReceiveEnd, Ends, Addressed, IsCurrent, EndReason, Reason
    <3> QED BY <1>1, <2>3, <3>1 DEF ReceiveEnd, pending
  <2>4. CASE ReceiveIgnored(c, m) \/ ReceiveData(c, m)
    BY <1>1, <1>2, <2>0, <2>4
       DEF ReceiveIgnored, ReceiveData, IsCurrent, Reason, pending, uiVars
  <2> QED BY <2>1, <2>2, <2>3, <2>4
<1>10. CASE MeshStep(c)
  <2>1. ASSUME NEW d \in Client, NEW id \in CallId, MeshHello(c, d, id)
        PROVE  CardTurn(c)
    BY <1>2, <2>1 DEF MeshHello, uiVars
  <2>2. ASSUME NEW d \in Client, NEW id \in CallId, PeerConnected(c, d, id)
        PROVE  CardTurn(c)
    <3>1. call[c] \in Calls /\ call[c].id = id
      BY <1>0, <2>2, TabFacts DEF PeerConnected, IsCurrent
    <3>2. call'[c] = [call[c] EXCEPT !.status = "active", !.started = TRUE]
      BY <1>0, <2>2, <3>1 DEF PeerConnected, Reduce, TypeOK
    <3>3. call'[c].post = call[c].post /\ call'[c].id = call[c].id
      BY <3>1, <3>2, UpdateFields
    <3> QED BY <2>2, <3>3, CardsAlone DEF PeerConnected
  <2>3. CASE PeerClosed(c)
    <3>1. CASE peer[c] = NoOne
      BY <1>2, <2>3, <3>1 DEF PeerClosed
    <3>2. CASE peer[c] # NoOne
      <4>1. session[c] # NoId /\ call[c].id = session[c]
        BY <3>2, TabFacts
      <4>2. call'[c] = ToStatus(call[c], "reconnecting")
        BY <1>0, <2>3, <3>2, <4>1 DEF PeerClosed, Reduce, TypeOK
      <4> QED BY <1>4, <2>3, <4>1, <4>2 DEF PeerClosed, Status
    <3> QED BY <3>1, <3>2
  <2> QED BY <1>10, <2>1, <2>2, <2>3 DEF MeshStep
<1> QED BY <1>5, <1>6, <1>7, <1>8, <1>9, <1>10 DEF TabStep

(* The inductive invariant of the cards.                                    *)

Settled(id) == patch[id] # "none" \/ post[id] \in Final

\* A call whose invite is not out has no card, nor has one been asked for.
FreshCard ==
    \A id \in CallId : NotSent(id) =>
        /\ id \notin creating /\ post[id] = "none" /\ patch[id] = "none"
        /\ \A c \in Client : /\ id \notin posting[c]
                             /\ ~(call[c].id = id /\ call[c].post)

\* A card is asked for once, by its caller, and patched only while it rings;
\* once it is settled, no request and no session can settle it again.
CardOf(id) ==
    /\ id \in creating => post[id] = "none"
    /\ patch[id] # "none" => post[id] = "ringing"
    /\ \A c \in Client :
        /\ id \in posting[c] =>
             /\ caller[id] = c /\ ~Settled(id)
             /\ ~(call[c].id = id /\ call[c].post)
        /\ call[c].id = id /\ call[c].post => post[id] # "none"
        /\ caller[id] = c /\ Settled(id) => session[c] # id
Cards == \A id \in CallId : CardOf(id)

CInv == LInv /\ FreshCard /\ Cards

LEMMA CardsInit == Init => FreshCard /\ Cards
<1> SUFFICES ASSUME Init, NEW id \in CallId
             PROVE  /\ id \notin creating /\ post[id] = "none" /\ patch[id] = "none"
                    /\ \A c \in Client : /\ id \notin posting[c]
                                         /\ ~call[c].post
  BY DEF FreshCard, Cards, CardOf, Settled, Final
<1> QED BY DEF Init, NoCall

\* A Redux call remembers a post that exists, once.
LEMMA PostsRemembered ==
    ASSUME IInv, NEW c \in Client, CardTurn(c), call'[c].post
    PROVE  /\ call'[c].id = call[c].id
           /\ \/ call[c].post
              \/ /\ session[c] = call[c].id /\ session[c] \notin posting'[c]
                 /\ post[session[c]] # "none"
<1>1. session[c] # NoId => call[c] \in Calls /\ call[c].id = session[c]
  BY TabFacts
<1>2. CASE CardKeep(c)
  BY <1>2 DEF CardKeep
<1>3. CASE CardCreate(c) \/ CardLate(c)
  BY <1>3 DEF CardCreate, CardLate
<1>4. CASE CardRemember(c)
  BY <1>1, <1>4, PostFields DEF CardRemember
<1>5. CASE CardEnd(c)
  BY <1>1, <1>5, UpdateFields DEF CardEnd, NoCall
<1> QED BY <1>2, <1>3, <1>4, <1>5 DEF CardTurn

\* A tab patches a card only when it is not settled and its call is over.
LEMMA PatchTurn ==
    ASSUME CInv, NEW c \in Client, CardTurn(c), NEW id \in CallId
    PROVE  /\ post' = post
           /\ \/ patch'[id] = patch[id]
              \/ /\ ~Settled(id) /\ caller[id] = c /\ post[id] = "ringing"
                 /\ patch'[id] \in Final /\ session'[c] # id
                 /\ id \notin posting'[c]
<1>1. /\ IInv /\ CardOf(id) /\ patch \in [CallId -> Final \cup {"none"}]
      /\ post[id] \in Final \cup {"none", "ringing"}
  BY DEF CInv, LInv, IInv, Inv, Cards, TypeOK
<1>2. CASE CardKeep(c) \/ CardCreate(c) \/ CardRemember(c)
  BY <1>2 DEF CardKeep, CardCreate, CardRemember
<1>3. CASE CardLate(c)
  <2>1. PICK i \in posting[c] :
          /\ session[c] # i /\ session'[c] = session[c] /\ post[i] # "none"
          /\ post' = post
          /\ posting'[c] = posting[c] \ {i}
          /\ \E o \in {"declined", "missed"} : patch' = [patch EXCEPT ![i] = o]
    BY <1>3 DEF CardLate
  <2> QED BY <1>1, <2>1 DEF CardOf, Settled, Final
<1>4. CASE CardEnd(c)
  <2>1. session[c] \in CallId /\ call[c].id = session[c] /\ NoId \notin CallId
    BY <1>1, <1>4, TabFacts DEF CardEnd
  <2>2. caller[session[c]] = c
    BY <1>1, <1>4, IdFacts DEF CardEnd
  <2>3. \E o \in Final : patch' = [patch EXCEPT ![session[c]] = o]
    BY <1>4, PostStatusType DEF CardEnd
  <2>4. /\ posting'[c] = posting[c] /\ post' = post /\ session'[c] = NoId
        /\ call[c].post
    BY <1>4 DEF CardEnd
  <2> QED BY <1>1, <2>1, <2>2, <2>3, <2>4 DEF CardOf, Settled
<1> QED BY <1>2, <1>3, <1>4 DEF CardTurn

\* A session begins with a turn that begins it.
LEMMA SessionTurn ==
    ASSUME IInv, NEW c \in Client, Turn(c)
    PROVE  session'[c] \in {session[c], NoId} \/ TurnBegin(c)
BY DEF Turn, TurnIdle, TurnClose, TurnAsked, TurnAnswer, TurnStuck, TurnConnect,
       TurnDisconnect, TurnEnd, TurnLeave, TurnAccepted, TurnJoin, KeepsLinks, Freed

\* The id of a session that begins is new, or was dialled by another user.
LEMMA BeginsNew ==
    ASSUME LInv, NEW c \in Client, TurnBegin(c)
    PROVE  /\ session'[c] \in CallId
           /\ caller[session'[c]] # c
           /\ caller[session'[c]] # NoOne =>
                /\ UNCHANGED callVars /\ c \notin joined[session'[c]]
                /\ Owner[c] = callee[session'[c]]
                /\ call'[c].dir = "incoming"
           /\ caller[session'[c]] = NoOne => caller'[session'[c]] = c
<1>0. IInv /\ TypeOK /\ NoOne \notin Client
  BY CallAssumption DEF LInv, IInv, Inv
<1>1. PICK i \in CallId, dir \in {"outgoing", "incoming"} :
        /\ session'[c] = i /\ call'[c] = NewCall(i, dir)
        /\ \/ /\ dir = "outgoing" /\ caller[i] = NoOne
              /\ caller' = [caller EXCEPT ![i] = c]
           \/ /\ dir = "incoming" /\ UNCHANGED callVars
              /\ \E m \in net : m.type = "invite" /\ m.to = c /\ m.id = i
  BY DEF TurnBegin
<1>2. CASE caller[i] = NoOne /\ caller' = [caller EXCEPT ![i] = c]
  BY <1>0, <1>1, <1>2 DEF TypeOK
<1>3. CASE dir = "incoming" /\ UNCHANGED callVars
  <2>1. PICK m \in net : m.type = "invite" /\ m.to = c /\ m.id = i
    BY <1>0, <1>1, <1>3
  <2>2. Owner[c] = callee[i] /\ c \notin joined[i]
    BY <2>1 DEF LInv, Life, Untouched
  <2>3. caller[i] \in Client /\ Owner[caller[i]] # callee[i]
    BY <1>0, <2>1, IdFacts
  <2>4. call'[c].dir = "incoming"
    BY <1>1, <1>3 DEF NewCall
  <2>5. caller[i] # c /\ caller[i] # NoOne
    BY <1>0, <2>2, <2>3
  <2> QED BY <1>1, <1>3, <2>2, <2>4, <2>5
<1> QED BY <1>1, <1>2, <1>3

LEMMA CardOfTurn ==
    ASSUME CInv, NEW c \in Client, TabStep(c), CardTurn(c), Turn(c), OthersKeep(c),
           OthersWait(c), NEW id \in CallId
    PROVE  CardOf(id)'
<1>0. /\ LInv /\ IInv /\ CardOf(id)
      /\ NotSent(id) => /\ id \notin creating /\ post[id] = "none"
                        /\ ~Settled(id) /\ \A d \in Client : id \notin posting[d]
                        /\ \A d \in Client : ~(call[d].id = id /\ call[d].post)
  BY DEF CInv, LInv, Cards, FreshCard, Settled, Final
<1>1. /\ post' = post
      /\ \/ patch'[id] = patch[id]
         \/ /\ ~Settled(id) /\ caller[id] = c /\ post[id] = "ringing"
            /\ session'[c] # id /\ id \notin posting'[c]
  BY PatchTurn
<1>2. caller[id] # NoOne => caller'[id] = caller[id]
  BY <1>0, CallsKept
<1>3. /\ NotSent(id) \/ id \notin creating' \ creating
      /\ NotSent(id) \/ id \notin posting'[c] \ posting[c]
      /\ id \in posting'[c] \ posting[c] =>
           caller[id] = c /\ call'[c] = call[c] /\ patch' = patch
  BY DEF CardTurn, CardKeep, CardCreate, CardRemember, CardLate, CardEnd, NotSent
<1>4. id \in creating' => post'[id] = "none"
  BY <1>0, <1>1, <1>3 DEF CardOf
<1>5. patch'[id] # "none" => post'[id] = "ringing"
  BY <1>0, <1>1 DEF CardOf
<1>6. ASSUME NEW d \in Client, id \in posting'[d]
      PROVE  /\ caller'[id] = d /\ ~Settled(id)'
             /\ ~(call'[d].id = id /\ call'[d].post)
  <2>1. CASE d # c
    <3>1. id \in posting[d] /\ call'[d] = call[d]
      BY <1>6, <2>1 DEF OthersKeep, OthersWait
    <3>2. caller[id] = d /\ ~Settled(id) /\ ~(call[d].id = id /\ call[d].post)
      BY <1>0, <3>1 DEF CardOf
    <3>3. patch'[id] = patch[id] /\ caller'[id] = d
      BY <1>1, <1>2, <2>1, <3>2, CallAssumption
    <3> QED BY <1>1, <3>1, <3>2, <3>3 DEF Settled
  <2>2. CASE d = c
    <3>1. patch'[id] = patch[id]
      BY <1>1, <1>6, <2>2
    <3>2. /\ caller[id] = c /\ ~Settled(id)
          /\ ~(call[c].id = id /\ call[c].post)
      BY <1>0, <1>3, <1>6, <2>2 DEF CardOf
    <3>3. ~(call'[c].id = id /\ call'[c].post)
      BY <1>0, <1>6, <2>2, <3>2, PostsRemembered
    <3>4. caller'[id] = c
      BY <1>2, <3>2, CallAssumption
    <3> QED BY <1>1, <2>2, <3>1, <3>2, <3>3, <3>4 DEF Settled
  <2> QED BY <2>1, <2>2
<1>7. ASSUME NEW d \in Client, call'[d].id = id, call'[d].post
      PROVE  post'[id] # "none"
  <2>1. CASE d # c
    BY <1>0, <1>1, <1>7, <2>1 DEF OthersKeep, CardOf
  <2>2. CASE d = c
    BY <1>0, <1>1, <1>7, <2>2, PostsRemembered DEF CardOf
  <2> QED BY <2>1, <2>2
<1>8. ASSUME NEW d \in Client, caller'[id] = d, Settled(id)'
      PROVE  session'[d] # id
  <2>1. CASE patch'[id] = patch[id]
    <3>1. Settled(id) /\ ~NotSent(id)
      BY <1>0, <1>1, <1>8, <2>1 DEF Settled
    <3>2. caller[id] = d /\ session[d] # id /\ id # NoId
      BY <1>0, <1>2, <1>8, <3>1, TabFacts DEF NotSent, CardOf
    <3>3. CASE d # c
      BY <3>2, <3>3 DEF OthersKeep
    <3>4. CASE d = c
      BY <1>0, <3>2, <3>4, SessionTurn, BeginsNew
    <3> QED BY <3>3, <3>4
  <2>2. CASE patch'[id] # patch[id]
    BY <1>1, <1>2, <1>8, <2>2, CallAssumption
  <2> QED BY <2>1, <2>2
<1> QED BY <1>4, <1>5, <1>6, <1>7, <1>8 DEF CardOf

LEMMA FreshCardTurn ==
    ASSUME CInv, NEW c \in Client, TabStep(c), CardTurn(c), Turn(c), OthersKeep(c),
           OthersWait(c)
    PROVE  FreshCard'
<1> SUFFICES ASSUME NEW id \in CallId, NotSent(id)'
             PROVE  /\ id \notin creating' /\ post'[id] = "none"
                    /\ patch'[id] = "none"
                    /\ \A d \in Client : /\ id \notin posting'[d]
                                         /\ ~(call'[d].id = id /\ call'[d].post)
  BY DEF FreshCard
<1>0. LInv /\ IInv /\ NoOne \notin Client
  BY CallAssumption DEF CInv, LInv
<1>1. NotSent(id) /\ (caller[id] # NoOne => caller'[id] = caller[id])
  BY <1>0, NotSentShrinks, CallsKept
<1>2. /\ id \notin creating /\ post[id] = "none" /\ patch[id] = "none"
      /\ \A d \in Client : /\ id \notin posting[d]
                           /\ ~(call[d].id = id /\ call[d].post)
  BY <1>1 DEF CInv, FreshCard
<1>3. post' = post /\ patch'[id] = "none"
  BY <1>2, PatchTurn
<1>4. id \notin creating' /\ id \notin posting'[c]
  <2>1. CASE CardCreate(c)
    <3>1. id # session[c]
      BY <1>0, <1>1, <2>1 DEF CardCreate, NotSent
    <3> QED BY <1>2, <2>1, <3>1 DEF CardCreate
  <2>2. CASE ~CardCreate(c)
    BY <1>2, <2>2 DEF CardTurn, CardKeep, CardRemember, CardLate, CardEnd
  <2> QED BY <2>1, <2>2
<1>5. ~(call'[c].id = id /\ call'[c].post)
  BY <1>0, <1>2, PostsRemembered
<1> QED BY <1>2, <1>3, <1>4, <1>5 DEF OthersKeep, OthersWait

LEMMA CardsServer ==
    ASSUME CInv, ServerStep \/ UNCHANGED vars
    PROVE  FreshCard' /\ Cards'
<1>0. /\ TypeOK /\ FreshCard /\ Cards
      /\ UNCHANGED <<session, call, media, posting, caller>>
  BY ServerTurns DEF CInv, LInv, IInv, Inv, callVars
<1>1. ASSUME NEW id \in CallId
      PROVE  \/ creating' = creating /\ post'[id] = post[id] /\ patch'[id] = patch[id]
             \/ /\ id \in creating /\ id \notin creating' /\ creating' \subseteq creating
                /\ post'[id] = "ringing" /\ patch'[id] = patch[id]
             \/ /\ creating' \subseteq creating
                /\ post'[id] = post[id] /\ patch'[id] = patch[id]
             \/ /\ creating' = creating /\ patch[id] \in Final
                /\ post'[id] \in {patch[id], post[id]} /\ patch'[id] = "none"
  <2>1. CASE \E i \in CallId : PostLands(i)
    BY <1>0, <2>1 DEF PostLands, TypeOK
  <2>2. CASE \E i \in CallId : PatchLands(i)
    BY <1>0, <2>2 DEF PatchLands, TypeOK
  <2>3. CASE \E i \in CallId : PatchFails(i)
    BY <1>0, <2>3 DEF PatchFails, TypeOK, cardVars
  <2>4. CASE (\E m \in net : Lose(m)) \/ UNCHANGED vars
    BY <2>4 DEF Lose, vars, cardVars
  <2> QED BY <2>1, <2>2, <2>3, <2>4 DEF ServerStep
<1>2. ASSUME NEW id \in CallId
      PROVE  CardOf(id)'
  <2>1. CardOf(id) /\ post[id] \in Final \cup {"none", "ringing"}
        /\ "none" \notin Final /\ "ringing" \notin Final
    BY <1>0 DEF Cards, TypeOK, Final
  <2>2. /\ id \in creating' => post'[id] = "none"
        /\ patch'[id] # "none" => post'[id] = "ringing"
        /\ Settled(id)' => Settled(id)
        /\ post[id] # "none" => post'[id] # "none"
    BY <1>1, <2>1 DEF CardOf, Settled
  <2> QED BY <1>0, <2>1, <2>2 DEF CardOf
<1>3. ASSUME NEW id \in CallId, NotSent(id)'
      PROVE  /\ id \notin creating' /\ post'[id] = "none" /\ patch'[id] = "none"
             /\ \A c \in Client : /\ id \notin posting'[c]
                                  /\ ~(call'[c].id = id /\ call'[c].post)
  <2>1. NotSent(id)
    BY <1>0, <1>3 DEF NotSent
  <2> QED BY <1>0, <1>1, <2>1 DEF FreshCard, Final
<1> QED BY <1>2, <1>3 DEF FreshCard, Cards

LEMMA CardsStep == CInv /\ [Next]_vars => CInv'
<1> SUFFICES ASSUME CInv, [Next]_vars PROVE CInv'
  OBVIOUS
<1>0. IInv /\ LInv'
  BY LifeStep DEF CInv, LInv
<1>1. ASSUME NEW c \in Client, TabStep(c) PROVE FreshCard' /\ Cards'
  <2>1. Turn(c) /\ OthersKeep(c) /\ OthersWait(c) /\ CardTurn(c)
    BY <1>0, <1>1, TabTurns, CardTurns
  <2> QED BY <1>1, <2>1, CardOfTurn, FreshCardTurn DEF Cards
<1>2. (\E c \in Client : TabStep(c)) \/ ServerStep \/ UNCHANGED vars
  BY DEF Next, TabStep
<1> QED BY <1>0, <1>1, <1>2, CardsServer DEF CInv

LEMMA CardsInvariance == Spec => []CInv
<1>1. Init => CInv
  BY IInvInit, LifeInit, CardsInit DEF CInv, LInv
<1> QED BY <1>1, CardsStep, PTL DEF Spec

\* The outcome of a call is written on its card once: whichever of the end of
\* the call and the answer of createInvitePost comes first, there is one PATCH.
THEOREM OutcomeIsWrittenOnce == Spec => CardSettlesOnce
<1>1. ASSUME CInv, [Next]_vars, NEW id \in CallId
      PROVE  /\ patch[id] # "none" => patch'[id] \in {"none", patch[id]}
             /\ post[id] \in Final => post'[id] = post[id] /\ patch'[id] = "none"
  <2>1. IInv /\ TypeOK /\ CardOf(id)
    BY <1>1 DEF CInv, LInv, IInv, Inv, Cards
  <2>2. post[id] \in Final => patch[id] = "none" /\ id \notin creating
    BY <2>1 DEF CardOf, Final
  <2>3. ASSUME NEW c \in Client, TabStep(c)
        PROVE  post' = post /\ (patch'[id] = patch[id] \/ ~Settled(id))
    BY <1>1, <2>1, <2>3, CardTurns, PatchTurn
  <2>4. ASSUME ServerStep \/ UNCHANGED vars
        PROVE  /\ post'[id] = post[id] \/ patch[id] # "none" \/ id \in creating
               /\ patch'[id] \in {patch[id], "none"}
    BY <2>1, <2>4 DEF ServerStep, PostLands, PatchLands, PatchFails, Lose, vars,
                      cardVars, TypeOK
  <2>5. (\E c \in Client : TabStep(c)) \/ ServerStep \/ UNCHANGED vars
    BY <1>1 DEF Next, TabStep
  <2> QED BY <2>2, <2>3, <2>4, <2>5 DEF Settled
<1>2. CInv /\ [Next]_vars =>
        \A id \in CallId :
          /\ patch[id] # "none" => patch'[id] \in {"none", patch[id]}
          /\ post[id] \in Final => post'[id] = post[id] /\ patch'[id] = "none"
  BY <1>1
<1> QED BY <1>2, CardsInvariance, PTL DEF Spec, CardSettlesOnce

-----------------------------------------------------------------------------
(* What a card may say.                                                     *)

\* Who is in the mesh of a call has joined it; the peer of a tab is another tab;
\* a call that connected was joined by both sides.
InMesh == \A c \in Client : \A id \in mesh[c] : c \in joined[id]
NotOwnSlot == \A c \in Client : slot[c] # c
Both(tabs, c) == c \in tabs /\ \E d \in tabs : d # c
StartedJoined ==
    \A c \in Client : call[c].started =>
        call[c].id \in CallId /\ Both(joined[call[c].id], c)
EndedTrue ==
    \A id \in CallId : "ended" \in {post[id], patch[id]} =>
        Both(joined[id], caller[id])

JInv == /\ CInv /\ InMesh /\ NotOwnSlot /\ StartedJoined /\ EndedTrue

\* The slot of a mesh is taken by another tab.
LEMMA SlotTurn ==
    ASSUME IInv, NEW c \in Client, TabStep(c)
    PROVE  slot'[c] \in {slot[c], NoOne} \cup (Client \ {c})
<1>0. TypeOK
  BY TabFacts
<1>1. ASSUME NEW r, Finish(c, r) \/ FinishAndDismiss(c, r)
      PROVE  slot'[c] = NoOne
  BY <1>0, <1>1 DEF Finish, FinishAndDismiss, FinishTo, Teardown, TypeOK
<1>2. CASE UserStep(c)
  BY <1>0, <1>1, <1>2
     DEF UserStep, StartCall, AcceptCall, DeclineCall, HangUp, DismissCall,
         StartInbox, HangUpOnUnload, Crash, Gone, TypeOK, linkVars
<1>3. CASE MediaStep(c)
  BY <1>1, <1>3
     DEF MediaStep, StartMediaOk, StartMediaFail, AcceptMediaOk, AcceptMediaFail,
         linkVars
<1>4. CASE TimerStep(c)
  BY <1>1, <1>4
     DEF TimerStep, RingTimeout, AutoDismissCall, ConnectionTimeout, linkVars
<1>5. CASE ReplyStep(c)
  BY <1>5 DEF ReplyStep, ProfilesReady, PostCreated, PostFails, linkVars
<1>6. CASE InboxStep(c)
  BY <1>1, <1>6
     DEF InboxStep, ReceiveInvite, ReceiveAccept, ReceiveEnd, ReceiveIgnored,
         ReceiveData, linkVars
<1>7. CASE MeshStep(c)
  BY <1>0, <1>7 DEF MeshStep, MeshHello, PeerConnected, PeerClosed, TypeOK
<1> QED BY <1>2, <1>3, <1>4, <1>5, <1>6, <1>7 DEF TabStep

\* A call starts when its peer connects, and stays started; whatever the turn,
\* it stays the call it was, unless another one begins.
LEMMA StartedTurn ==
    ASSUME IInv, NEW c \in Client, Turn(c), call'[c].started
    PROVE  /\ call'[c].id = call[c].id
           /\ call[c].started \/ (TurnConnect(c) /\ call[c].id = session[c])
<1>1. session[c] # NoId => call[c] \in Calls /\ call[c].id = session[c]
  BY TabFacts
<1>2. CASE TurnIdle(c)
  BY <1>1, <1>2, PostFields DEF TurnIdle
<1>3. CASE TurnClose(c) \/ TurnEnd(c) \/ TurnLeave(c)
  BY <1>1, <1>3, UpdateFields DEF TurnClose, TurnEnd, TurnLeave, NoCall
<1>4. CASE TurnAsked(c) \/ TurnJoin(c) \/ TurnStuck(c)
  BY <1>4 DEF TurnAsked, TurnJoin, TurnStuck
<1>5. CASE TurnAnswer(c) \/ TurnAccepted(c) \/ TurnDisconnect(c)
  BY <1>1, <1>5, UpdateFields
     DEF TurnAnswer, TurnAccepted, TurnDisconnect, Status
<1>6. CASE TurnConnect(c)
  BY <1>1, <1>6, UpdateFields DEF TurnConnect
<1>7. CASE TurnBegin(c)
  BY <1>7 DEF TurnBegin, NewCall
<1> QED BY <1>2, <1>3, <1>4, <1>5, <1>6, <1>7 DEF Turn

\* What a tab writes on a card.
LEMMA OutcomeTurn ==
    ASSUME IInv, NEW c \in Client, CardTurn(c), NEW id \in CallId,
           patch'[id] # patch[id]
    PROVE  \/ /\ patch'[id] = IF call[c].id = id /\ call[c].reason = "declined"
                              THEN "declined" ELSE "missed"
              /\ call'[c] = call[c]
           \/ \E r \in Reason :
                /\ session[c] = id /\ call[c].id = id /\ call[c] \in Calls
                /\ caller[id] = c
                /\ patch'[id] = PostStatus(call[c], r)
                /\ call'[c] \in {NoCall, ToEnded(call[c], r)}
<1>0. patch \in [CallId -> Final \cup {"none"}]
  BY DEF IInv, Inv, TypeOK
<1>1. CASE CardKeep(c) \/ CardCreate(c) \/ CardRemember(c)
  BY <1>1 DEF CardKeep, CardCreate, CardRemember
<1>2. CASE CardLate(c)
  BY <1>0, <1>2 DEF CardLate
<1>3. CASE CardEnd(c)
  <2>1. /\ session[c] \in CallId /\ call[c].id = session[c] /\ call[c] \in Calls
        /\ caller[session[c]] = c
    BY <1>3, TabFacts, IdFacts DEF CardEnd
  <2> QED BY <1>0, <1>3, <2>1 DEF CardEnd
<1> QED BY <1>1, <1>2, <1>3 DEF CardTurn

LEMMA BothTurn ==
    ASSUME IInv, NEW c \in Client, Turn(c), NEW id \in CallId, NEW d,
           Both(joined[id], d)
    PROVE  Both(joined'[id], d)
BY CallsKept DEF Both

LEMMA JoinedTurn ==
    ASSUME JInv, NEW c \in Client, TabStep(c), CardTurn(c), Turn(c), OthersKeep(c)
    PROVE  InMesh' /\ NotOwnSlot' /\ StartedJoined' /\ EndedTrue'
<1>0. IInv /\ InMesh /\ NotOwnSlot /\ StartedJoined /\ EndedTrue
      /\ NoOne \notin Client /\ TypeOK
  BY CallAssumption DEF JInv, CInv, LInv, IInv, Inv
<1>1. ASSUME NEW d \in Client, NEW id \in mesh'[d] PROVE d \in joined'[id]
  <2>1. ASSUME id \in mesh[d] PROVE d \in joined'[id]
    <3>1. id \in CallId /\ d \in joined[id]
      BY <1>0, <2>1 DEF InMesh, TypeOK
    <3> QED BY <1>0, <3>1, CallsKept
  <2>2. CASE d # c
    BY <1>1, <2>1, <2>2 DEF OthersKeep
  <2>3. CASE d = c
    <3>1. CASE TurnAccepted(c) \/ TurnJoin(c)
      <4>1. id = session[c] /\ id # NoId /\ JoinsCall(c)
        BY <1>0, <1>1, <2>3, <3>1, CallAssumption DEF TurnAccepted, TurnJoin, TypeOK
      <4>2. id \in CallId
        BY <1>0, <4>1, TabFacts
      <4> QED BY <1>0, <2>3, <4>1, <4>2 DEF JoinsCall, TypeOK
    <3>2. CASE ~(TurnAccepted(c) \/ TurnJoin(c))
      <4>1. mesh'[c] \in {mesh[c], {}}
        BY <3>2 DEF Turn, TurnIdle, TurnClose, TurnAsked, TurnAnswer, TurnStuck,
               TurnConnect, TurnDisconnect, TurnEnd, TurnLeave, TurnBegin,
               KeepsLinks, Freed
      <4> QED BY <1>1, <2>1, <2>3, <4>1
    <3> QED BY <3>1, <3>2
  <2> QED BY <2>2, <2>3
<1>2. ASSUME NEW d \in Client PROVE slot'[d] # d
  BY <1>0, SlotTurn DEF OthersKeep, NotOwnSlot
<1>3. ASSUME NEW d \in Client, call'[d].started
      PROVE  call'[d].id \in CallId /\ Both(joined'[call'[d].id], d)
  <2>1. CASE d # c
    BY <1>0, <1>3, <2>1, BothTurn DEF OthersKeep, StartedJoined
  <2>2. CASE d = c
    <3>1. CASE call[c].started
      BY <1>0, <1>3, <2>2, <3>1, StartedTurn, BothTurn DEF StartedJoined
    <3>2. CASE ~call[c].started
      <4>1. /\ TurnConnect(c) /\ call'[c].id = session[c]
            /\ session[c] \in CallId
        BY <1>0, <1>3, <2>2, <3>2, StartedTurn, TabFacts DEF TurnConnect
      <4>2. PICK e \in Client : slot[c] = e /\ session[c] \in mesh[c] \cap mesh[e]
        BY <4>1 DEF TurnConnect
      <4>3. Both(joined[session[c]], c)
        BY <1>0, <4>2 DEF InMesh, NotOwnSlot, Both
      <4> QED BY <1>0, <2>2, <4>1, <4>3, BothTurn
    <3> QED BY <3>1, <3>2
  <2> QED BY <2>1, <2>2
<1>4. ASSUME NEW id \in CallId, "ended" \in {post'[id], patch'[id]}
      PROVE  Both(joined'[id], caller'[id])
  <2>1. CASE "ended" \in {post[id], patch[id]}
    <3>1. Both(joined[id], caller[id])
      BY <1>0, <2>1 DEF EndedTrue
    <3>2. caller[id] # NoOne
      BY <1>0, <3>1 DEF Both, TypeOK
    <3> QED BY <1>0, <3>1, <3>2, BothTurn, CallsKept
  <2>2. CASE "ended" \notin {post[id], patch[id]}
    <3>1. patch'[id] = "ended" /\ patch'[id] # patch[id] /\ CInv
      BY <1>4, <2>2, PatchTurn DEF JInv
    <3>2. PICK r \in Reason : /\ call[c].id = id /\ caller[id] = c
                              /\ patch'[id] = PostStatus(call[c], r)
      BY <1>0, <3>1, OutcomeTurn
    <3>3. call[c].started
      BY <3>1, <3>2 DEF PostStatus
    <3>4. Both(joined[id], c)
      BY <1>0, <3>2, <3>3 DEF StartedJoined
    <3>5. caller'[id] = c
      BY <1>0, <3>2, CallsKept
    <3> QED BY <1>0, <3>4, <3>5, BothTurn
  <2> QED BY <2>1, <2>2
<1> QED BY <1>1, <1>2, <1>3, <1>4 DEF InMesh, NotOwnSlot, StartedJoined, EndedTrue

LEMMA JInvStep == JInv /\ [Next]_vars => JInv'
<1> SUFFICES ASSUME JInv, [Next]_vars PROVE JInv'
  OBVIOUS
<1>0. IInv /\ CInv /\ CInv' /\ TypeOK
  BY CardsStep DEF JInv, CInv, LInv, IInv, Inv
<1>1. ASSUME NEW c \in Client, TabStep(c) PROVE JInv'
  <2>1. Turn(c) /\ OthersKeep(c) /\ CardTurn(c)
    BY <1>0, <1>1, TabTurns, CardTurns
  <2> QED BY <1>0, <1>1, <2>1, JoinedTurn DEF JInv
<1>2. ASSUME ServerStep \/ UNCHANGED vars PROVE JInv'
  <2>1. UNCHANGED <<mesh, slot, call, caller, joined>>
    BY <1>2, ServerTurns DEF linkVars, callVars
  <2>2. ASSUME NEW id \in CallId, "ended" \in {post'[id], patch'[id]}
        PROVE  "ended" \in {post[id], patch[id]}
    BY <1>0, <1>2, <2>2 DEF ServerStep, PostLands, PatchLands, PatchFails, Lose,
                            vars, cardVars, TypeOK
  <2>3. InMesh' /\ NotOwnSlot' /\ StartedJoined'
    BY <2>1 DEF JInv, InMesh, NotOwnSlot, StartedJoined, Both
  <2>4. EndedTrue'
    BY <2>1, <2>2 DEF JInv, EndedTrue, Both
  <2> QED BY <1>0, <2>3, <2>4 DEF JInv
<1>3. (\E c \in Client : TabStep(c)) \/ ServerStep \/ UNCHANGED vars
  BY DEF Next, TabStep
<1> QED BY <1>1, <1>2, <1>3

LEMMA JInvInit == Init => JInv
<1> SUFFICES ASSUME Init PROVE JInv
  OBVIOUS
<1>1. InMesh /\ NotOwnSlot /\ StartedJoined /\ EndedTrue
  BY CallAssumption DEF Init, InMesh, NotOwnSlot, StartedJoined, EndedTrue, NoCall
<1> QED BY <1>1, IInvInit, LifeInit, CardsInit DEF JInv, CInv, LInv

\* A card that says the call took place, "ended", is that of a call which its
\* caller and another tab had joined, however many tabs the users have open.
THEOREM EndedCallsHappened == Spec => []EndedTrue
<1>1. JInv => EndedTrue
  BY DEF JInv
<1> QED BY <1>1, JInvInit, JInvStep, PTL DEF Spec

(* Who declines a call has not joined it, and never will.                   *)

\* A call is between its caller and tabs of the user it called.
Sides ==
    /\ \A c \in Client : session[c] # NoId /\ caller[session[c]] # c =>
         Owner[c] = callee[session[c]]
    /\ \A id \in CallId : \A c \in joined[id] :
         c = caller[id] \/ Owner[c] = callee[id]

\* A tab that rings, or asks for camera and microphone to answer, has not joined.
NotJoined ==
    \A c \in Client :
        /\ session[c] # NoId /\ Incoming(c) => c \notin joined[session[c]]
        /\ \A id \in media[c] : caller[id] # c => c \notin joined[id]

DeclinedOnce ==
    \A m \in net : m.type = "decline" =>
        /\ m.from # caller[m.id] /\ session[m.from] # m.id
        /\ m.id \notin media[m.from] /\ m.from \notin joined[m.id]
        /\ \A n \in net : n.type = "invite" /\ n.id = m.id => n.to # m.from

LiveHasNoReason == \A c \in Client : session[c] # NoId => call[c].reason = "none"

DInv == JInv /\ Sides /\ NotJoined /\ DeclinedOnce /\ LiveHasNoReason

LEMMA DInvFacts ==
    ASSUME DInv
    PROVE  /\ LInv /\ IInv /\ TypeOK /\ Stages /\ Untouched /\ Fresh /\ CInv /\ JInv
           /\ Sides /\ NotJoined /\ DeclinedOnce /\ LiveHasNoReason
           /\ NoOne \notin Client /\ NoId \notin CallId
BY CallAssumption DEF DInv, JInv, CInv, LInv, Life, IInv, Inv

LEMMA SidesTurn ==
    ASSUME DInv, NEW c \in Client, Turn(c), OthersKeep(c)
    PROVE  Sides'
<1>0. LInv /\ IInv /\ TypeOK /\ Sides /\ Fresh /\ NoOne \notin Client
  BY DInvFacts
<1>1. ASSUME NEW d \in Client, session'[d] # NoId, caller'[session'[d]] # d
      PROVE  Owner[d] = callee'[session'[d]]
  <2>1. CASE session'[d] = session[d]
    <3>1. /\ session[d] \in CallId /\ caller[session[d]] # NoOne
          /\ caller'[session[d]] = caller[session[d]]
          /\ callee'[session[d]] = callee[session[d]]
      BY <1>0, <1>1, <2>1, TabFacts, IdFacts, CallsKept
    <3> QED BY <1>0, <1>1, <2>1, <3>1 DEF Sides
  <2>2. CASE session'[d] # session[d]
    <3>1. d = c /\ TurnBegin(c)
      BY <1>0, <1>1, <2>2, SessionTurn DEF OthersKeep
    <3>2. /\ caller[session'[c]] = NoOne => caller'[session'[c]] = c
          /\ caller[session'[c]] # NoOne =>
               UNCHANGED callVars /\ Owner[c] = callee[session'[c]]
      BY <1>0, <3>1, BeginsNew
    <3> QED BY <1>1, <3>1, <3>2 DEF callVars
  <2> QED BY <2>1, <2>2
<1>2. ASSUME NEW id \in CallId, NEW d \in joined'[id]
      PROVE  d = caller'[id] \/ Owner[d] = callee'[id]
  <2>1. CASE d \in joined[id]
    <3>1. caller[id] # NoOne
      BY <1>0, <2>1 DEF Fresh, NotSent
    <3>2. caller'[id] = caller[id] /\ callee'[id] = callee[id]
      BY <1>0, <3>1, CallsKept
    <3> QED BY <1>0, <2>1, <3>2 DEF Sides
  <2>2. CASE d \notin joined[id]
    <3>1. id = session[c] /\ joined'[id] = joined[id] \cup {c}
      BY <1>0, <1>2, <2>2, JoinsLate
    <3>2. d = c /\ id # NoId
      BY <1>2, <2>2, <3>1, DInvFacts
    <3>3. caller[id] \in Client
      BY <1>0, <3>1, <3>2, IdFacts
    <3>4. caller'[id] = caller[id] /\ callee'[id] = callee[id]
      BY <1>0, <3>3, CallsKept
    <3> QED BY <1>0, <3>1, <3>2, <3>4 DEF Sides
  <2> QED BY <2>1, <2>2
<1> QED BY <1>1, <1>2 DEF Sides

\* A tab that rings after a turn, rang before it or has just begun to.
LEMMA RingsOn ==
    ASSUME DInv, NEW c \in Client, Turn(c), ~TurnBegin(c), session'[c] # NoId,
           call'[c].dir = "incoming", call'[c].status = "ringing"
    PROVE  /\ session'[c] = session[c] /\ Incoming(c)
           /\ ~TurnAccepted(c) /\ ~TurnJoin(c)
<1>0. IInv /\ session'[c] = session[c] /\ session[c] # NoId
  BY SessionTurn, DInvFacts
<1>1. call[c] \in Calls /\ session[c] \in CallId
  BY <1>0, TabFacts
<1>2. StageOf(c)
  BY DInvFacts DEF Stages
<1>3. CASE TurnIdle(c)
  <2>1. call'[c].dir = call[c].dir /\ call'[c].status = call[c].status
    BY <1>1, <1>3, PostFields DEF TurnIdle
  <2>2. ~TurnAccepted(c)
    BY <1>1, UpdateFields DEF TurnAccepted, Status
  <2>3. ~TurnJoin(c)
    BY <1>0, <1>2, <1>3, <2>1 DEF TurnJoin, TurnIdle, KeepsLinks, StageOf
  <2> QED BY <1>0, <2>1, <2>2, <2>3 DEF Incoming
<1>4. CASE TurnAsked(c) \/ TurnJoin(c) \/ TurnStuck(c)
  <2>1. session[c] \in media[c] /\ call'[c] = call[c]
    BY <1>4 DEF TurnAsked, TurnJoin, TurnStuck
  <2> QED BY <1>0, <1>2, <2>1 DEF StageOf
<1>5. CASE TurnAnswer(c) \/ TurnAccepted(c) \/ TurnDisconnect(c) \/ TurnConnect(c)
  BY <1>1, <1>5, UpdateFields
     DEF TurnAnswer, TurnAccepted, TurnDisconnect, TurnConnect, Status
<1>6. CASE TurnClose(c) \/ TurnEnd(c) \/ TurnLeave(c)
  BY <1>0, <1>6 DEF TurnClose, TurnEnd, TurnLeave, Freed
<1> QED BY <1>3, <1>4, <1>5, <1>6 DEF Turn

LEMMA NotJoinedTurn ==
    ASSUME DInv, NEW c \in Client, Turn(c), OthersKeep(c), OthersWait(c)
    PROVE  NotJoined'
<1>0. LInv /\ IInv /\ TypeOK /\ NotJoined /\ NoOne \notin Client
  BY DInvFacts
<1>1. ASSUME NEW d \in Client, session'[d] # NoId,
             call'[d].dir = "incoming", call'[d].status = "ringing"
      PROVE  d \notin joined'[session'[d]]
  <2>1. CASE d # c
    <3>1. /\ session'[d] = session[d] /\ session[d] \in CallId
          /\ d \notin joined[session[d]]
      BY <1>0, <1>1, <2>1, TabFacts DEF OthersKeep, NotJoined, Incoming
    <3> QED BY <1>0, <2>1, <3>1, JoinsLate
  <2>2. CASE d = c /\ TurnBegin(c)
    <3>1. \E i \in CallId, dir \in {"outgoing", "incoming"} :
            /\ call'[c] = NewCall(i, dir)
            /\ dir = "outgoing" \/ (dir = "incoming" /\ UNCHANGED callVars)
            /\ dir = "outgoing" \/ \E m \in net : m.id = i
            /\ session'[c] = i
      BY <2>2 DEF TurnBegin
    <3>2. UNCHANGED callVars /\ caller[session'[c]] \in Client
      BY <1>0, <1>1, <2>2, <3>1, IdFacts DEF NewCall
    <3> QED BY <1>0, <2>2, <3>2, BeginsNew DEF callVars
  <2>3. CASE d = c /\ ~TurnBegin(c)
    <3>1. /\ session'[c] = session[c] /\ Incoming(c)
          /\ ~TurnAccepted(c) /\ ~TurnJoin(c)
      BY <1>1, <2>3, RingsOn
    <3>2. c \notin joined[session[c]] /\ session[c] \in CallId
      BY <1>0, <1>1, <2>3, <3>1, TabFacts DEF NotJoined
    <3> QED BY <1>0, <2>3, <3>1, <3>2, JoinsLate
  <2> QED BY <2>1, <2>2, <2>3
<1>2. ASSUME NEW d \in Client, NEW id \in media'[d], caller'[id] # d
      PROVE  d \notin joined'[id]
  <2>1. CASE id \in media[d]
    <3>1. id \in CallId /\ caller[id] \in Client
      BY <1>0, <2>1, IdFacts
    <3>2. caller[id] # d
      BY <1>0, <1>2, <3>1, CallsKept
    <3>3. d \notin joined[id]
      BY <1>0, <2>1, <3>2 DEF NotJoined
    <3>4. d = c => ~(id = session[c] /\ (TurnAccepted(c) \/ TurnJoin(c)))
      BY <1>0, <1>2, <2>1, AcceptedAfterInvite DEF TurnJoin
    <3> QED BY <1>0, <3>1, <3>3, <3>4, JoinsLate
  <2>2. CASE id \notin media[d]
    <3>1. d = c
      BY <1>2, <2>2 DEF OthersWait
    <3>2. /\ session'[c] = id
          /\ \/ TurnBegin(c) /\ caller[id] = NoOne
             \/ session[c] = id /\ Incoming(c)
      BY <1>0, <1>2, <2>2, <3>1, AsksOnce
    <3>3. ~(TurnBegin(c) /\ caller[id] = NoOne)
      BY <1>0, <1>2, <3>1, <3>2, BeginsNew
    <3>4. session[c] = id /\ Incoming(c)
      BY <3>2, <3>3
    <3>5. id \in CallId /\ c \notin joined[id]
      <4>1. id # NoId
        BY <1>0, <3>4, TabFacts DEF Incoming, InCall, NoCall
      <4> QED BY <1>0, <3>4, <4>1, TabFacts DEF NotJoined
    <3>6. ~TurnAccepted(c) /\ ~TurnJoin(c)
      BY <1>0, <2>2, <3>1, <3>4, AcceptedAfterInvite DEF TurnJoin, Incoming
    <3> QED BY <1>0, <3>1, <3>5, <3>6, JoinsLate
  <2> QED BY <2>1, <2>2
<1> QED BY <1>1, <1>2 DEF NotJoined, Incoming

LEMMA DeclinedOnceTurn ==
    ASSUME DInv, NEW c \in Client, TabStep(c), Turn(c), OthersKeep(c), OthersWait(c)
    PROVE  DeclinedOnce'
<1> SUFFICES ASSUME NEW m \in net', m.type = "decline"
             PROVE  /\ m.from # caller'[m.id] /\ session'[m.from] # m.id
                    /\ m.id \notin media'[m.from] /\ m.from \notin joined'[m.id]
                    /\ \A n \in net' : n.type = "invite" /\ n.id = m.id =>
                         n.to # m.from
  BY DEF DeclinedOnce
<1> DEFINE id == m.id  d == m.from
<1>0. /\ LInv /\ IInv /\ TypeOK /\ NotJoined /\ DeclinedOnce /\ Fresh /\ Untouched
      /\ Stages /\ NoOne \notin Client /\ NoId \notin CallId
  BY DInvFacts
\* Before the step, of a decline that is under way or sent by it.
<1>1. /\ id \in CallId /\ caller[id] \in Client /\ d \in Client /\ d # caller[id]
      /\ d \notin joined[id] /\ session'[d] # id /\ id \notin media'[d]
      /\ \A n \in net : n.type = "invite" /\ n.id = id => n.to # d
      /\ ~NotSent(id) \/ m \notin net
  <2>1. CASE m \in net
    <3>1. /\ id \in CallId /\ caller[id] \in Client /\ d \in Client
          /\ d # caller[id] /\ d \notin joined[id] /\ session[d] # id
          /\ id \notin media[d]
          /\ \A n \in net : n.type = "invite" /\ n.id = id => n.to # d
      BY <1>0, <2>1, IdFacts DEF DeclinedOnce
    <3>2. ~NotSent(id)
      BY <1>0, <2>1, <3>1 DEF Fresh
    <3>3. session'[d] # id
      <4>1. CASE d # c
        BY <3>1, <4>1 DEF OthersKeep
      <4>2. CASE d = c /\ TurnBegin(c)
        <5>1. PICK i \in CallId :
                /\ session'[c] = i
                /\ \/ caller[i] = NoOne
                   \/ \E n \in net : n.type = "invite" /\ n.to = c /\ n.id = i
          BY <4>2 DEF TurnBegin
        <5> QED BY <1>0, <3>1, <4>2, <5>1
      <4>3. CASE d = c /\ ~TurnBegin(c)
        BY <1>0, <3>1, <4>3, SessionTurn
      <4> QED BY <4>1, <4>2, <4>3
    <3>4. id \notin media'[d]
      <4>1. CASE d # c
        BY <3>1, <4>1 DEF OthersWait
      <4>2. CASE d = c
        BY <1>0, <3>1, <3>3, <4>2, AsksOnce
      <4> QED BY <4>1, <4>2
    <3> HIDE DEF id, d
    <3> QED BY <3>1, <3>2, <3>3, <3>4
  <2>2. CASE m \notin net
    <3>1. /\ m \in Message /\ d = c /\ caller[id] # c /\ session'[c] # id
          /\ \/ session[c] = id /\ Incoming(c) /\ media'[c] \subseteq media[c]
             \/ id \in media[c] \ media'[c]
      BY <1>0, <2>2, TabMessages DEF NewMessage
    <3>2. id \in CallId /\ id # NoId
      BY <1>0, <3>1 DEF Message
    <3>3. id \notin media'[c]
      <4>1. session[c] = id /\ Incoming(c) => id \notin media[c]
        BY <1>0, <3>2 DEF Stages, StageOf, Incoming
      <4> QED BY <3>1, <4>1
    <3>4. caller[id] \in Client /\ c \notin joined[id]
      BY <1>0, <3>1, <3>2, IdFacts DEF NotJoined
    <3>5. session[c] = id => call[c].id = id
      BY <1>0, <3>2, TabFacts
    <3>6. \A n \in net : n.type = "invite" /\ n.id = id => n.to # c
      BY <1>0, <3>1, <3>5 DEF Untouched
    <3> QED BY <2>2, <3>1, <3>2, <3>3, <3>4, <3>6
  <2> QED BY <2>1, <2>2
<1> HIDE DEF id, d
<1>2. caller'[id] # d
  BY <1>0, <1>1, CallsKept
<1>3. d \notin joined'[id]
  <2> SUFFICES ASSUME d \in joined'[id] PROVE FALSE
    OBVIOUS
  <2>1. /\ id = session[c] /\ d = c
        /\ TurnAccepted(c) \/ TurnJoin(c)
    BY <1>0, <1>1, JoinsLate
  <2>2. session'[c] = session[c]
    BY <2>1 DEF TurnAccepted, TurnJoin
  <2> QED BY <1>1, <2>1, <2>2
<1>4. ASSUME NEW n \in net', n.type = "invite", n.id = id PROVE n.to # d
  <2>1. CASE n \in net
    BY <1>1, <1>4, <2>1
  <2>2. CASE n \notin net
    <3>1. caller[id] = c /\ id \in media[c]
      BY <1>0, <1>4, <2>2, TabMessages DEF NewMessage
    <3>2. NotSent(id) /\ d # c
      BY <1>1, <3>1 DEF NotSent
    <3>3. m \notin net
      BY <1>1, <3>2
    <3>4. d = c
      BY <1>0, <3>3, TabMessages DEF NewMessage, d
    <3> QED BY <3>2, <3>4
  <2> QED BY <2>1, <2>2
<1> QED BY <1>1, <1>2, <1>3, <1>4 DEF id, d

\* How a turn treats the reason a call ended for.
LEMMA ReasonTurn ==
    ASSUME DInv, NEW c \in Client, Turn(c)
    PROVE  /\ session'[c] # NoId => call'[c].reason = "none"
           /\ session[c] = NoId => call'[c].reason = "none" \/ call'[c] = call[c]
<1>0. IInv /\ TypeOK /\ LiveHasNoReason /\ NoId \notin CallId
  BY DInvFacts
<1>1. session[c] # NoId => call[c] \in Calls /\ call[c].reason = "none"
  BY <1>0, TabFacts DEF LiveHasNoReason
<1>2. CASE TurnBegin(c)
  BY <1>2 DEF TurnBegin, NewCall
<1>3. CASE TurnIdle(c)
  BY <1>1, <1>3, PostFields DEF TurnIdle, KeepsLinks
<1>4. CASE TurnClose(c) \/ TurnLeave(c)
  BY <1>4 DEF TurnClose, TurnLeave, NoCall
<1>5. CASE TurnEnd(c)
  BY <1>5 DEF TurnEnd, Freed
<1>6. CASE TurnAsked(c) \/ TurnJoin(c) \/ TurnStuck(c)
  BY <1>0, <1>1, <1>6 DEF TurnAsked, TurnJoin, TurnStuck, KeepsLinks, TypeOK
<1>7. CASE TurnAnswer(c) \/ TurnAccepted(c) \/ TurnDisconnect(c)
  BY <1>1, <1>7, UpdateFields
     DEF TurnAnswer, TurnAccepted, TurnDisconnect, Status
<1>8. CASE TurnConnect(c)
  BY <1>1, <1>8, UpdateFields DEF TurnConnect
<1> QED BY <1>2, <1>3, <1>4, <1>5, <1>6, <1>7, <1>8 DEF Turn

\* A call that ends as declined was declined by a message of the other side.
LEMMA DeclineTurn ==
    ASSUME IInv, NEW c \in Client, TabStep(c), session[c] # NoId,
           session'[c] = NoId, call'[c].reason = "declined"
    PROVE  /\ call[c].dir = "outgoing" /\ call'[c] = ToEnded(call[c], "declined")
           /\ \E m \in net : /\ m.type = "decline" /\ m.id = session[c]
                             /\ Owner[m.from] = PeerId(c, session[c])
<1>0. TypeOK /\ call[c] \in Calls /\ call[c].id = session[c]
  BY TabFacts
<1>1. ASSUME NEW r \in Reason \ {"declined"},
             Finish(c, r) \/ FinishAndDismiss(c, r)
      PROVE  FALSE
  <2>1. call'[c] \in {ToEnded(call[c], r), NoCall}
    BY <1>0, <1>1 DEF Finish, FinishAndDismiss, FinishTo, Reduce, TypeOK
  <2> QED BY <1>0, <2>1, UpdateFields DEF NoCall
<1>2. ~(session' = session)
  OBVIOUS
<1>3. CASE UserStep(c)
  <2>1. ~DeclineCall(c)
    <3> SUFFICES ASSUME DeclineCall(c) PROVE FALSE
      OBVIOUS
    <3>1. call'[c] = NoCall
      BY <1>0 DEF DeclineCall, FinishAndDismiss, FinishTo, Reduce, TypeOK
    <3> QED BY <3>1 DEF NoCall
  <2>2. ~(HangUpOnUnload(c) \/ Crash(c))
    BY <1>0 DEF HangUpOnUnload, Crash, Gone, NoCall, TypeOK
  <2>3. ~HangUp(c)
    BY <1>1, <1>2 DEF HangUp, Reason, uiVars
  <2>4. ~\E user \in User, id \in CallId : StartCall(c, user, id)
    BY <1>0, TabFacts, SessionFacts DEF StartCall, TypeOK
  <2> QED BY <1>2, <1>3, <2>1, <2>2, <2>3, <2>4
          DEF UserStep, AcceptCall, DismissCall, StartInbox, uiVars
<1>4. CASE MediaStep(c)
  BY <1>1, <1>2, <1>4
     DEF MediaStep, StartMediaOk, StartMediaFail, AcceptMediaOk, AcceptMediaFail,
         Reason, uiVars
<1>5. CASE TimerStep(c)
  BY <1>1, <1>2, <1>5
     DEF TimerStep, RingTimeout, AutoDismissCall, ConnectionTimeout, Reason, uiVars
<1>6. CASE ReplyStep(c)
  BY <1>2, <1>6 DEF ReplyStep, ProfilesReady, PostCreated, PostFails, uiVars
<1>7. CASE InboxStep(c)
  <2> PICK m \in net : \/ ReceiveInvite(c, m) \/ ReceiveAccept(c, m)
                       \/ ReceiveEnd(c, m) \/ ReceiveIgnored(c, m)
                       \/ ReceiveData(c, m)
    BY <1>7 DEF InboxStep
  <2>1. CASE ReceiveEnd(c, m)
    <3>1. /\ session[c] = m.id /\ Owner[m.from] = PeerId(c, session[c])
          /\ m.type \in {"decline", "busy", "cancel", "hangup"}
          /\ m.type = "decline" => call[c].dir = "outgoing"
          /\ Finish(c, EndReason[m.type])
      BY <2>1 DEF ReceiveEnd, Ends, Addressed, IsCurrent
    <3>2. m.type = "decline"
      BY <1>1, <3>1 DEF EndReason, Reason
    <3>3. call'[c] = ToEnded(call[c], "declined")
      BY <1>0, <3>1, <3>2 DEF Finish, FinishTo, Reduce, EndReason, TypeOK
    <3> QED BY <3>1, <3>2, <3>3
  <2>2. ~ReceiveInvite(c, m)
    BY <1>0, <1>2, TabFacts, SessionFacts DEF ReceiveInvite
  <2> QED BY <1>1, <1>2, <2>1, <2>2
          DEF ReceiveAccept, ReceiveIgnored, ReceiveData, Reason, uiVars
<1>8. CASE MeshStep(c)
  BY <1>2, <1>8 DEF MeshStep, MeshHello, PeerConnected, PeerClosed, uiVars
<1> QED BY <1>3, <1>4, <1>5, <1>6, <1>7, <1>8 DEF TabStep

LEMMA DInvStep == DInv /\ [Next]_vars => DInv'
<1> SUFFICES ASSUME DInv, [Next]_vars PROVE DInv'
  OBVIOUS
<1>0. /\ IInv /\ JInv' /\ Sides /\ NotJoined /\ DeclinedOnce /\ LiveHasNoReason
  BY JInvStep, DInvFacts
<1>1. ASSUME NEW c \in Client, TabStep(c) PROVE DInv'
  <2>1. Turn(c) /\ OthersKeep(c) /\ OthersWait(c)
    BY <1>0, <1>1, TabTurns
  <2>2. LiveHasNoReason'
    BY <1>0, <2>1, ReasonTurn DEF LiveHasNoReason, OthersKeep
  <2> QED BY <1>0, <1>1, <2>1, <2>2, SidesTurn, NotJoinedTurn, DeclinedOnceTurn
          DEF DInv
<1>2. ASSUME ServerStep \/ UNCHANGED vars PROVE DInv'
  <2>1. UNCHANGED <<session, call, media, caller, callee, joined>> /\ net' \subseteq net
    BY <1>2, ServerTurns DEF callVars
  <2>2. Sides' /\ NotJoined' /\ LiveHasNoReason'
    BY <1>0, <2>1 DEF Sides, NotJoined, LiveHasNoReason, Incoming
  <2>3. DeclinedOnce'
    BY <1>0, <2>1 DEF DeclinedOnce
  <2> QED BY <1>0, <2>2, <2>3 DEF DInv
<1>3. (\E c \in Client : TabStep(c)) \/ ServerStep \/ UNCHANGED vars
  BY DEF Next, TabStep
<1> QED BY <1>1, <1>2, <1>3

LEMMA DInvInit == Init => DInv
<1> SUFFICES ASSUME Init PROVE DInv
  OBVIOUS
<1>1. Sides /\ NotJoined /\ DeclinedOnce /\ LiveHasNoReason
  BY DEF Init, Sides, NotJoined, DeclinedOnce, LiveHasNoReason
<1> QED BY <1>1, JInvInit DEF DInv

(* Each user has one tab.  With a second tab of the callee the next theorem *)
(* fails: one tab declines while the other has joined the call.             *)
SingleTabs == \A c, d \in Client : Owner[c] = Owner[d] => c = d

DeclinedNotStarted == \A c \in Client : call[c].reason = "declined" => ~call[c].started
DeclinedTrue ==
    \A id \in CallId : "declined" \in {post[id], patch[id]} =>
        \A c \in Client : call[c].id = id /\ c = caller[id] => ~call[c].started

OInv == DInv /\ DeclinedNotStarted /\ DeclinedTrue

\* A call that connected is not declined: who declines has not joined, and the
\* one tab of the callee has.
LEMMA NotStartedTurn ==
    ASSUME SingleTabs, OInv, NEW c \in Client, TabStep(c), Turn(c)
    PROVE  call'[c].reason = "declined" => ~call'[c].started
<1> SUFFICES ASSUME call'[c].reason = "declined", call'[c].started PROVE FALSE
  OBVIOUS
<1>0. /\ DInv /\ IInv /\ TypeOK /\ Sides /\ DeclinedOnce /\ LiveHasNoReason
      /\ StartedJoined
  BY DInvFacts DEF OInv, JInv
<1>1. session'[c] = NoId
  BY <1>0, ReasonTurn
<1>2. CASE session[c] = NoId
  <2>1. call'[c] = call[c]
    BY <1>0, <1>2, ReasonTurn
  <2> QED BY <2>1 DEF OInv, DeclinedNotStarted
<1>3. CASE session[c] # NoId
  <2>1. PICK m \in net : /\ m.type = "decline" /\ m.id = session[c]
                         /\ Owner[m.from] = PeerId(c, session[c])
    BY <1>0, <1>1, <1>3, DeclineTurn
  <2>2. /\ call[c].dir = "outgoing" /\ call[c] \in Calls
        /\ call[c].id = session[c] /\ session[c] \in CallId
        /\ call'[c] = ToEnded(call[c], "declined") /\ m.from \in Client
    BY <1>0, <1>1, <1>3, <2>1, DeclineTurn, TabFacts, IdFacts
  <2>3. call[c].started
    BY <2>2, UpdateFields DEF Reason
  <2>4. PICK e \in joined[session[c]] : e # c
    BY <1>0, <2>2, <2>3 DEF StartedJoined, Both
  <2>5. caller[session[c]] = c /\ e \in Client
    BY <1>0, <1>3, <2>2, <2>4, IdFacts DEF TypeOK
  <2>6. Owner[e] = Owner[m.from]
    BY <1>0, <2>1, <2>2, <2>4, <2>5 DEF Sides, PeerId
  <2>7. e = m.from
    BY <2>2, <2>5, <2>6 DEF SingleTabs
  <2> QED BY <1>0, <2>1, <2>4, <2>7 DEF DeclinedOnce
<1> QED BY <1>2, <1>3

LEMMA DeclinedTrueTurn ==
    ASSUME OInv, NEW c \in Client, TabStep(c), CardTurn(c), Turn(c), OthersKeep(c)
    PROVE  DeclinedTrue'
<1> SUFFICES ASSUME NEW id \in CallId, "declined" \in {post'[id], patch'[id]},
                    NEW d \in Client, call'[d].id = id, d = caller'[id],
                    call'[d].started
             PROVE  FALSE
  BY DEF DeclinedTrue
<1>0. /\ IInv /\ CInv /\ DeclinedTrue /\ DeclinedNotStarted /\ CardOf(id)
      /\ id # NoId /\ NoOne \notin Client
  BY DInvFacts DEF OInv, CInv, Cards
<1>1. CASE "declined" \in {post[id], patch[id]}
  <2>1. Settled(id) /\ ~NotSent(id)
    BY <1>0, <1>1 DEF CInv, FreshCard, Settled, Final
  <2>2. caller[id] = d /\ session[d] # id
    BY <1>0, <2>1, CallsKept DEF NotSent, CardOf
  <2>3. CASE d # c
    BY <1>0, <1>1, <2>2, <2>3 DEF OthersKeep, DeclinedTrue
  <2>4. CASE d = c
    <3>1. call[c].id = id /\ call[c].started
      BY <1>0, <2>2, <2>4, StartedTurn
    <3> QED BY <1>0, <1>1, <2>2, <2>4, <3>1 DEF DeclinedTrue
  <2> QED BY <2>3, <2>4
<1>2. CASE "declined" \notin {post[id], patch[id]}
  <2>1. patch'[id] = "declined" /\ patch'[id] # patch[id] /\ caller[id] = c
    BY <1>0, <1>2, PatchTurn
  <2>2. d = c
    BY <1>0, <2>1, CallsKept
  <2>3. CASE /\ patch'[id] = IF call[c].id = id /\ call[c].reason = "declined"
                              THEN "declined" ELSE "missed"
             /\ call'[c] = call[c]
    <3>1. call[c].reason = "declined"
      BY <2>1, <2>3
    <3> QED BY <1>0, <2>2, <2>3, <3>1 DEF DeclinedNotStarted
  <2>4. CASE \E r \in Reason :
               /\ call[c] \in Calls /\ patch'[id] = PostStatus(call[c], r)
               /\ call'[c] \in {NoCall, ToEnded(call[c], r)}
    <3>1. ~call[c].started
      BY <2>1, <2>4 DEF PostStatus
    <3>2. call'[c].started = call[c].started \/ call'[c].started = FALSE
      BY <2>4, UpdateFields DEF NoCall
    <3> QED BY <2>2, <3>1, <3>2
  <2> QED BY <1>0, <2>1, <2>3, <2>4, OutcomeTurn
<1> QED BY <1>1, <1>2

LEMMA OInvStep == ASSUME SingleTabs PROVE OInv /\ [Next]_vars => OInv'
<1> SUFFICES ASSUME OInv, [Next]_vars PROVE OInv'
  OBVIOUS
<1>0. DInv' /\ IInv /\ DInv /\ TypeOK /\ DeclinedNotStarted /\ DeclinedTrue
  BY DInvStep, DInvFacts DEF OInv
<1>1. ASSUME NEW c \in Client, TabStep(c) PROVE OInv'
  <2>1. Turn(c) /\ OthersKeep(c) /\ CardTurn(c)
    BY <1>0, <1>1, TabTurns, CardTurns
  <2>2. DeclinedNotStarted'
    BY <1>0, <1>1, <2>1, NotStartedTurn DEF DeclinedNotStarted, OthersKeep
  <2> QED BY <1>0, <1>1, <2>1, <2>2, DeclinedTrueTurn DEF OInv
<1>2. ASSUME ServerStep \/ UNCHANGED vars PROVE OInv'
  <2>1. UNCHANGED <<call, caller>>
    BY <1>2, ServerTurns DEF callVars
  <2>2. ASSUME NEW id \in CallId, "declined" \in {post'[id], patch'[id]}
        PROVE  "declined" \in {post[id], patch[id]}
    BY <1>0, <1>2, <2>2 DEF ServerStep, PostLands, PatchLands, PatchFails, Lose,
                            vars, cardVars, TypeOK
  <2>3. DeclinedNotStarted' /\ DeclinedTrue'
    BY <1>0, <2>1, <2>2 DEF DeclinedNotStarted, DeclinedTrue
  <2> QED BY <1>0, <2>3 DEF OInv
<1>3. (\E c \in Client : TabStep(c)) \/ ServerStep \/ UNCHANGED vars
  BY DEF Next, TabStep
<1> QED BY <1>1, <1>2, <1>3

LEMMA OInvInit == Init => OInv
<1> SUFFICES ASSUME Init PROVE OInv
  OBVIOUS
<1>1. DeclinedNotStarted /\ DeclinedTrue
  BY DEF Init, DeclinedNotStarted, DeclinedTrue, NoCall
<1> QED BY <1>1, DInvInit DEF OInv

\* When each user has one tab, a card that says "declined" is never that of a
\* call its caller saw connect, and one that says "ended" always is one that
\* both sides had joined.
THEOREM CardTellsTheTruth == ASSUME SingleTabs PROVE Spec => []CardOutcomeIsTrue
<1>1. OInv => CardOutcomeIsTrue
  BY DEF OInv, DInv, JInv, EndedTrue, Both, DeclinedTrue, CardOutcomeIsTrue
<1>2. OInv /\ [Next]_vars => OInv'
  BY OInvStep
<1> QED BY <1>1, <1>2, OInvInit, PTL DEF Spec
=============================================================================
