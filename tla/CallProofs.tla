------------------------------ MODULE CallProofs ------------------------------
(* Proofs about the call controller of module Call, for any set of tabs,    *)
(* users and calls.                                                         *)
EXTENDS Call, TLAPS

(* The inductive invariant.  Each part needs the others.  A callback that    *)
(* updates the Redux call is typed only because a live session has a live   *)
(* call; a new session starts clean only because an ended one left nothing; *)
(* and a late auto-dismiss leaves the session alone only because the id of  *)
(* a call that is over never comes back.                                    *)
Inv  == TypeOK /\ SessionMatchesRedux /\ ResourcesFollowSession
IInv == Inv /\ IdsUsedOnce

\* What the updates of a Redux call keep and change.
LEMMA StatusUpdate ==
    ASSUME NEW k \in Calls, NEW s \in Status
    PROVE  /\ ToStatus(k, s) \in Calls
           /\ ToStatus(k, s).id = k.id /\ ToStatus(k, s).status = s
BY DEF Calls, ToStatus

LEMMA EndUpdate ==
    ASSUME NEW k \in Calls, NEW r \in Reason
    PROVE  /\ ToEnded(k, r) \in Calls
           /\ ToEnded(k, r).id = k.id /\ ToEnded(k, r).status = "ended"
BY DEF Calls, ToEnded, Status

LEMMA PostUpdate ==
    ASSUME NEW k \in Calls
    PROVE  /\ [k EXCEPT !.post = TRUE] \in Calls
           /\ [k EXCEPT !.post = TRUE].id = k.id
           /\ [k EXCEPT !.post = TRUE].status = k.status
BY DEF Calls

LEMMA ActiveUpdate ==
    ASSUME NEW k \in Calls
    PROVE  LET a == [k EXCEPT !.status = "active", !.started = TRUE]
           IN  a \in Calls /\ a.id = k.id /\ a.status = "active"
BY DEF Calls, Status

LEMMA NewCallType ==
    ASSUME NEW id \in CallId, NEW dir \in {"outgoing", "incoming"}
    PROVE  /\ NewCall(id, dir) \in Calls
           /\ NewCall(id, dir).id = id
           /\ NewCall(id, dir).status = "ringing"
BY DEF NewCall, Calls, Status

\* A tab with a session is in that call; a tab without one has no resources.
LEMMA SessionFacts ==
    ASSUME Inv, NEW c \in Client
    PROVE  /\ session[c] # NoId => /\ call[c] \in Calls /\ call[c].id = session[c]
                                   /\ session[c] \in CallId /\ InCall(c)
           /\ session[c] = NoId => /\ ~InCall(c) /\ streams[c] = {}
                                   /\ mesh[c] = {} /\ timers[c] = {}
                                   /\ slot[c] = NoOne /\ peer[c] = NoOne
           /\ NoCall \notin Calls /\ NoCall.id = NoId
<1>1. NoCall \notin Calls /\ NoCall.id = NoId
  BY CallAssumption DEF NoCall, Calls
<1>2. call[c] \in Calls => call[c].id \in CallId /\ call[c].id # NoId
  BY CallAssumption DEF Calls
<1>3. CASE session[c] # NoId
  BY <1>1, <1>2, <1>3, CallAssumption
     DEF Inv, TypeOK, SessionMatchesRedux, InCall
<1>4. CASE session[c] = NoId
  <2>1. ~InCall(c)
    BY <1>1, <1>2, <1>4 DEF Inv, TypeOK, SessionMatchesRedux, InCall
  <2>2. streams[c] = {} /\ mesh[c] = {} /\ timers[c] = {}
    BY <1>4, CallAssumption DEF Inv, TypeOK, ResourcesFollowSession
  <2>3. slot[c] = NoOne /\ peer[c] = NoOne
    BY <2>2 DEF Inv, ResourcesFollowSession
  <2> QED BY <1>1, <1>4, <2>1, <2>2, <2>3
<1> QED BY <1>1, <1>3, <1>4

(* The invariant in two halves: Core relates the session of a tab to its    *)
(* Redux call and its resources; RestTypeOK types the other variables.      *)
CoreTypeOK ==
    /\ session \in [Client -> CallId \cup {NoId}]
    /\ call \in [Client -> Calls \cup {NoCall}]
    /\ timers \in [Client -> SUBSET (Timer \X CallId)]
    /\ streams \in [Client -> SUBSET CallId]
    /\ mesh \in [Client -> SUBSET CallId]
    /\ slot \in [Client -> Client \cup {NoOne}]
    /\ peer \in [Client -> Client \cup {NoOne}]
    /\ ringing \in [Client -> BOOLEAN]
    /\ dismissals \in [Client -> SUBSET CallId]
    /\ patch \in [CallId -> Final \cup {"none"}]

RestTypeOK ==
    /\ on \in [Client -> BOOLEAN]
    /\ media \in [Client -> SUBSET CallId]
    /\ profiles \in [Client -> SUBSET CallId]
    /\ posting \in [Client -> SUBSET CallId]
    /\ caller \in [CallId -> Client \cup {NoOne}]
    /\ callee \in [CallId -> User \cup {NoOne}]
    /\ joined \in [CallId -> SUBSET Client]
    /\ net \subseteq Message
    /\ creating \subseteq CallId
    /\ post \in [CallId -> Final \cup {"none", "ringing"}]

Core == CoreTypeOK /\ SessionMatchesRedux /\ ResourcesFollowSession
coreVars == <<uiVars, timers, streams, linkVars, patch>>

LEMMA InvHalves == Inv <=> Core /\ RestTypeOK
BY DEF Inv, Core, TypeOK, CoreTypeOK, RestTypeOK

LEMMA CoreStutters == Core /\ UNCHANGED coreVars => Core'
BY DEF Core, coreVars, uiVars, linkVars, CoreTypeOK, SessionMatchesRedux,
       ResourcesFollowSession, InCall

LEMMA PostStatusType ==
    ASSUME NEW k, NEW r \in Reason PROVE PostStatus(k, r) \in Final
BY DEF PostStatus, Final

\* finish() leaves an ended call, or none, and no resources.
LEMMA FinishKeepsCore ==
    ASSUME Inv, NEW c \in Client, session[c] # NoId,
           NEW r \in Reason, NEW next,
           next = NoCall \/ (next \in Calls /\ next.status = "ended"),
           FinishTo(c, r, next)
    PROVE  Core'
<1> DEFINE id == session[c]
<1>1. id \in CallId /\ CoreTypeOK
  BY SessionFacts, InvHalves DEF Core
<1>2. PostStatus(call[c], r) \in Final
  BY PostStatusType
<1>3. CoreTypeOK'
  <2>1. next \in Calls \cup {NoCall}
    OBVIOUS
  <2>2. patch' \in [CallId -> Final \cup {"none"}]
    BY <1>1, <1>2 DEF FinishTo, CoreTypeOK
  <2>3. /\ session' \in [Client -> CallId \cup {NoId}]
        /\ call' \in [Client -> Calls \cup {NoCall}]
        /\ ringing' \in [Client -> BOOLEAN]
        /\ dismissals' \in [Client -> SUBSET CallId]
    BY <1>1, <2>1 DEF FinishTo, CoreTypeOK
  <2>4. /\ timers' \in [Client -> SUBSET (Timer \X CallId)]
        /\ streams' \in [Client -> SUBSET CallId]
        /\ mesh' \in [Client -> SUBSET CallId]
        /\ slot' \in [Client -> Client \cup {NoOne}]
        /\ peer' \in [Client -> Client \cup {NoOne}]
    BY <1>1 DEF FinishTo, Teardown, CoreTypeOK
  <2> QED BY <2>2, <2>3, <2>4 DEF CoreTypeOK
<1>4. SessionMatchesRedux'
  <2> SUFFICES ASSUME NEW d \in Client
               PROVE  (session[d] = IF InCall(d) THEN call[d].id ELSE NoId)'
    BY DEF SessionMatchesRedux
  <2>1. CASE d = c
    BY <1>1, <2>1 DEF FinishTo, InCall, CoreTypeOK
  <2>2. CASE d # c
    BY <1>1, <2>2 DEF FinishTo, InCall, CoreTypeOK, Inv, SessionMatchesRedux
  <2> QED BY <2>1, <2>2
<1>5. ResourcesFollowSession'
  <2> SUFFICES ASSUME NEW d \in Client
               PROVE  (/\ streams[d] \cup mesh[d] \subseteq {session[d]}
                       /\ timers[d] \subseteq Timer \X {session[d]}
                       /\ slot[d] # NoOne => mesh[d] # {}
                       /\ peer[d] \in {NoOne, slot[d]})'
    BY DEF ResourcesFollowSession
  <2>1. CASE d = c
    <3>1. streams'[c] = {} /\ mesh'[c] = {} /\ timers'[c] = {}
      BY <1>1 DEF FinishTo, Teardown, CoreTypeOK, Inv, ResourcesFollowSession
    <3>2. slot'[c] = NoOne /\ peer'[c] = NoOne
      BY <1>1 DEF FinishTo, Teardown, CoreTypeOK
    <3> QED BY <2>1, <3>1, <3>2
  <2>2. CASE d # c
    <3>1. /\ session'[d] = session[d] /\ timers'[d] = timers[d]
          /\ streams'[d] = streams[d] /\ mesh'[d] = mesh[d]
          /\ slot'[d] = slot[d] /\ peer'[d] = peer[d]
      BY <1>1, <2>2 DEF FinishTo, Teardown, CoreTypeOK
    <3> QED BY <3>1 DEF Inv, ResourcesFollowSession
  <2> QED BY <2>1, <2>2
<1> QED BY <1>3, <1>4, <1>5 DEF Core

LEMMA FinishesKeepCore ==
    ASSUME Inv, NEW c \in Client, session[c] # NoId, NEW r \in Reason,
           Finish(c, r) \/ FinishAndDismiss(c, r)
    PROVE  Core'
<1>1. call[c] \in Calls /\ call[c].id = session[c]
  BY SessionFacts
<1>2. CASE Finish(c, r)
  <2>1. FinishTo(c, r, ToEnded(call[c], r))
    BY <1>1, <1>2 DEF Finish, Reduce
  <2>2. ToEnded(call[c], r) \in Calls /\ ToEnded(call[c], r).status = "ended"
    BY <1>1, EndUpdate
  <2> QED BY <2>1, <2>2, FinishKeepsCore
<1>3. CASE FinishAndDismiss(c, r)
  <2>1. FinishTo(c, r, NoCall)
    BY <1>1, <1>3 DEF FinishAndDismiss, Reduce
  <2> QED BY <2>1, FinishKeepsCore
<1> QED BY <1>2, <1>3

LEMMA CopiesType ==
    ASSUME NEW c \in Client, NEW user, NEW type \in Control, NEW id \in CallId
    PROVE  Copies(c, user, type, id) \subseteq Message
BY DEF Copies, Message

(* Core, one tab at a time.                                                 *)
TabOK(c) ==
    /\ session[c] = IF InCall(c) THEN call[c].id ELSE NoId
    /\ streams[c] \cup mesh[c] \subseteq {session[c]}
    /\ timers[c] \subseteq Timer \X {session[c]}
    /\ slot[c] # NoOne => mesh[c] # {}
    /\ peer[c] \in {NoOne, slot[c]}

OthersKeep(c) ==
    \A d \in Client \ {c} :
        /\ session'[d] = session[d] /\ call'[d] = call[d]
        /\ timers'[d] = timers[d] /\ streams'[d] = streams[d]
        /\ mesh'[d] = mesh[d] /\ slot'[d] = slot[d] /\ peer'[d] = peer[d]

LEMMA OneTab ==
    ASSUME Inv, NEW c \in Client, CoreTypeOK', OthersKeep(c), TabOK(c)'
    PROVE  Core'
<1> SUFFICES ASSUME NEW d \in Client PROVE TabOK(d)'
  BY DEF Core, TabOK, SessionMatchesRedux, ResourcesFollowSession
<1>1. CASE d = c
  BY <1>1
<1>2. CASE d # c
  <2>1. TabOK(d)
    BY DEF Inv, TabOK, SessionMatchesRedux, ResourcesFollowSession
  <2> QED BY <1>2, <2>1 DEF OthersKeep, TabOK, InCall
<1> QED BY <1>1, <1>2

LEMMA GoneKeepsCore ==
    ASSUME Inv, NEW c \in Client, Gone(c)
    PROVE  Core'
<1>1. CoreTypeOK
  BY InvHalves DEF Core
<1>2. CoreTypeOK'
  BY <1>1 DEF Gone, CoreTypeOK
<1>3. OthersKeep(c)
  BY <1>1 DEF Gone, CoreTypeOK, OthersKeep
<1>4. TabOK(c)'
  BY <1>1 DEF Gone, CoreTypeOK, TabOK, InCall
<1> QED BY <1>2, <1>3, <1>4, OneTab

LEMMA StartCallKeepsCore ==
    ASSUME Inv, NEW c \in Client, NEW user \in User, NEW id \in CallId,
           StartCall(c, user, id)
    PROVE  Core'
<1>1. CoreTypeOK
  BY InvHalves DEF Core
<1>2. NewCall(id, "outgoing") \in Calls /\ NewCall(id, "outgoing").id = id
      /\ NewCall(id, "outgoing").status = "ringing"
  BY NewCallType
<1>3. session[c] = NoId
  BY SessionFacts DEF StartCall
<1>4. CoreTypeOK'
  BY <1>1, <1>2 DEF StartCall, CoreTypeOK, linkVars
<1>5. OthersKeep(c)
  BY <1>1 DEF StartCall, CoreTypeOK, OthersKeep, linkVars
<1>6. TabOK(c)'
  <2>1. session'[c] = id /\ call'[c] = NewCall(id, "outgoing")
    BY <1>1 DEF StartCall, CoreTypeOK
  <2>2. /\ streams'[c] = {} /\ mesh'[c] = {} /\ timers'[c] = {}
        /\ slot'[c] = NoOne /\ peer'[c] = NoOne
    BY <1>3, SessionFacts DEF StartCall, linkVars
  <2>3. InCall(c)'
    BY <1>2, <2>1, SessionFacts DEF InCall
  <2> QED BY <1>2, <2>1, <2>2, <2>3 DEF TabOK
<1> QED BY <1>4, <1>5, <1>6, OneTab

LEMMA StartMediaOkKeepsCore ==
    ASSUME Inv, NEW c \in Client, NEW id \in CallId, StartMediaOk(c, id)
    PROVE  Core'
<1>1. CoreTypeOK /\ TabOK(c)
  BY InvHalves DEF Core, TabOK, Inv, SessionMatchesRedux, ResourcesFollowSession
<1>2. CASE ~IsCurrent(c, id)
  BY <1>2, CoreStutters, InvHalves DEF StartMediaOk, coreVars
<1>3. CASE IsCurrent(c, id)
  <2>1. /\ streams' = [streams EXCEPT ![c] = @ \cup {id}]
        /\ timers' \in {timers, [timers EXCEPT ![c] = @ \cup {<<"ring", id>>}]}
        /\ UNCHANGED <<uiVars, linkVars, patch>>
    BY <1>3 DEF StartMediaOk
  <2>2. CoreTypeOK'
    BY <1>1, <2>1 DEF CoreTypeOK, uiVars, linkVars, Timer
  <2>3. OthersKeep(c)
    BY <1>1, <2>1 DEF CoreTypeOK, OthersKeep, uiVars, linkVars
  <2>4. TabOK(c)'
    BY <1>1, <1>3, <2>1
       DEF CoreTypeOK, TabOK, InCall, IsCurrent, Timer, uiVars, linkVars
  <2> QED BY <2>2, <2>3, <2>4, OneTab
<1> QED BY <1>2, <1>3

\* A timer that fires for a session which is not current only goes away.
LEMMA TimerGone ==
    ASSUME Inv, NEW c \in Client, NEW x,
           timers' = [timers EXCEPT ![c] = @ \ {x}],
           UNCHANGED <<uiVars, streams, linkVars, patch>>
    PROVE  Core'
<1>1. CoreTypeOK /\ TabOK(c)
  BY InvHalves DEF Core, TabOK, Inv, SessionMatchesRedux, ResourcesFollowSession
<1>2. CoreTypeOK'
  BY <1>1 DEF CoreTypeOK, uiVars, linkVars
<1>3. OthersKeep(c)
  BY <1>1 DEF CoreTypeOK, OthersKeep, uiVars, linkVars
<1>4. TabOK(c)'
  BY <1>1 DEF CoreTypeOK, TabOK, InCall, uiVars, linkVars
<1> QED BY <1>2, <1>3, <1>4, OneTab

\* The Redux call of c changes to one of the same id which is live iff it was.
LEMMA CallChange ==
    ASSUME Inv, NEW c \in Client, session[c] # NoId, NEW k \in Calls,
           k.id = session[c], k.status # "ended",
           call' = [call EXCEPT ![c] = k], session' = session,
           CoreTypeOK', OthersKeep(c),
           (streams[c] \cup mesh[c] \subseteq {session[c]})',
           (timers[c] \subseteq Timer \X {session[c]})',
           (slot[c] # NoOne => mesh[c] # {})',
           (peer[c] \in {NoOne, slot[c]})'
    PROVE  Core'
<1>1. call'[c] = k /\ session'[c] = session[c]
  BY InvHalves DEF Core, CoreTypeOK
<1>2. InCall(c)'
  BY <1>1, SessionFacts DEF InCall
<1>3. TabOK(c)'
  BY <1>1, <1>2 DEF TabOK
<1> QED BY <1>3, OneTab

LEMMA PostCreatedKeepsCore ==
    ASSUME Inv, NEW c \in Client, NEW id \in CallId, PostCreated(c, id)
    PROVE  Core'
<1>1. CoreTypeOK /\ TabOK(c)
  BY InvHalves DEF Core, TabOK, Inv, SessionMatchesRedux, ResourcesFollowSession
<1>2. UNCHANGED <<session, ringing, dismissals, timers, streams, linkVars>>
  BY DEF PostCreated
<1>3. /\ call' \in {call, [call EXCEPT ![c] =
                             Reduce(@, id, [@ EXCEPT !.post = TRUE])]}
      /\ patch' \in [CallId -> Final \cup {"none"}]
  BY <1>1 DEF PostCreated, CoreTypeOK, Final
<1>4. CASE call' = call
  <2>1. CoreTypeOK'
    BY <1>1, <1>2, <1>3, <1>4 DEF CoreTypeOK, linkVars
  <2>2. OthersKeep(c) /\ TabOK(c)'
    BY <1>1, <1>2, <1>4 DEF OthersKeep, TabOK, InCall, linkVars
  <2> QED BY <2>1, <2>2, OneTab
<1>5. CASE call' # call
  <2> DEFINE k == [call[c] EXCEPT !.post = TRUE]
  <2>1. call' = [call EXCEPT ![c] = k] /\ call[c].id = id
    BY <1>1, <1>3, <1>5 DEF Reduce, CoreTypeOK
  <2>2. call[c] \in Calls
    BY <1>1, <2>1, SessionFacts, CallAssumption DEF CoreTypeOK
  <2>3. k \in Calls /\ k.id = id /\ k.status = call[c].status
    BY <2>1, <2>2, PostUpdate
  <2>4. CoreTypeOK'
    BY <1>1, <1>2, <1>3, <2>1, <2>3 DEF CoreTypeOK, linkVars
  <2>5. OthersKeep(c)
    BY <1>1, <1>2, <2>1 DEF CoreTypeOK, OthersKeep, linkVars
  <2>6. TabOK(c)'
    <3>1. call'[c] = k
      BY <1>1, <2>1 DEF CoreTypeOK
    <3>2. InCall(c)' = InCall(c)
      BY <2>2, <2>3, <3>1, SessionFacts DEF InCall
    <3> QED BY <1>1, <1>2, <2>1, <2>3, <3>1, <3>2 DEF TabOK, linkVars
  <2> QED BY <2>4, <2>5, <2>6, OneTab
<1> QED BY <1>4, <1>5

LEMMA ReceiveInviteKeepsCore ==
    ASSUME Inv, NEW c \in Client, NEW m \in Message, ReceiveInvite(c, m)
    PROVE  Core'
<1>1. CoreTypeOK
  BY InvHalves DEF Core
<1>2. CASE InCall(c)
  BY <1>2, CoreStutters, InvHalves DEF ReceiveInvite, coreVars, uiVars
<1>3. CASE ~InCall(c)
  <2>1. /\ session' = [session EXCEPT ![c] = m.id]
        /\ call' = [call EXCEPT ![c] = NewCall(m.id, "incoming")]
        /\ timers' = [timers EXCEPT ![c] = @ \cup {<<"ring", m.id>>}]
        /\ UNCHANGED <<ringing, dismissals, streams, linkVars, patch>>
    BY <1>3 DEF ReceiveInvite
  <2>2. m.id \in CallId
    BY DEF Message
  <2>3. NewCall(m.id, "incoming") \in Calls
        /\ NewCall(m.id, "incoming").id = m.id
        /\ NewCall(m.id, "incoming").status = "ringing"
    BY <2>2, NewCallType
  <2>4. session[c] = NoId
    BY <1>3, SessionFacts
  <2>5. CoreTypeOK'
    BY <1>1, <2>1, <2>2, <2>3 DEF CoreTypeOK, linkVars, Timer
  <2>6. OthersKeep(c)
    BY <1>1, <2>1 DEF CoreTypeOK, OthersKeep, linkVars
  <2>7. TabOK(c)'
    <3>1. session'[c] = m.id /\ call'[c] = NewCall(m.id, "incoming")
      BY <1>1, <2>1 DEF CoreTypeOK
    <3>2. /\ streams'[c] = {} /\ mesh'[c] = {}
          /\ timers'[c] = {<<"ring", m.id>>}
          /\ slot'[c] = NoOne /\ peer'[c] = NoOne
      BY <1>1, <2>1, <2>4, SessionFacts DEF CoreTypeOK, linkVars
    <3>3. InCall(c)'
      BY <2>3, <3>1, SessionFacts DEF InCall
    <3> QED BY <2>3, <3>1, <3>2, <3>3 DEF TabOK, Timer
  <2> QED BY <2>5, <2>6, <2>7, OneTab
<1> QED BY <1>2, <1>3

LEMMA AcceptCallKeepsCore ==
    ASSUME Inv, NEW c \in Client, AcceptCall(c)
    PROVE  Core'
<1> DEFINE id == session[c]
           k == ToStatus(call[c], "connecting")
<1>1. CoreTypeOK /\ TabOK(c)
  BY InvHalves DEF Core, TabOK, Inv, SessionMatchesRedux, ResourcesFollowSession
<1>2. id # NoId /\ call[c] \in Calls /\ call[c].id = id /\ id \in CallId
  BY SessionFacts DEF AcceptCall
<1>3. k \in Calls /\ k.id = id /\ k.status = "connecting"
  BY <1>2, StatusUpdate DEF Status
<1>4. /\ call' = [call EXCEPT ![c] = k]
      /\ timers' = [timers EXCEPT ![c] = @ \ {<<"ring", id>>}]
      /\ ringing' = [ringing EXCEPT ![c] = FALSE]
      /\ UNCHANGED <<session, dismissals, streams, linkVars, patch>>
  BY <1>1, <1>2 DEF AcceptCall, Reduce, CoreTypeOK
<1>5. CoreTypeOK'
  BY <1>1, <1>3, <1>4 DEF CoreTypeOK, linkVars
<1>6. OthersKeep(c)
  BY <1>1, <1>4 DEF CoreTypeOK, OthersKeep, linkVars
<1>7. /\ (streams[c] \cup mesh[c] \subseteq {session[c]})'
      /\ (timers[c] \subseteq Timer \X {session[c]})'
      /\ (slot[c] # NoOne => mesh[c] # {})'
      /\ (peer[c] \in {NoOne, slot[c]})'
  BY <1>1, <1>4 DEF CoreTypeOK, TabOK, linkVars
<1>8. session' = session /\ k.status # "ended"
  BY <1>3, <1>4
<1> QED BY <1>2, <1>3, <1>4, <1>5, <1>6, <1>7, <1>8, CallChange

LEMMA AcceptMediaOkKeepsCore ==
    ASSUME Inv, NEW c \in Client, NEW id \in CallId, AcceptMediaOk(c, id)
    PROVE  Core'
<1>1. CoreTypeOK /\ TabOK(c)
  BY InvHalves DEF Core, TabOK, Inv, SessionMatchesRedux, ResourcesFollowSession
<1>2. CASE ~IsCurrent(c, id)
  BY <1>2, CoreStutters, InvHalves DEF AcceptMediaOk, coreVars, linkVars
<1>3. CASE IsCurrent(c, id)
  <2>1. /\ streams' = [streams EXCEPT ![c] = @ \cup {id}]
        /\ mesh' \in {mesh, [mesh EXCEPT ![c] = @ \cup {id}]}
        /\ timers' \in {timers, [timers EXCEPT ![c] =
                             (@ \ {<<"ring", id>>}) \cup {<<"connect", id>>}]}
        /\ UNCHANGED <<uiVars, slot, peer, patch>>
    BY <1>3 DEF AcceptMediaOk, JoinMesh
  <2>2. CoreTypeOK'
    BY <1>1, <2>1 DEF CoreTypeOK, uiVars, Timer
  <2>3. OthersKeep(c)
    BY <1>1, <2>1 DEF CoreTypeOK, OthersKeep, uiVars
  <2>4. TabOK(c)'
    <3>1. /\ session'[c] = id /\ call'[c] = call[c]
          /\ streams'[c] \cup mesh'[c] \subseteq {id}
      BY <1>1, <1>3, <2>1 DEF CoreTypeOK, TabOK, IsCurrent, uiVars
    <3>2. timers'[c] \subseteq Timer \X {id}
      BY <1>1, <1>3, <2>1 DEF CoreTypeOK, TabOK, IsCurrent, Timer
    <3>3. /\ slot'[c] # NoOne => mesh'[c] # {}
          /\ peer'[c] \in {NoOne, slot'[c]}
      BY <1>1, <2>1 DEF CoreTypeOK, TabOK
    <3>4. session'[c] = IF InCall(c)' THEN call'[c].id ELSE NoId
      BY <1>1, <1>3, <3>1 DEF TabOK, InCall, IsCurrent
    <3> QED BY <3>1, <3>2, <3>3, <3>4 DEF TabOK
  <2> QED BY <2>2, <2>3, <2>4, OneTab
<1> QED BY <1>2, <1>3

LEMMA ReceiveAcceptKeepsCore ==
    ASSUME Inv, NEW c \in Client, NEW m \in Message, ReceiveAccept(c, m)
    PROVE  Core'
<1> DEFINE k == ToStatus(call[c], "connecting")
<1>1. CoreTypeOK /\ TabOK(c)
  BY InvHalves DEF Core, TabOK, Inv, SessionMatchesRedux, ResourcesFollowSession
<1>2. session[c] = m.id /\ m.id \in CallId
  BY DEF ReceiveAccept, Accepts, Addressed, IsCurrent, Message
<1>3. session[c] # NoId /\ call[c] \in Calls /\ call[c].id = m.id
  BY <1>2, SessionFacts, CallAssumption
<1>4. k \in Calls /\ k.id = m.id /\ k.status = "connecting"
  BY <1>3, StatusUpdate DEF Status
<1>5. /\ call' = [call EXCEPT ![c] = k]
      /\ mesh' = [mesh EXCEPT ![c] = @ \cup {m.id}]
      /\ timers' = [timers EXCEPT ![c] =
                       (@ \ {<<"ring", m.id>>}) \cup {<<"connect", m.id>>}]
      /\ UNCHANGED <<session, ringing, dismissals, streams, slot, peer, patch>>
  BY <1>1, <1>3 DEF ReceiveAccept, Reduce, JoinMesh, CoreTypeOK
<1>6. CoreTypeOK'
  BY <1>1, <1>2, <1>4, <1>5 DEF CoreTypeOK, Timer
<1>7. OthersKeep(c)
  BY <1>1, <1>5 DEF CoreTypeOK, OthersKeep
<1>8. /\ (streams[c] \cup mesh[c] \subseteq {session[c]})'
      /\ (slot[c] # NoOne => mesh[c] # {})'
      /\ (peer[c] \in {NoOne, slot[c]})'
  BY <1>1, <1>2, <1>5 DEF CoreTypeOK, TabOK
<1>9. (timers[c] \subseteq Timer \X {session[c]})'
  BY <1>1, <1>2, <1>5 DEF CoreTypeOK, TabOK, Timer
<1>10. k.status # "ended"
  BY <1>4
<1> QED BY <1>2, <1>3, <1>4, <1>5, <1>6, <1>7, <1>8, <1>9, <1>10, CallChange

LEMMA MeshHelloKeepsCore ==
    ASSUME Inv, NEW c \in Client, NEW d \in Client, NEW id \in CallId,
           MeshHello(c, d, id)
    PROVE  Core'
<1>1. CoreTypeOK /\ TabOK(c)
  BY InvHalves DEF Core, TabOK, Inv, SessionMatchesRedux, ResourcesFollowSession
<1>2. /\ id \in mesh[c] /\ slot[c] = NoOne
      /\ slot' = [slot EXCEPT ![c] = d]
      /\ UNCHANGED <<uiVars, timers, streams, mesh, peer, patch>>
  BY DEF MeshHello
<1>3. CoreTypeOK' /\ OthersKeep(c)
  BY <1>1, <1>2 DEF CoreTypeOK, OthersKeep, uiVars
<1>4. TabOK(c)'
  BY <1>1, <1>2 DEF CoreTypeOK, TabOK, InCall, uiVars
<1> QED BY <1>3, <1>4, OneTab

LEMMA PeerConnectedKeepsCore ==
    ASSUME Inv, NEW c \in Client, NEW d \in Client, NEW id \in CallId,
           PeerConnected(c, d, id)
    PROVE  Core'
<1> DEFINE k == [call[c] EXCEPT !.status = "active", !.started = TRUE]
<1>1. CoreTypeOK /\ TabOK(c)
  BY InvHalves DEF Core, TabOK, Inv, SessionMatchesRedux, ResourcesFollowSession
<1>2. session[c] = id /\ slot[c] = d
  BY DEF PeerConnected, IsCurrent
<1>3. session[c] # NoId /\ call[c] \in Calls /\ call[c].id = id
  BY <1>2, SessionFacts, CallAssumption
<1>4. k \in Calls /\ k.id = id /\ k.status = "active"
  BY <1>3, ActiveUpdate
<1>5. /\ call' = [call EXCEPT ![c] = k]
      /\ peer' = [peer EXCEPT ![c] = d]
      /\ timers' = [timers EXCEPT ![c] =
                       @ \ ({"connect", "reconnect"} \X {id})]
      /\ UNCHANGED <<session, ringing, dismissals, streams, mesh, slot, patch>>
  BY <1>1, <1>3 DEF PeerConnected, Reduce, CoreTypeOK
<1>6. CoreTypeOK' /\ OthersKeep(c)
  BY <1>1, <1>4, <1>5 DEF CoreTypeOK, OthersKeep
<1>7. /\ (streams[c] \cup mesh[c] \subseteq {session[c]})'
      /\ (timers[c] \subseteq Timer \X {session[c]})'
      /\ (slot[c] # NoOne => mesh[c] # {})'
      /\ (peer[c] \in {NoOne, slot[c]})'
  BY <1>1, <1>2, <1>5 DEF CoreTypeOK, TabOK
<1>8. k.status # "ended" /\ session' = session
  BY <1>4, <1>5
<1> HIDE DEF k
<1> QED BY <1>2, <1>3, <1>4, <1>5, <1>6, <1>7, <1>8, CallChange

LEMMA PeerClosedKeepsCore ==
    ASSUME Inv, NEW c \in Client, PeerClosed(c)
    PROVE  Core'
<1> DEFINE id == session[c]
           k == ToStatus(call[c], "reconnecting")
<1>1. CoreTypeOK /\ TabOK(c)
  BY InvHalves DEF Core, TabOK, Inv, SessionMatchesRedux, ResourcesFollowSession
<1>2. id # NoId
  BY SessionFacts DEF PeerClosed
<1>3. call[c] \in Calls /\ call[c].id = id /\ id \in CallId
  BY <1>2, SessionFacts
<1>4. CASE peer[c] = NoOne
  <2>1. slot' = [slot EXCEPT ![c] = NoOne]
        /\ UNCHANGED <<uiVars, peer, timers, streams, mesh, patch>>
    BY <1>4 DEF PeerClosed, uiVars
  <2>2. CoreTypeOK' /\ OthersKeep(c)
    BY <1>1, <2>1 DEF CoreTypeOK, OthersKeep, uiVars
  <2>3. TabOK(c)'
    BY <1>1, <1>4, <2>1 DEF CoreTypeOK, TabOK, InCall, uiVars
  <2> QED BY <2>2, <2>3, OneTab
<1>5. CASE peer[c] # NoOne
  <2>1. k \in Calls /\ k.id = id /\ k.status = "reconnecting"
    BY <1>3, StatusUpdate DEF Status
  <2>2. /\ slot' = [slot EXCEPT ![c] = NoOne]
        /\ peer' = [peer EXCEPT ![c] = NoOne]
        /\ call' = [call EXCEPT ![c] = k]
        /\ timers' = [timers EXCEPT ![c] = @ \cup {<<"reconnect", id>>}]
        /\ UNCHANGED <<session, ringing, dismissals, streams, mesh, patch>>
    BY <1>1, <1>3, <1>5 DEF PeerClosed, Reduce, CoreTypeOK
  <2>3. CoreTypeOK'
    BY <1>1, <1>3, <2>1, <2>2 DEF CoreTypeOK, Timer
  <2>4. OthersKeep(c)
    BY <1>1, <2>2 DEF CoreTypeOK, OthersKeep
  <2>5. /\ (streams[c] \cup mesh[c] \subseteq {session[c]})'
        /\ (slot[c] # NoOne => mesh[c] # {})'
        /\ (peer[c] \in {NoOne, slot[c]})'
    BY <1>1, <2>2 DEF CoreTypeOK, TabOK
  <2>6. (timers[c] \subseteq Timer \X {session[c]})'
    BY <1>1, <2>2 DEF CoreTypeOK, TabOK, Timer
  <2>7. k.status # "ended" /\ session' = session
    BY <2>1, <2>2
  <2> QED BY <1>2, <2>1, <2>2, <2>3, <2>4, <2>5, <2>6, <2>7, CallChange
<1> QED BY <1>4, <1>5

\* Closing the window of a call that is over.
LEMMA DismissKeepsCore ==
    ASSUME IInv, NEW c \in Client, NEW id,
           DismissCall(c) \/ AutoDismissCall(c, id)
    PROVE  Core'
<1>1. CoreTypeOK /\ TabOK(c)
  BY InvHalves
     DEF IInv, Core, TabOK, Inv, SessionMatchesRedux, ResourcesFollowSession
<1>2. /\ call' \in {call, [call EXCEPT ![c] = NoCall]}
      /\ dismissals' \in {dismissals, [dismissals EXCEPT ![c] = @ \ {id}]}
      /\ UNCHANGED <<session, ringing, timers, streams, linkVars, patch>>
  BY <1>1 DEF DismissCall, AutoDismissCall, Reduce, CoreTypeOK
<1>3. call'[c] # call[c] => session[c] = NoId
  <2>1. CASE DismissCall(c)
    BY <2>1, SessionFacts DEF IInv, DismissCall, ShowsEnded, InCall
  <2>2. CASE AutoDismissCall(c, id)
    <3>1. call[c].id # id => call'[c] = call[c]
      BY <1>1, <2>2 DEF AutoDismissCall, Reduce, CoreTypeOK
    <3>2. session[c] # id
      BY <2>2 DEF IInv, IdsUsedOnce, DismissesOld, AutoDismissCall
    <3> QED BY <3>1, <3>2, SessionFacts DEF IInv
  <2> QED BY <2>1, <2>2
<1>4. CoreTypeOK' /\ OthersKeep(c)
  BY <1>1, <1>2 DEF CoreTypeOK, OthersKeep, linkVars
<1>5. TabOK(c)'
  <2>1. call'[c] \in {call[c], NoCall}
    BY <1>1, <1>2 DEF CoreTypeOK
  <2> QED BY <1>1, <1>2, <1>3, <2>1 DEF TabOK, InCall, linkVars
<1> QED BY <1>4, <1>5, OneTab DEF IInv

LEMMA CoreStep == IInv /\ [Next]_vars => Core'
<1> SUFFICES ASSUME IInv, [Next]_vars PROVE Core'
  OBVIOUS
<1>0. Inv /\ Core
  BY InvHalves DEF IInv
<1>1. CASE UNCHANGED vars
  BY <1>0, <1>1, CoreStutters DEF vars, coreVars
<1>2. ASSUME NEW c \in Client, NEW r \in Reason, session[c] # NoId,
             Finish(c, r) \/ FinishAndDismiss(c, r)
      PROVE  Core'
  BY <1>0, <1>2, FinishesKeepCore
<1>3. ASSUME NEW c \in Client, UserStep(c) PROVE Core'
  <2>1. ASSUME NEW user \in User, NEW id \in CallId, StartCall(c, user, id)
        PROVE  Core'
    BY <1>0, <2>1, StartCallKeepsCore
  <2>2. CASE AcceptCall(c)
    BY <1>0, <2>2, AcceptCallKeepsCore
  <2>3. CASE DeclineCall(c)
    BY <1>2, <2>3 DEF DeclineCall, Reason
  <2>4. CASE HangUp(c)
    <3>1. CASE UNCHANGED coreVars
      BY <1>0, <3>1, CoreStutters
    <3>2. CASE ~UNCHANGED coreVars
      BY <1>2, <2>4, <3>2 DEF HangUp, Reason, coreVars
    <3> QED BY <3>1, <3>2
  <2>5. CASE DismissCall(c)
    BY <2>5, DismissKeepsCore
  <2>6. CASE StartInbox(c)
    BY <1>0, <2>6, CoreStutters DEF StartInbox, coreVars
  <2>7. CASE HangUpOnUnload(c) \/ Crash(c)
    BY <1>0, <2>7, GoneKeepsCore DEF HangUpOnUnload, Crash
  <2> QED BY <1>3, <2>1, <2>2, <2>3, <2>4, <2>5, <2>6, <2>7 DEF UserStep
<1>4. ASSUME NEW c \in Client, MediaStep(c) PROVE Core'
  <2> PICK id \in CallId : \/ StartMediaOk(c, id) \/ StartMediaFail(c, id)
                           \/ AcceptMediaOk(c, id) \/ AcceptMediaFail(c, id)
    BY <1>4 DEF MediaStep
  <2>1. CASE StartMediaOk(c, id)
    BY <1>0, <2>1, StartMediaOkKeepsCore
  <2>2. CASE StartMediaFail(c, id) \/ AcceptMediaFail(c, id)
    <3>1. CASE UNCHANGED coreVars
      BY <1>0, <3>1, CoreStutters
    <3>2. CASE ~UNCHANGED coreVars
      <4>1. session[c] = id /\ Finish(c, "error")
        BY <2>2, <3>2
           DEF StartMediaFail, AcceptMediaFail, IsCurrent, coreVars
      <4> QED BY <1>2, <4>1, CallAssumption DEF Reason
    <3> QED BY <3>1, <3>2
  <2>3. CASE AcceptMediaOk(c, id)
    BY <1>0, <2>3, AcceptMediaOkKeepsCore
  <2> QED BY <2>1, <2>2, <2>3
<1>5. ASSUME NEW c \in Client, TimerStep(c) PROVE Core'
  <2> PICK id \in CallId :
        \/ RingTimeout(c, id) \/ AutoDismissCall(c, id)
        \/ \E name \in {"connect", "reconnect"} : ConnectionTimeout(c, name, id)
    BY <1>5 DEF TimerStep
  <2>1. CASE RingTimeout(c, id)
    <3>1. CASE IsCurrent(c, id)
      BY <1>2, <2>1, <3>1, CallAssumption DEF RingTimeout, IsCurrent, Reason
    <3>2. CASE ~IsCurrent(c, id)
      BY <1>0, <2>1, <3>2, TimerGone DEF RingTimeout
    <3> QED BY <3>1, <3>2
  <2>2. CASE AutoDismissCall(c, id)
    BY <2>2, DismissKeepsCore
  <2>3. ASSUME NEW name \in {"connect", "reconnect"},
               ConnectionTimeout(c, name, id)
        PROVE  Core'
    <3>1. CASE IsCurrent(c, id)
      BY <1>2, <2>3, <3>1, CallAssumption
         DEF ConnectionTimeout, IsCurrent, Reason
    <3>2. CASE ~IsCurrent(c, id)
      BY <1>0, <2>3, <3>2, TimerGone DEF ConnectionTimeout
    <3> QED BY <3>1, <3>2
  <2> QED BY <2>1, <2>2, <2>3
<1>6. ASSUME NEW c \in Client, ReplyStep(c) PROVE Core'
  <2> PICK id \in CallId : \/ ProfilesReady(c, id) \/ PostCreated(c, id)
                           \/ PostFails(c, id)
    BY <1>6 DEF ReplyStep
  <2>1. CASE ProfilesReady(c, id)
    <3>1. CoreTypeOK'
      BY <1>0, <2>1 DEF ProfilesReady, Core, CoreTypeOK, linkVars
    <3>2. SessionMatchesRedux' /\ ResourcesFollowSession'
      BY <1>0, <2>1 DEF ProfilesReady, Core, SessionMatchesRedux, InCall,
                        ResourcesFollowSession, linkVars
    <3> QED BY <3>1, <3>2 DEF Core
  <2>2. CASE PostCreated(c, id)
    BY <1>0, <2>2, PostCreatedKeepsCore
  <2>3. CASE PostFails(c, id)
    BY <1>0, <2>3, CoreStutters DEF PostFails, coreVars
  <2> QED BY <2>1, <2>2, <2>3
<1>7. ASSUME NEW c \in Client, InboxStep(c) PROVE Core'
  <2> PICK m \in net : \/ ReceiveInvite(c, m) \/ ReceiveAccept(c, m)
                       \/ ReceiveEnd(c, m) \/ ReceiveIgnored(c, m)
                       \/ ReceiveData(c, m)
    BY <1>7 DEF InboxStep
  <2>0. m \in Message /\ m.id \in CallId /\ m.id # NoId
    BY <1>0, CallAssumption DEF Inv, TypeOK, Message
  <2>1. CASE ReceiveInvite(c, m)
    BY <1>0, <2>0, <2>1, ReceiveInviteKeepsCore
  <2>2. CASE ReceiveAccept(c, m)
    BY <1>0, <2>0, <2>2, ReceiveAcceptKeepsCore
  <2>3. CASE ReceiveEnd(c, m)
    <3>1. session[c] # NoId /\ EndReason[m.type] \in Reason
      BY <2>0, <2>3
         DEF ReceiveEnd, Ends, Addressed, IsCurrent, EndReason, Reason
    <3> QED BY <1>2, <2>3, <3>1 DEF ReceiveEnd
  <2>4. CASE ReceiveIgnored(c, m)
    BY <1>0, <2>4, CoreStutters DEF ReceiveIgnored, coreVars
  <2>5. CASE ReceiveData(c, m)
    <3>1. CASE UNCHANGED coreVars
      BY <1>0, <3>1, CoreStutters
    <3>2. CASE ~UNCHANGED coreVars
      BY <1>2, <2>0, <2>5, <3>2 DEF ReceiveData, IsCurrent, Reason, coreVars
    <3> QED BY <3>1, <3>2
  <2> QED BY <2>1, <2>2, <2>3, <2>4, <2>5
<1>8. ASSUME NEW c \in Client, MeshStep(c) PROVE Core'
  BY <1>0, <1>8, MeshHelloKeepsCore, PeerConnectedKeepsCore, PeerClosedKeepsCore
     DEF MeshStep
<1>9. CASE ServerStep
  <2>1. ASSUME NEW id \in CallId, PostLands(id) PROVE Core'
    BY <1>0, <2>1, CoreStutters DEF PostLands, coreVars
  <2>2. ASSUME NEW id \in CallId, PatchLands(id) \/ PatchFails(id) PROVE Core'
    <3>1. /\ patch' = [patch EXCEPT ![id] = "none"]
          /\ UNCHANGED <<uiVars, timers, streams, linkVars>>
      BY <2>2 DEF PatchLands, PatchFails
    <3>2. CoreTypeOK'
      BY <1>0, <3>1 DEF Core, CoreTypeOK, uiVars, linkVars
    <3>3. SessionMatchesRedux' /\ ResourcesFollowSession'
      BY <1>0, <3>1 DEF Core, SessionMatchesRedux, InCall,
                        ResourcesFollowSession, uiVars, linkVars
    <3> QED BY <3>2, <3>3 DEF Core
  <2>3. ASSUME NEW m \in net, Lose(m) PROVE Core'
    BY <1>0, <2>3, CoreStutters DEF Lose, coreVars
  <2> QED BY <1>9, <2>1, <2>2, <2>3 DEF ServerStep
<1> QED BY <1>1, <1>3, <1>4, <1>5, <1>6, <1>7, <1>8, <1>9 DEF Next

-----------------------------------------------------------------------------
(* The types of the other variables.                                        *)

LEMMA SendInboxNet ==
    ASSUME NEW c \in Client, NEW type \in Control, NEW id \in CallId,
           SendInbox(c, type, id)
    PROVE  \A m \in net' \ net : m \in Message /\ m.type = type /\ m.id = id
BY DEF SendInbox, Copies, Message

\* A step of a tab sends well-formed messages only.
LEMMA NetStep ==
    ASSUME IInv, NEW c \in Client,
           UserStep(c) \/ MediaStep(c) \/ TimerStep(c) \/ InboxStep(c)
    PROVE  net' \subseteq Message
<1>0. net \subseteq Message
  BY DEF IInv, Inv, TypeOK
<1>1. session[c] # NoId => session[c] \in CallId
  BY SessionFacts DEF IInv
<1> SUFFICES ASSUME net' # net PROVE net' \subseteq Message
  BY <1>0
<1>2. ASSUME NEW type \in Control, NEW id \in CallId, SendInbox(c, type, id)
      PROVE  net' \subseteq Message
  BY <1>0, <1>2, SendInboxNet
<1>3. CASE UserStep(c)
  <2>1. CASE DeclineCall(c)
    BY <1>1, <1>2, <2>1 DEF DeclineCall, Control
  <2>2. CASE HangUp(c)
    <3>1. DataHangup(c, session[c]) \subseteq Message
      BY <1>1, <2>2
         DEF HangUp, DataHangup, Message, Control, IInv, Inv, TypeOK
    <3>2. Copies(c, PeerId(c, session[c]), "hangup", session[c])
             \subseteq Message
      BY <1>1, <2>2, CopiesType DEF HangUp, Control
    <3>3. CASE SendInbox(c, "cancel", session[c])
      BY <1>1, <1>2, <2>2, <3>3 DEF HangUp, Control
    <3> QED BY <1>0, <2>2, <3>1, <3>2, <3>3 DEF HangUp
  <2>3. CASE HangUpOnUnload(c)
    <3>1. UnloadType(call[c]) \in Control
      BY DEF UnloadType, Control
    <3> QED BY <1>1, <1>2, <2>3, <3>1 DEF HangUpOnUnload
  <2>4. CASE AcceptCall(c) \/ DismissCall(c) \/ StartInbox(c) \/ Crash(c)
             \/ \E user \in User, id \in CallId : StartCall(c, user, id)
    BY <2>4 DEF AcceptCall, DismissCall, StartInbox, Crash, StartCall
  <2> QED BY <1>3, <2>1, <2>2, <2>3, <2>4 DEF UserStep
<1>4. CASE MediaStep(c)
  BY <1>2, <1>4 DEF MediaStep, StartMediaOk, StartMediaFail, AcceptMediaOk,
                    AcceptMediaFail, Control
<1>5. CASE TimerStep(c)
  BY <1>2, <1>5
     DEF TimerStep, RingTimeout, AutoDismissCall, ConnectionTimeout, Control
<1>6. CASE InboxStep(c)
  <2> PICK m \in net : \/ ReceiveInvite(c, m) \/ ReceiveAccept(c, m)
                       \/ ReceiveEnd(c, m) \/ ReceiveIgnored(c, m)
                       \/ ReceiveData(c, m)
    BY <1>6 DEF InboxStep
  <2>1. Copies(c, Owner[m.from], "busy", m.id) \subseteq Message
    BY <1>0, CopiesType DEF Message, Control
  <2> QED BY <1>0, <2>1 DEF ReceiveInvite, ReceiveAccept, ReceiveEnd,
                            ReceiveIgnored, ReceiveData
<1> QED BY <1>3, <1>4, <1>5, <1>6

LEMMA RestStep == IInv /\ [Next]_vars => RestTypeOK'
<1> SUFFICES ASSUME IInv, [Next]_vars PROVE RestTypeOK'
  OBVIOUS
<1>0. RestTypeOK
  BY InvHalves DEF IInv
<1>1. CASE UNCHANGED vars
  BY <1>0, <1>1 DEF vars, RestTypeOK, pending, callVars, cardVars
<1>2. ASSUME NEW c \in Client, UserStep(c) PROVE RestTypeOK'
  <2>1. net' \subseteq Message
    BY <1>2, NetStep
  <2>2. ASSUME NEW user \in User, NEW id \in CallId, StartCall(c, user, id)
        PROVE  RestTypeOK'
    BY <1>0, <2>2 DEF StartCall, RestTypeOK, cardVars
  <2>3. CASE AcceptCall(c)
    <3>1. session[c] \in CallId
      BY <2>3, SessionFacts DEF IInv, AcceptCall
    <3> QED BY <1>0, <2>3, <3>1 DEF AcceptCall, RestTypeOK, callVars, cardVars
  <2>4. CASE DeclineCall(c) \/ HangUp(c) \/ DismissCall(c)
    BY <1>0, <2>1, <2>4 DEF DeclineCall, HangUp, DismissCall, RestTypeOK,
                            pending, callVars, cardVars
  <2>5. CASE StartInbox(c)
    BY <1>0, <2>5 DEF StartInbox, RestTypeOK, pending, callVars, cardVars
  <2>6. CASE HangUpOnUnload(c) \/ Crash(c)
    <3>1. Gone(c)
      BY <2>6 DEF HangUpOnUnload, Crash
    <3> QED BY <1>0, <2>1, <3>1 DEF Gone, RestTypeOK, callVars
  <2> QED BY <1>2, <2>2, <2>3, <2>4, <2>5, <2>6 DEF UserStep
<1>3. ASSUME NEW c \in Client, MediaStep(c) PROVE RestTypeOK'
  <2>1. net' \subseteq Message
    BY <1>3, NetStep
  <2> PICK id \in CallId : \/ StartMediaOk(c, id) \/ StartMediaFail(c, id)
                           \/ AcceptMediaOk(c, id) \/ AcceptMediaFail(c, id)
    BY <1>3 DEF MediaStep
  <2>2. CASE StartMediaOk(c, id)
    BY <1>0, <2>1, <2>2 DEF StartMediaOk, RestTypeOK, callVars
  <2>3. CASE StartMediaFail(c, id) \/ AcceptMediaFail(c, id)
    BY <1>0, <2>1, <2>3
       DEF StartMediaFail, AcceptMediaFail, RestTypeOK, callVars, cardVars
  <2>4. CASE AcceptMediaOk(c, id)
    <3>1. joined' \in {joined, [joined EXCEPT ![id] = @ \cup {c}]}
      BY <2>4 DEF AcceptMediaOk, JoinMesh
    <3> QED BY <1>0, <2>1, <2>4, <3>1 DEF AcceptMediaOk, RestTypeOK, cardVars
  <2> QED BY <2>2, <2>3, <2>4
<1>4. ASSUME NEW c \in Client, TimerStep(c) PROVE RestTypeOK'
  <2>1. net' \subseteq Message
    BY <1>4, NetStep
  <2> QED BY <1>0, <1>4, <2>1
          DEF TimerStep, RingTimeout, AutoDismissCall, ConnectionTimeout,
              RestTypeOK, pending, callVars, cardVars
<1>5. ASSUME NEW c \in Client, ReplyStep(c) PROVE RestTypeOK'
  <2> PICK id \in CallId : \/ ProfilesReady(c, id) \/ PostCreated(c, id)
                           \/ PostFails(c, id)
    BY <1>5 DEF ReplyStep
  <2>1. CASE ProfilesReady(c, id)
    BY <1>0, <2>1 DEF ProfilesReady, RestTypeOK, callVars, cardVars
  <2>2. CASE PostCreated(c, id)
    BY <1>0, <2>2 DEF PostCreated, RestTypeOK, pending, callVars
  <2>3. CASE PostFails(c, id)
    BY <1>0, <2>3 DEF PostFails, RestTypeOK, pending, callVars
  <2> QED BY <2>1, <2>2, <2>3
<1>6. ASSUME NEW c \in Client, InboxStep(c) PROVE RestTypeOK'
  <2>1. net' \subseteq Message
    BY <1>6, NetStep
  <2> PICK m \in net : \/ ReceiveInvite(c, m) \/ ReceiveAccept(c, m)
                       \/ ReceiveEnd(c, m) \/ ReceiveIgnored(c, m)
                       \/ ReceiveData(c, m)
    BY <1>6 DEF InboxStep
  <2>2. m.id \in CallId
    BY <1>0 DEF RestTypeOK, Message
  <2>3. CASE ReceiveInvite(c, m)
    BY <1>0, <2>1, <2>2, <2>3 DEF ReceiveInvite, RestTypeOK, callVars, cardVars
  <2>4. CASE ReceiveAccept(c, m)
    BY <1>0, <2>1, <2>2, <2>4
       DEF ReceiveAccept, JoinMesh, RestTypeOK, pending, cardVars
  <2>5. CASE ReceiveEnd(c, m) \/ ReceiveIgnored(c, m) \/ ReceiveData(c, m)
    BY <1>0, <2>1, <2>5 DEF ReceiveEnd, ReceiveIgnored, ReceiveData,
                            RestTypeOK, pending, callVars, cardVars
  <2> QED BY <2>3, <2>4, <2>5
<1>7. ASSUME NEW c \in Client, MeshStep(c) PROVE RestTypeOK'
  BY <1>0, <1>7 DEF MeshStep, MeshHello, PeerConnected, PeerClosed,
                    RestTypeOK, pending, callVars, cardVars
<1>8. CASE ServerStep
  <2>1. ASSUME NEW id \in CallId,
               PostLands(id) \/ PatchLands(id) \/ PatchFails(id)
        PROVE  RestTypeOK'
    <3>1. patch[id] \in Final \cup {"none"}
      BY InvHalves DEF IInv, Core, CoreTypeOK
    <3> QED BY <1>0, <2>1, <3>1 DEF PostLands, PatchLands, PatchFails,
                                    RestTypeOK, pending, callVars, cardVars
  <2>2. ASSUME NEW m \in net, Lose(m) PROVE RestTypeOK'
    BY <1>0, <2>2 DEF Lose, RestTypeOK, pending, callVars, cardVars
  <2> QED BY <1>8, <2>1, <2>2 DEF ServerStep
<1> QED BY <1>1, <1>2, <1>3, <1>4, <1>5, <1>6, <1>7, <1>8 DEF Next

-----------------------------------------------------------------------------
(* Call ids.                                                                *)

\* A step that neither dials, nor invites, nor starts to ring.
Quiet ==
    /\ UNCHANGED <<caller, callee>>
    /\ \A m \in net' \ net : m.type # "invite" /\ caller[m.id] # NoOne
    /\ \A d \in Client :
        /\ session'[d] \in {session[d], NoId}
        /\ dismissals'[d] \subseteq dismissals[d] \cup {session[d]}
        /\ session[d] \in dismissals'[d] => session'[d] = NoId
        /\ NoId \notin dismissals'[d]
        /\ \A id \in media'[d] \ media[d] : caller[id] \notin {NoOne, d}
        /\ session'[d] # NoId => call'[d].dir = call[d].dir

LEMMA SessionDialled ==
    ASSUME IInv, NEW c \in Client, session[c] # NoId
    PROVE  session[c] \in CallId /\ caller[session[c]] # NoOne
<1>1. session[c] \in CallId
  BY SessionFacts DEF IInv
<1> QED BY <1>1 DEF IInv, IdsUsedOnce, Dialled, Unused

LEMMA QuietKeepsIds ==
    ASSUME IInv, Quiet
    PROVE  IdsUsedOnce'
<1>0. /\ session \in [Client -> CallId \cup {NoId}] /\ net \subseteq Message
      /\ Dialled /\ InvitedOnce /\ Directed /\ DismissesOld
  BY DEF IInv, Inv, TypeOK, IdsUsedOnce
<1>1. Dialled'
  <2> SUFFICES ASSUME NEW id \in CallId, caller[id] = NoOne PROVE Unused(id)'
    BY <1>0 DEF Dialled, Quiet
  <2>1. Unused(id)
    BY <1>0 DEF Dialled
  <2> QED BY <2>1, CallAssumption DEF Unused, Quiet
<1>2. \A d \in Client, id \in CallId : Seen(d, id)' => Seen(d, id)
  BY CallAssumption DEF Seen, Quiet
<1>3. InvitedOnce'
  <2>1. ASSUME NEW m \in net', m.type = "invite"
        PROVE  (/\ m.from = caller[m.id] /\ m.id \notin media[m.from]
                /\ ~Seen(m.to, m.id))'
    <3>1. m \in net /\ m \in Message
      BY <1>0, <2>1 DEF Quiet
    <3>2. m.from = caller[m.id] /\ m.id \notin media[m.from] /\ ~Seen(m.to, m.id)
      BY <1>0, <2>1, <3>1 DEF InvitedOnce
    <3>3. m.from \in Client /\ m.to \in Client /\ m.id \in CallId
      BY <3>1 DEF Message
    <3>4. ~Seen(m.to, m.id)'
      BY <1>2, <3>2, <3>3
    <3> QED BY <3>2, <3>3, <3>4 DEF Quiet
  <2>2. ASSUME NEW c \in Client, NEW id \in CallId, caller[id] = c,
               id \in media'[c], NEW d \in Client \ {c}
        PROVE  ~Seen(d, id)'
    <3>1. id \in media[c]
      BY <2>2 DEF Quiet
    <3> QED BY <1>0, <1>2, <2>2, <3>1 DEF InvitedOnce
  <2>3. caller' = caller
    BY DEF Quiet
  <2> QED BY <2>1, <2>2, <2>3 DEF InvitedOnce
<1>4. Directed'
  BY <1>0 DEF Directed, Quiet
<1>5. DismissesOld'
  BY <1>0 DEF DismissesOld, Quiet
<1> QED BY <1>1, <1>3, <1>4, <1>5 DEF IdsUsedOnce

LEMMA StartCallKeepsIds ==
    ASSUME IInv, NEW c \in Client, NEW user \in User, NEW id \in CallId,
           StartCall(c, user, id)
    PROVE  IdsUsedOnce'
<1>0. /\ session \in [Client -> CallId \cup {NoId}] /\ net \subseteq Message
      /\ media \in [Client -> SUBSET CallId] /\ Core
      /\ caller \in [CallId -> Client \cup {NoOne}]
      /\ Dialled /\ InvitedOnce /\ Directed /\ DismissesOld
  BY InvHalves DEF IInv, Inv, TypeOK, IdsUsedOnce
<1>1. Unused(id) /\ caller[id] = NoOne
  BY <1>0 DEF StartCall, Dialled
<1>2. /\ session' = [session EXCEPT ![c] = id]
      /\ call' = [call EXCEPT ![c] = NewCall(id, "outgoing")]
      /\ media' = [media EXCEPT ![c] = @ \cup {id}]
      /\ caller' = [caller EXCEPT ![id] = c]
      /\ callee' = [callee EXCEPT ![id] = user]
      /\ UNCHANGED <<net, dismissals>>
  BY DEF StartCall
<1>3. Dialled'
  <2>0. ASSUME NEW i \in CallId, caller'[i] # NoOne
        PROVE  Owner[caller'[i]] # callee'[i]
    <3>1. CASE i = id
      BY <1>0, <1>2, <3>1 DEF IInv, Inv, TypeOK, StartCall
    <3>2. CASE i # id
      BY <1>0, <1>2, <2>0, <3>2 DEF IInv, Inv, TypeOK, Dialled
    <3> QED BY <3>1, <3>2
  <2> SUFFICES ASSUME NEW i \in CallId, caller'[i] = NoOne PROVE Unused(i)'
    BY <2>0 DEF Dialled
  <2>1. i # id /\ caller[i] = NoOne
    BY <1>0, <1>2, CallAssumption
  <2> QED BY <1>0, <1>2, <2>1 DEF Dialled, Unused
<1>4. InvitedOnce'
  <2>1. ASSUME NEW m \in net', m.type = "invite"
        PROVE  (/\ m.from = caller[m.id] /\ m.id \notin media[m.from]
                /\ ~Seen(m.to, m.id))'
    <3>1. /\ m \in net /\ m.id # id /\ m.id \in CallId
          /\ m.from \in Client /\ m.to \in Client
      BY <1>0, <1>1, <1>2 DEF Unused, Message
    <3>2. m.from = caller[m.id] /\ m.id \notin media[m.from] /\ ~Seen(m.to, m.id)
      BY <1>0, <2>1, <3>1 DEF InvitedOnce
    <3> QED BY <1>0, <1>2, <3>1, <3>2 DEF Seen
  <2>2. ASSUME NEW e \in Client, NEW i \in CallId, caller'[i] = e,
               i \in media'[e], NEW d \in Client \ {e}
        PROVE  ~Seen(d, i)'
    <3>1. CASE i = id
      <4>1. d # c
        BY <1>0, <1>2, <2>2, <3>1
      <4> QED BY <1>0, <1>1, <1>2, <3>1, <4>1 DEF Unused, Seen
    <3>2. CASE i # id
      BY <1>0, <1>2, <2>2, <3>2 DEF InvitedOnce, Seen
    <3> QED BY <3>1, <3>2
  <2> QED BY <2>1, <2>2 DEF InvitedOnce
<1>5. Directed'
  <2> SUFFICES ASSUME NEW d \in Client, session'[d] # NoId
               PROVE  call'[d].dir = "outgoing" <=> caller'[session'[d]] = d
    BY DEF Directed
  <2>1. CASE d = c
    BY <1>0, <1>2, <2>1 DEF NewCall, Core, CoreTypeOK
  <2>2. CASE d # c
    <3>1. session[d] # id /\ session'[d] = session[d] /\ call'[d] = call[d]
      BY <1>0, <1>1, <1>2, <2>2 DEF Unused, Core, CoreTypeOK
    <3> QED BY <1>0, <1>2, <3>1 DEF Directed
  <2> QED BY <2>1, <2>2
<1>6. DismissesOld'
  BY <1>0, <1>1, <1>2 DEF DismissesOld, Unused
<1> QED BY <1>3, <1>4, <1>5, <1>6 DEF IdsUsedOnce

\* The parts of Quiet that concern the tabs, and the network.
QuietTabs ==
    \A d \in Client :
        /\ session'[d] \in {session[d], NoId}
        /\ dismissals'[d] \subseteq dismissals[d] \cup {session[d]}
        /\ session[d] \in dismissals'[d] => session'[d] = NoId
        /\ NoId \notin dismissals'[d]
        /\ session'[d] # NoId => call'[d].dir = call[d].dir

QuietNet == \A m \in net' \ net : m.type # "invite" /\ caller[m.id] # NoOne

LEMMA QuietParts ==
    ASSUME QuietTabs, QuietNet, UNCHANGED <<media, caller, callee>>
    PROVE  Quiet
BY DEF Quiet, QuietTabs, QuietNet

LEMMA StuttersAreQuiet ==
    ASSUME IInv, UNCHANGED <<session, call>>, dismissals' \in [Client -> SUBSET CallId],
           \A d \in Client : dismissals'[d] \subseteq dismissals[d]
    PROVE  QuietTabs
BY CallAssumption DEF IInv, IdsUsedOnce, DismissesOld, QuietTabs

\* An update of the call on screen keeps its direction.
LEMMA UpdatesAreQuiet ==
    ASSUME IInv, NEW c \in Client, UNCHANGED <<session, dismissals>>, NEW k,
           call' = [call EXCEPT ![c] = k], k.dir = call[c].dir
    PROVE  QuietTabs
<1>1. /\ call \in [Client -> Calls \cup {NoCall}]
      /\ dismissals \in [Client -> SUBSET CallId]
  BY DEF IInv, Inv, TypeOK
<1>2. \A d \in Client : call'[d].dir = call[d].dir
  BY <1>1
<1> QED BY <1>1, <1>2, CallAssumption
        DEF IInv, IdsUsedOnce, DismissesOld, QuietTabs

LEMMA FinishIsQuiet ==
    ASSUME IInv, NEW c \in Client, session[c] # NoId,
           NEW r, NEW next, FinishTo(c, r, next)
    PROVE  QuietTabs
<1>0. /\ session \in [Client -> CallId \cup {NoId}] /\ session[c] \in CallId
      /\ call \in [Client -> Calls \cup {NoCall}]
      /\ dismissals \in [Client -> SUBSET CallId] /\ DismissesOld
  BY SessionFacts DEF IInv, Inv, TypeOK, IdsUsedOnce
<1>1. /\ session' = [session EXCEPT ![c] = NoId]
      /\ call' = [call EXCEPT ![c] = next]
      /\ dismissals' \in {dismissals,
                          [dismissals EXCEPT ![c] = @ \cup {session[c]}]}
  BY DEF FinishTo
<1> SUFFICES ASSUME NEW d \in Client
             PROVE  /\ session'[d] \in {session[d], NoId}
                    /\ dismissals'[d] \subseteq dismissals[d] \cup {session[d]}
                    /\ session[d] \in dismissals'[d] => session'[d] = NoId
                    /\ NoId \notin dismissals'[d]
                    /\ session'[d] # NoId => call'[d].dir = call[d].dir
  BY DEF QuietTabs
<1>2. CASE d = c
  BY <1>0, <1>1, <1>2, CallAssumption
<1>3. CASE d # c
  BY <1>0, <1>1, <1>3, CallAssumption DEF DismissesOld
<1> QED BY <1>2, <1>3

\* A message of the session sent by a step.
LEMMA SendIsQuiet ==
    ASSUME IInv, NEW c \in Client, session[c] # NoId,
           NEW type \in Control \ {"invite"}, SendInbox(c, type, session[c])
    PROVE  QuietNet
BY SessionDialled, SendInboxNet DEF QuietNet

LEMMA StartMediaOkKeepsIds ==
    ASSUME IInv, NEW c \in Client, NEW id \in CallId, StartMediaOk(c, id)
    PROVE  IdsUsedOnce'
<1>0. /\ session \in [Client -> CallId \cup {NoId}] /\ net \subseteq Message
      /\ media \in [Client -> SUBSET CallId]
      /\ Dialled /\ InvitedOnce /\ Directed /\ DismissesOld
  BY DEF IInv, Inv, TypeOK, IdsUsedOnce
<1>1. /\ media' = [media EXCEPT ![c] = @ \ {id}]
      /\ id \in media[c] /\ caller[id] = c
      /\ UNCHANGED <<session, call, dismissals, caller, callee>>
  BY DEF StartMediaOk, uiVars, callVars
<1>2. \A m \in net' \ net : m \in Copies(c, PeerId(c, id), "invite", id)
  BY DEF StartMediaOk, SendInbox
<1>3. \A m \in net' \ net : net' # net => IsCurrent(c, id)
  BY DEF StartMediaOk
<1>4. Dialled'
  <2> SUFFICES ASSUME NEW i \in CallId, caller[i] = NoOne PROVE Unused(i)'
    BY <1>0, <1>1 DEF Dialled
  <2>1. Unused(i) /\ i # id
    BY <1>0, <1>1, CallAssumption DEF Dialled
  <2> QED BY <1>0, <1>1, <1>2, <2>1 DEF Unused, Copies
<1>5. InvitedOnce'
  <2>1. ASSUME NEW m \in net', m.type = "invite"
        PROVE  (/\ m.from = caller[m.id] /\ m.id \notin media[m.from]
                /\ ~Seen(m.to, m.id))'
    <3>1. CASE m \in net
      <4>1. m.from \in Client /\ m.to \in Client /\ m.id \in CallId
        BY <1>0, <3>1 DEF Message
      <4> QED BY <1>0, <1>1, <2>1, <3>1, <4>1 DEF InvitedOnce, Seen
    <3>2. CASE m \notin net
      <4>1. /\ m.from = c /\ m.id = id /\ m.to \in Client
            /\ Owner[m.to] = callee[id]
        BY <1>1, <1>2, <2>1, <3>2 DEF Copies, PeerId
      <4>2. m.to # c
        BY <1>0, <1>1, <4>1, CallAssumption DEF Dialled
      <4>3. ~Seen(m.to, id)
        BY <1>0, <1>1, <4>1, <4>2 DEF InvitedOnce
      <4> QED BY <1>0, <1>1, <4>1, <4>3 DEF Seen
    <3> QED BY <3>1, <3>2
  <2>2. ASSUME NEW e \in Client, NEW i \in CallId, caller'[i] = e,
               i \in media'[e], NEW d \in Client \ {e}
        PROVE  ~Seen(d, i)'
    BY <1>0, <1>1, <2>2 DEF InvitedOnce, Seen
  <2> QED BY <2>1, <2>2 DEF InvitedOnce
<1>6. Directed' /\ DismissesOld'
  BY <1>0, <1>1 DEF Directed, DismissesOld
<1> QED BY <1>4, <1>5, <1>6 DEF IdsUsedOnce

LEMMA ReceiveInviteKeepsIds ==
    ASSUME IInv, NEW c \in Client, NEW m \in net, ReceiveInvite(c, m)
    PROVE  IdsUsedOnce'
<1>0. /\ session \in [Client -> CallId \cup {NoId}] /\ net \subseteq Message
      /\ call \in [Client -> Calls \cup {NoCall}]
      /\ dismissals \in [Client -> SUBSET CallId]
      /\ Dialled /\ InvitedOnce /\ Directed /\ DismissesOld
  BY DEF IInv, Inv, TypeOK, IdsUsedOnce
<1>1. /\ m \in Message /\ m.type = "invite" /\ m.to = c /\ m.id \in CallId
      /\ m.from \in Client
      /\ m.from = caller[m.id] /\ m.id \notin media[m.from] /\ ~Seen(c, m.id)
  BY <1>0 DEF ReceiveInvite, Arrives, Message, InvitedOnce
<1>2. m.from # c
  BY DEF ReceiveInvite
<1>3. UNCHANGED <<media, caller, callee, dismissals>>
  BY DEF ReceiveInvite, callVars
<1>4. CASE InCall(c)
  <2>1. UNCHANGED <<session, call>>
    BY <1>4 DEF ReceiveInvite
  <2>2. \A x \in net' \ net : x.type = "busy" /\ x.id = m.id
    BY <1>4 DEF ReceiveInvite, Copies
  <2>3. QuietNet
    BY <1>1, <2>2, CallAssumption DEF QuietNet
  <2>4. QuietTabs
    BY <1>0, <1>3, <2>1, StuttersAreQuiet
  <2> QED BY <1>3, <2>3, <2>4, QuietParts, QuietKeepsIds
<1>5. CASE ~InCall(c)
  <2>1. /\ session' = [session EXCEPT ![c] = m.id] /\ net' = net \ {m}
        /\ call' = [call EXCEPT ![c] = NewCall(m.id, "incoming")]
    BY <1>5 DEF ReceiveInvite
  <2>2. Dialled'
    <3> SUFFICES ASSUME NEW i \in CallId, caller[i] = NoOne PROVE Unused(i)'
      BY <1>0, <1>3 DEF Dialled
    <3>1. Unused(i) /\ i # m.id
      BY <1>0, <1>1, CallAssumption DEF Dialled
    <3> QED BY <1>0, <1>3, <2>1, <3>1 DEF Unused
  <2>3. InvitedOnce'
    <3>1. ASSUME NEW x \in net', x.type = "invite"
          PROVE  (/\ x.from = caller[x.id] /\ x.id \notin media[x.from]
                  /\ ~Seen(x.to, x.id))'
      <4>1. x \in net /\ x \in Message /\ x # m
        BY <1>0, <2>1
      <4>2. x.from = caller[x.id] /\ x.id \notin media[x.from] /\ ~Seen(x.to, x.id)
        BY <1>0, <3>1, <4>1 DEF InvitedOnce
      <4>3. ~(x.to = c /\ x.id = m.id)
        BY <1>1, <3>1, <4>1, <4>2 DEF Message
      <4> QED BY <1>0, <1>3, <2>1, <4>1, <4>2, <4>3 DEF Seen, Message
    <3>2. ASSUME NEW e \in Client, NEW i \in CallId, caller'[i] = e,
                 i \in media'[e], NEW d \in Client \ {e}
          PROVE  ~Seen(d, i)'
      <4>1. i # m.id
        BY <1>1, <1>3, <3>2
      <4> QED BY <1>0, <1>3, <2>1, <3>2, <4>1 DEF InvitedOnce, Seen
    <3> QED BY <3>1, <3>2 DEF InvitedOnce
  <2>4. Directed'
    <3> SUFFICES ASSUME NEW d \in Client, session'[d] # NoId
                 PROVE  call'[d].dir = "outgoing" <=> caller[session'[d]] = d
      BY <1>3 DEF Directed
    <3>1. CASE d = c
      BY <1>0, <1>1, <1>2, <2>1, <3>1 DEF NewCall
    <3>2. CASE d # c
      BY <1>0, <2>1, <3>2 DEF Directed
    <3> QED BY <3>1, <3>2
  <2>5. DismissesOld'
    BY <1>0, <1>1, <1>3, <2>1 DEF DismissesOld, Seen
  <2> QED BY <2>2, <2>3, <2>4, <2>5 DEF IdsUsedOnce
<1> QED BY <1>4, <1>5

LEMMA FinishesAreQuiet ==
    ASSUME IInv, NEW c \in Client, session[c] # NoId, NEW r,
           Finish(c, r) \/ FinishAndDismiss(c, r)
    PROVE  QuietTabs
BY FinishIsQuiet DEF Finish, FinishAndDismiss

LEMMA GoneIsQuiet ==
    ASSUME IInv, NEW c \in Client, Gone(c)
    PROVE  /\ QuietTabs /\ UNCHANGED <<caller, callee>>
           /\ \A d \in Client : media'[d] \subseteq media[d]
<1>1. /\ session \in [Client -> CallId \cup {NoId}]
      /\ call \in [Client -> Calls \cup {NoCall}]
      /\ dismissals \in [Client -> SUBSET CallId]
      /\ media \in [Client -> SUBSET CallId] /\ DismissesOld
  BY DEF IInv, Inv, TypeOK, IdsUsedOnce
<1>2. QuietTabs
  BY <1>1, CallAssumption DEF Gone, QuietTabs, DismissesOld
<1> QED BY <1>1, <1>2 DEF Gone, callVars

LEMMA IdsStep == IInv /\ [Next]_vars => IdsUsedOnce'
<1> SUFFICES ASSUME IInv, [Next]_vars PROVE IdsUsedOnce'
  OBVIOUS
<1>0. /\ session \in [Client -> CallId \cup {NoId}] /\ net \subseteq Message
      /\ call \in [Client -> Calls \cup {NoCall}]
      /\ media \in [Client -> SUBSET CallId]
      /\ dismissals \in [Client -> SUBSET CallId]
      /\ Dialled /\ InvitedOnce /\ Directed /\ DismissesOld
  BY DEF IInv, Inv, TypeOK, IdsUsedOnce
<1>1. ASSUME UNCHANGED <<session, call, dismissals>> PROVE QuietTabs
  BY <1>0, <1>1, StuttersAreQuiet
<1>2. ASSUME net' \subseteq net PROVE QuietNet
  BY <1>2 DEF QuietNet
<1>3. ASSUME NEW c \in Client, session[c] # NoId, NEW r,
             Finish(c, r) \/ FinishAndDismiss(c, r)
      PROVE  QuietTabs
  BY <1>3, FinishesAreQuiet
<1>4. ASSUME QuietTabs, QuietNet, UNCHANGED <<caller, callee>>,
             \A d \in Client : media'[d] \subseteq media[d]
      PROVE  IdsUsedOnce'
  BY <1>4, QuietKeepsIds DEF Quiet, QuietTabs, QuietNet
<1>5. CASE UNCHANGED vars
  BY <1>1, <1>2, <1>4, <1>5 DEF vars, uiVars, pending, callVars
<1>6. ASSUME NEW c \in Client, UserStep(c) PROVE IdsUsedOnce'
  <2>1. ASSUME NEW user \in User, NEW id \in CallId, StartCall(c, user, id)
        PROVE  IdsUsedOnce'
    BY <2>1, StartCallKeepsIds
  <2>2. CASE AcceptCall(c)
    <3> DEFINE id == session[c]
    <3>1. id \in CallId /\ caller[id] \notin {NoOne, c}
      BY <1>0, <2>2, SessionDialled DEF AcceptCall, Incoming, Directed
    <3>2. QuietTabs
      <4>1. call[c] \in Calls
        BY <2>2, SessionFacts DEF AcceptCall, IInv
      <4>2. /\ call' = [call EXCEPT ![c] =
                         Reduce(call[c], id, ToStatus(call[c], "connecting"))]
            /\ UNCHANGED <<session, dismissals>>
        BY <1>0, <2>2 DEF AcceptCall
      <4>3. Reduce(call[c], id, ToStatus(call[c], "connecting")).dir
              = call[c].dir
        BY <4>1 DEF Reduce, ToStatus, Calls
      <4> QED BY <4>2, <4>3, UpdatesAreQuiet
    <3>3. \A d \in Client : \A i \in media'[d] \ media[d] :
             caller[i] \notin {NoOne, d}
      BY <1>0, <2>2, <3>1 DEF AcceptCall
    <3>4. net' = net /\ UNCHANGED <<caller, callee>>
      BY <2>2 DEF AcceptCall, callVars
    <3> QED BY <3>2, <3>3, <3>4, QuietKeepsIds DEF Quiet, QuietTabs
  <2>3. CASE DeclineCall(c)
    <3>1. QuietTabs
      BY <1>3, <2>3 DEF DeclineCall
    <3>2. QuietNet
      BY <2>3, SendIsQuiet DEF DeclineCall, Control
    <3> QED BY <1>4, <2>3, <3>1, <3>2 DEF DeclineCall, pending, callVars
  <2>4. CASE HangUp(c)
    <3>1. QuietTabs
      BY <1>1, <1>3, <2>4 DEF HangUp, uiVars
    <3>2. QuietNet
      <4>1. CASE SendInbox(c, "cancel", session[c])
        BY <2>4, <4>1, SendIsQuiet DEF HangUp, Control
      <4>2. CASE \A m \in net' \ net : m \in DataHangup(c, session[c])
                   \/ m \in Copies(c, PeerId(c, session[c]), "hangup", session[c])
        <5>1. \A m \in net' \ net :
                m.id = session[c] /\ m.type \in {"data", "hangup"}
          BY <4>2 DEF DataHangup, Copies
        <5> QED BY <2>4, <5>1, SessionDialled DEF HangUp, QuietNet
      <4> QED BY <2>4, <4>1, <4>2 DEF HangUp
    <3> QED BY <1>4, <2>4, <3>1, <3>2 DEF HangUp, pending, callVars
  <2>5. CASE DismissCall(c)
    <3>1. session[c] = NoId
      BY <2>5, SessionFacts DEF IInv, DismissCall, ShowsEnded, InCall
    <3>2. QuietTabs
      BY <1>0, <2>5, <3>1, CallAssumption
         DEF DismissCall, QuietTabs, DismissesOld
    <3> QED BY <1>2, <1>4, <2>5, <3>2 DEF DismissCall, pending, callVars
  <2>6. CASE StartInbox(c)
    BY <1>1, <1>2, <1>4, <2>6 DEF StartInbox, uiVars, pending, callVars
  <2>7. CASE Crash(c)
    BY <1>2, <1>4, <2>7, GoneIsQuiet DEF Crash
  <2>8. CASE HangUpOnUnload(c)
    <3>1. QuietNet
      <4>1. UnloadType(call[c]) \in Control \ {"invite"}
        BY DEF UnloadType, Control
      <4> QED BY <1>2, <2>8, <4>1, SendIsQuiet DEF HangUpOnUnload
    <3> QED BY <1>4, <2>8, <3>1, GoneIsQuiet DEF HangUpOnUnload
  <2> QED BY <1>6, <2>1, <2>2, <2>3, <2>4, <2>5, <2>6, <2>7, <2>8 DEF UserStep
<1>7. ASSUME NEW c \in Client, MediaStep(c) PROVE IdsUsedOnce'
  <2> PICK id \in CallId : \/ StartMediaOk(c, id) \/ StartMediaFail(c, id)
                           \/ AcceptMediaOk(c, id) \/ AcceptMediaFail(c, id)
    BY <1>7 DEF MediaStep
  <2>0. \A d \in Client : media'[d] \subseteq media[d]
    BY <1>0 DEF StartMediaOk, StartMediaFail, AcceptMediaOk, AcceptMediaFail
  <2>1. CASE StartMediaOk(c, id)
    BY <2>1, StartMediaOkKeepsIds
  <2>2. CASE StartMediaFail(c, id)
    <3>1. QuietTabs
      BY <1>1, <1>3, <2>2, CallAssumption
         DEF StartMediaFail, IsCurrent, uiVars
    <3> QED BY <1>2, <1>4, <2>0, <2>2, <3>1 DEF StartMediaFail, callVars
  <2>3. CASE AcceptMediaOk(c, id)
    <3>1. QuietNet
      BY <1>2, <2>3, SendIsQuiet, CallAssumption
         DEF AcceptMediaOk, IsCurrent, Control
    <3> QED BY <1>1, <1>4, <2>0, <2>3, <3>1 DEF AcceptMediaOk, uiVars
  <2>4. CASE AcceptMediaFail(c, id)
    <3>1. QuietTabs
      BY <1>1, <1>3, <2>4, CallAssumption
         DEF AcceptMediaFail, IsCurrent, uiVars
    <3>2. QuietNet
      <4>1. id \in media[c] /\ caller[id] # NoOne
        BY <1>0, <2>4 DEF AcceptMediaFail, Dialled, Unused
      <4>2. CASE SendInbox(c, "decline", id)
        BY <4>1, <4>2, SendInboxNet DEF QuietNet, Control
      <4> QED BY <1>2, <2>4, <4>2 DEF AcceptMediaFail
    <3> QED BY <1>4, <2>0, <2>4, <3>1, <3>2 DEF AcceptMediaFail, callVars
  <2> QED BY <2>1, <2>2, <2>3, <2>4
<1>8. ASSUME NEW c \in Client, TimerStep(c) PROVE IdsUsedOnce'
  <2> PICK id \in CallId :
        \/ RingTimeout(c, id) \/ AutoDismissCall(c, id)
        \/ \E name \in {"connect", "reconnect"} : ConnectionTimeout(c, name, id)
    BY <1>8 DEF TimerStep
  <2>1. CASE RingTimeout(c, id)
    <3>1. QuietTabs
      BY <1>1, <1>3, <2>1, CallAssumption DEF RingTimeout, IsCurrent, uiVars
    <3>2. QuietNet
      BY <1>2, <2>1, SendIsQuiet, CallAssumption
         DEF RingTimeout, IsCurrent, Control
    <3> QED BY <1>4, <2>1, <3>1, <3>2 DEF RingTimeout, pending, callVars
  <2>2. CASE AutoDismissCall(c, id)
    <3>1. session[c] # id
      BY <2>2, <1>0 DEF AutoDismissCall, DismissesOld
    <3>2. session[c] # NoId => call[c].id = session[c]
      BY SessionFacts DEF IInv
    <3>3. QuietTabs
      BY <1>0, <2>2, <3>1, <3>2, CallAssumption
         DEF AutoDismissCall, Reduce, QuietTabs, DismissesOld
    <3> QED BY <1>2, <1>4, <2>2, <3>3 DEF AutoDismissCall, pending, callVars
  <2>3. ASSUME NEW name \in {"connect", "reconnect"},
               ConnectionTimeout(c, name, id)
        PROVE  IdsUsedOnce'
    <3>1. QuietTabs
      BY <1>1, <1>3, <2>3, CallAssumption
         DEF ConnectionTimeout, IsCurrent, uiVars
    <3> QED BY <1>2, <1>4, <2>3, <3>1 DEF ConnectionTimeout, pending, callVars
  <2> QED BY <2>1, <2>2, <2>3
<1>9. ASSUME NEW c \in Client, ReplyStep(c) PROVE IdsUsedOnce'
  <2> PICK id \in CallId : \/ ProfilesReady(c, id) \/ PostCreated(c, id)
                           \/ PostFails(c, id)
    BY <1>9 DEF ReplyStep
  <2>1. CASE ProfilesReady(c, id) \/ PostFails(c, id)
    BY <1>1, <1>2, <1>4, <2>1
       DEF ProfilesReady, PostFails, uiVars, pending, callVars
  <2>2. CASE PostCreated(c, id)
    <3> DEFINE k == Reduce(call[c], id, [call[c] EXCEPT !.post = TRUE])
    <3>1. k.dir = call[c].dir
      BY <1>0 DEF Reduce, Calls, NoCall
    <3>2. call' \in {call, [call EXCEPT ![c] = k]}
          /\ UNCHANGED <<session, dismissals>>
      BY <2>2 DEF PostCreated
    <3> HIDE DEF k
    <3>3. QuietTabs
      BY <1>1, <3>1, <3>2, UpdatesAreQuiet
    <3> QED BY <1>2, <1>4, <2>2, <3>3 DEF PostCreated, pending, callVars
  <2> QED BY <2>1, <2>2
<1>10. ASSUME NEW c \in Client, InboxStep(c) PROVE IdsUsedOnce'
  <2> PICK m \in net : \/ ReceiveInvite(c, m) \/ ReceiveAccept(c, m)
                       \/ ReceiveEnd(c, m) \/ ReceiveIgnored(c, m)
                       \/ ReceiveData(c, m)
    BY <1>10 DEF InboxStep
  <2>0. m.id \in CallId /\ m.id # NoId
    BY <1>0, CallAssumption DEF Message
  <2>1. CASE ReceiveInvite(c, m)
    BY <2>1, ReceiveInviteKeepsIds
  <2>2. CASE ReceiveAccept(c, m)
    <3>1. call[c] \in Calls
      BY <1>0, <2>2 DEF ReceiveAccept, Accepts, Addressed
    <3> DEFINE k == Reduce(call[c], m.id, ToStatus(call[c], "connecting"))
    <3>2. k.dir = call[c].dir
      BY <3>1 DEF Reduce, ToStatus, Calls
    <3>3. call' = [call EXCEPT ![c] = k] /\ UNCHANGED <<session, dismissals>>
      BY <2>2 DEF ReceiveAccept
    <3> HIDE DEF k
    <3>4. QuietTabs
      BY <3>2, <3>3, UpdatesAreQuiet
    <3> QED BY <1>2, <1>4, <2>2, <3>4 DEF ReceiveAccept, pending
  <2>3. CASE ReceiveEnd(c, m)
    <3>1. QuietTabs
      BY <1>3, <2>0, <2>3 DEF ReceiveEnd, Ends, Addressed, IsCurrent
    <3> QED BY <1>2, <1>4, <2>3, <3>1 DEF ReceiveEnd, pending, callVars
  <2>4. CASE ReceiveIgnored(c, m)
    BY <1>1, <1>2, <1>4, <2>4 DEF ReceiveIgnored, uiVars, pending, callVars
  <2>5. CASE ReceiveData(c, m)
    <3>1. QuietTabs
      BY <1>1, <1>3, <2>0, <2>5 DEF ReceiveData, IsCurrent, uiVars
    <3> QED BY <1>2, <1>4, <2>5, <3>1 DEF ReceiveData, pending, callVars
  <2> QED BY <2>1, <2>2, <2>3, <2>4, <2>5
<1>11. ASSUME NEW c \in Client, MeshStep(c) PROVE IdsUsedOnce'
  <2>1. ASSUME NEW d \in Client, NEW id \in CallId, MeshHello(c, d, id)
        PROVE  IdsUsedOnce'
    BY <1>1, <1>2, <1>4, <2>1 DEF MeshHello, uiVars, pending, callVars
  <2>2. ASSUME NEW d \in Client, NEW id \in CallId, PeerConnected(c, d, id)
        PROVE  IdsUsedOnce'
    <3>1. call[c] \in Calls
      BY <2>2, SessionFacts, CallAssumption DEF PeerConnected, IsCurrent, IInv
    <3> DEFINE k == Reduce(call[c], id,
                   [call[c] EXCEPT !.status = "active", !.started = TRUE])
    <3>2. k.dir = call[c].dir
      BY <3>1 DEF Reduce, Calls
    <3>3. call' = [call EXCEPT ![c] = k] /\ UNCHANGED <<session, dismissals>>
      BY <2>2 DEF PeerConnected
    <3> HIDE DEF k
    <3>4. QuietTabs
      BY <3>2, <3>3, UpdatesAreQuiet
    <3> QED BY <1>2, <1>4, <2>2, <3>4 DEF PeerConnected, pending, callVars
  <2>3. CASE PeerClosed(c)
    <3> DEFINE k == Reduce(call[c], session[c],
                           ToStatus(call[c], "reconnecting"))
    <3>1. k.dir = call[c].dir
      BY <1>0 DEF Reduce, ToStatus, Calls, NoCall
    <3>2. call' \in {call, [call EXCEPT ![c] = k]}
          /\ UNCHANGED <<session, dismissals>>
      BY <2>3 DEF PeerClosed
    <3> HIDE DEF k
    <3>3. QuietTabs
      BY <1>1, <3>1, <3>2, UpdatesAreQuiet
    <3> QED BY <1>2, <1>4, <2>3, <3>3 DEF PeerClosed, pending, callVars
  <2> QED BY <1>11, <2>1, <2>2, <2>3 DEF MeshStep
<1>12. CASE ServerStep
  BY <1>1, <1>2, <1>4, <1>12
     DEF ServerStep, PostLands, PatchLands, PatchFails, Lose, uiVars, pending,
         callVars
<1> QED BY <1>5, <1>6, <1>7, <1>8, <1>9, <1>10, <1>11, <1>12 DEF Next

-----------------------------------------------------------------------------
(* The theorems.                                                            *)

LEMMA IInvInit == Init => IInv
<1> SUFFICES ASSUME Init PROVE IInv
  OBVIOUS
<1>1. TypeOK
  BY DEF Init, TypeOK, Final
<1>2. SessionMatchesRedux /\ ResourcesFollowSession
  BY DEF Init, SessionMatchesRedux, ResourcesFollowSession, InCall
<1>3. IdsUsedOnce
  BY CallAssumption DEF Init, IdsUsedOnce, Dialled, Unused, InvitedOnce,
                        Directed, DismissesOld
<1> QED BY <1>1, <1>2, <1>3 DEF IInv, Inv

LEMMA IInvStep == IInv /\ [Next]_vars => IInv'
<1> SUFFICES ASSUME IInv, [Next]_vars PROVE IInv'
  OBVIOUS
<1>1. Core' /\ RestTypeOK' /\ IdsUsedOnce'
  BY CoreStep, RestStep, IdsStep
<1>2. Inv'
  BY <1>1 DEF Inv, Core, TypeOK, CoreTypeOK, RestTypeOK
<1> QED BY <1>1, <1>2 DEF IInv

LEMMA Invariance == Spec => []IInv
BY IInvInit, IInvStep, PTL DEF Spec

\* Every variable keeps its type, whatever tab, message, timer or callback of
\* controller.js comes next.
THEOREM TypeCorrect == Spec => []TypeOK
<1>1. IInv => TypeOK
  BY DEF IInv, Inv
<1> QED BY <1>1, Invariance, PTL

\* The controller's session and the Redux call name the same live call, in
\* every tab and at every moment.
THEOREM SessionIsRedux == Spec => []SessionMatchesRedux
<1>1. IInv => SessionMatchesRedux
  BY DEF IInv, Inv
<1> QED BY <1>1, Invariance, PTL

\* No camera, microphone, mesh, peer or timer outlives the session it was made
\* for (teardown and the isCurrent checks after every await are enough).
THEOREM NothingOutlivesSession == Spec => []ResourcesFollowSession
<1>1. IInv => ResourcesFollowSession
  BY DEF IInv, Inv
<1> QED BY <1>1, Invariance, PTL

\* An invite rings a tab at most once and a call id never comes back, so the
\* auto-dismiss of an old call cannot close a new one.
THEOREM IdsNeverReturn == Spec => []IdsUsedOnce
<1>1. IInv => IdsUsedOnce
  BY DEF IInv
<1> QED BY <1>1, Invariance, PTL
===============================================================================
