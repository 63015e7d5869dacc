--------------------------------- MODULE Call ---------------------------------
(***************************************************************************)
(* The 1:1 call lifecycle of webapp/src/call/controller.js, run by several  *)
(* browser tabs over the private inbox topics and the per-call media mesh.  *)
(*                                                                          *)
(* A tab is a member of Client and belongs to the user Owner[c]; a user may *)
(* have several tabs open.  Each tab has the controller's module variables  *)
(* (session, its timers, tracks and mesh), the Redux slice `call`, and the  *)
(* callbacks it still waits for.  An action is one run of the JavaScript    *)
(* event loop: a UI handler, a timer, an inbox message, a mesh event or the *)
(* continuation of an awaited promise.  Between two actions of a tab any    *)
(* other event may come first.  Time is not measured: a timer that is set   *)
(* may fire at any moment.                                                  *)
(***************************************************************************)

CONSTANTS
    Client,       \* browser tabs running the plugin
    User,         \* Mattermost users
    Owner,        \* the user signed in on each tab
    CallId,       \* the call ids randomId() may return
    Broadcaster,  \* tabs whose inbox hub has the `broadcast` method that
                  \* sendInbox calls; without it sendInbox throws a TypeError
    Faults,       \* environment faults that may occur, a subset of Fault
    Mortal,       \* tabs that may be closed or may crash
    NoId, NoOne   \* "null" for call ids, and for tabs and users

Fault == {"loss", "api"}

ASSUME CallAssumption ==
    /\ Owner \in [Client -> User]
    /\ Broadcaster \subseteq Client
    /\ Faults \subseteq Fault
    /\ Mortal \subseteq Client
    /\ NoId \notin CallId
    /\ NoOne \notin Client \cup User

VARIABLES
    \* One tab: the controller, the Redux slice and its pending callbacks.
    on,          \* the inbox stream is open (startInbox)
    session,     \* call id of `session`, NoId when null
    call,        \* the Redux call, NoCall when null
    timers,      \* <<name, call id>> of the session timers that are set
    streams,     \* call ids whose captured camera/microphone is live
    mesh,        \* call ids whose Mesh is open
    slot,        \* the one entry of mesh.peers (maxPeers is 1)
    peer,        \* s.peer, the connected peer
    ringing,     \* the ringtone is playing
    media,       \* call ids whose getCallMedia is pending
    profiles,    \* call ids whose ensureProfiles is pending
    dismissals,  \* call ids whose auto-dismiss timeout is pending
    posting,     \* call ids whose createInvitePost is pending
    \* Calls and the network between tabs.
    caller, callee, \* the tab that dialled an id and the user it called
    joined,      \* tabs that announced themselves on "call/<id>"
    net,         \* message copies under way
    \* The call card (a post) on the server.
    creating,    \* create requests that have not reached the server
    post,        \* stored status of the card
    patch        \* status patch under way

callVars == <<caller, callee, joined>>
cardVars == <<posting, creating, post>>
linkVars == <<mesh, slot, peer>>
uiVars   == <<session, call, ringing, dismissals>>
pending  == <<media, profiles>>
vars == <<on, uiVars, timers, streams, linkVars, pending, callVars, net,
          cardVars, patch>>

Timer   == {"ring", "connect", "reconnect"}
Status  == {"ringing", "connecting", "active", "reconnecting", "ended"}
Reason  == {"declined", "no_answer", "busy", "cancelled", "hangup",
            "connection_lost", "error"}
Final   == {"missed", "declined", "ended"}
Control == {"invite", "accept", "decline", "busy", "cancel", "hangup", "data"}
Message == [type: Control, id: CallId, from: Client, to: Client]

NoCall == [id |-> NoId, dir |-> "none", status |-> "none", reason |-> "none",
           started |-> FALSE, post |-> FALSE]
Calls  == [id: CallId, dir: {"outgoing", "incoming"}, status: Status,
           reason: Reason \cup {"none"}, started: BOOLEAN, post: BOOLEAN]

Init ==
    /\ on = [c \in Client |-> FALSE]
    /\ session = [c \in Client |-> NoId]
    /\ call = [c \in Client |-> NoCall]
    /\ timers = [c \in Client |-> {}]
    /\ streams = [c \in Client |-> {}]
    /\ mesh = [c \in Client |-> {}]
    /\ slot = [c \in Client |-> NoOne]
    /\ peer = [c \in Client |-> NoOne]
    /\ ringing = [c \in Client |-> FALSE]
    /\ media = [c \in Client |-> {}]
    /\ profiles = [c \in Client |-> {}]
    /\ dismissals = [c \in Client |-> {}]
    /\ posting = [c \in Client |-> {}]
    /\ caller = [i \in CallId |-> NoOne]
    /\ callee = [i \in CallId |-> NoOne]
    /\ joined = [i \in CallId |-> {}]
    /\ net = {}
    /\ creating = {}
    /\ post = [i \in CallId |-> "none"]
    /\ patch = [i \in CallId |-> "none"]

-----------------------------------------------------------------------------
(* The Redux slice (reducers/index.js) and its selectors.                   *)

\* CALL_STARTED.
NewCall(id, dir) ==
    [id |-> id, dir |-> dir, status |-> "ringing", reason |-> "none",
     started |-> FALSE, post |-> FALSE]

\* CALL_UPDATED, CALL_ENDED and CALL_DISMISSED apply to the named call only.
Reduce(k, id, next) == IF k.id = id THEN next ELSE k

ToStatus(k, status) == [k EXCEPT !.status = status]
\* Mutant: CALL_ENDED without the status.
ToEndedKeepsStatus(k, reason) == [k EXCEPT !.reason = reason]
ToEnded(k, reason) == [k EXCEPT !.status = "ended", !.reason = reason]

\* isInCall; the mutant does not count a call that rings.
InCallUnlessRinging(c) ==
    call[c] # NoCall /\ call[c].status \notin {"ringing", "ended"}
InCall(c) == call[c] # NoCall /\ call[c].status # "ended"
Incoming(c) == call[c].dir = "incoming" /\ call[c].status = "ringing"

\* The call window shows the card of an incoming call, with Decline and Accept,
\* the bar of a live call, with the hang-up control, or the ended screen, with
\* Close.
ShowsCard(c) == call[c] # NoCall /\ Incoming(c)
ShowsBar(c) == InCall(c) /\ ~ShowsCard(c)
ShowsEnded(c) == call[c] # NoCall /\ call[c].status = "ended"

\* isCurrent(s), for the session of call id; the mutant forgets s.ended.
IsCurrentOrEnded(c, id) == session[c] \in {id, NoId}
IsCurrent(c, id) == session[c] = id

\* s.peerId: the callee for the tab that dialled, else the caller's user.
PeerId(c, id) == IF caller[id] = c THEN callee[id] ELSE Owner[caller[id]]

(* Sending to a user's inbox reaches every tab of that user.                *)
Copies(c, user, type, id) ==
    [type: {type}, id: {id}, from: {c}, to: {d \in Client : Owner[d] = user}]

CanSend(c) == c \in Broadcaster
SendInbox(c, type, id) ==
    net' = net \cup Copies(c, PeerId(c, id), type, id)

-----------------------------------------------------------------------------
(* Ending a session.                                                        *)

\* Mutant: the mesh stays open.
TeardownKeepsMesh(c, id) ==
    /\ timers' = [timers EXCEPT ![c] = @ \ (Timer \X {id})]
    /\ peer' = [peer EXCEPT ![c] = NoOne]
    /\ streams' = [streams EXCEPT ![c] = @ \ {id}]
    /\ UNCHANGED <<mesh, slot>>

Teardown(c, id) ==
    /\ timers' = [timers EXCEPT ![c] = @ \ (Timer \X {id})]
    /\ mesh' = [mesh EXCEPT ![c] = @ \ {id}]
    /\ slot' = [slot EXCEPT ![c] = NoOne]
    /\ peer' = [peer EXCEPT ![c] = NoOne]
    /\ streams' = [streams EXCEPT ![c] = @ \ {id}]

AutoDismiss == {"hangup", "cancelled"}

\* Mutant: a hang-up always counts as a call that took place.
PostStatusOfHangup(k, reason) ==
    CASE k.started \/ reason = "hangup" -> "ended"
      [] reason = "declined" -> "declined"
      [] OTHER -> "missed"

\* The outcome stored on the card.  The explicit postStatus of "busy",
\* "no_answer" and "cancelled" is what the table maps these reasons to.
PostStatus(k, reason) ==
    CASE k.started -> "ended"
      [] ~k.started /\ reason = "declined" -> "declined"
      [] OTHER -> "missed"

\* finish() of the current session; the Redux call becomes `next`.
FinishTo(c, reason, next) ==
    LET id == session[c] IN
    /\ ringing' = [ringing EXCEPT ![c] = FALSE]
    /\ Teardown(c, id)
    /\ session' = [session EXCEPT ![c] = NoId]
    /\ patch' = IF call[c].dir = "outgoing" /\ call[c].post
                THEN [patch EXCEPT ![id] = PostStatus(call[c], reason)]
                ELSE patch
    /\ call' = [call EXCEPT ![c] = next]
    /\ dismissals' = IF reason \in AutoDismiss
                     THEN [dismissals EXCEPT ![c] = @ \cup {id}]
                     ELSE dismissals

Finish(c, reason) ==
    FinishTo(c, reason, Reduce(call[c], session[c], ToEnded(call[c], reason)))

\* finish() followed by dismissCall(s.callId), as hangUp and declineCall do.
FinishAndDismiss(c, reason) ==
    FinishTo(c, reason, Reduce(call[c], session[c], NoCall))

-----------------------------------------------------------------------------
(* The page.                                                                *)

StartInbox(c) ==
    /\ ~on[c]
    /\ on' = [on EXCEPT ![c] = TRUE]
    /\ UNCHANGED <<uiVars, timers, streams, linkVars, pending, callVars, net,
                   cardVars, patch>>

\* The tab is gone: its memory is lost, its tracks and connections stop.
Gone(c) ==
    /\ on' = [on EXCEPT ![c] = FALSE]
    /\ session' = [session EXCEPT ![c] = NoId]
    /\ call' = [call EXCEPT ![c] = NoCall]
    /\ timers' = [timers EXCEPT ![c] = {}]
    /\ streams' = [streams EXCEPT ![c] = {}]
    /\ mesh' = [mesh EXCEPT ![c] = {}]
    /\ slot' = [slot EXCEPT ![c] = NoOne]
    /\ peer' = [peer EXCEPT ![c] = NoOne]
    /\ ringing' = [ringing EXCEPT ![c] = FALSE]
    /\ media' = [media EXCEPT ![c] = {}]
    /\ profiles' = [profiles EXCEPT ![c] = {}]
    /\ dismissals' = [dismissals EXCEPT ![c] = {}]
    /\ posting' = [posting EXCEPT ![c] = {}]
    /\ UNCHANGED <<callVars, creating, post, patch>>

\* hangUpOnUnload publishes by itself, not through the inbox hub.
UnloadType(k) ==
    CASE k.status = "ringing" /\ k.dir = "outgoing" -> "cancel"
      [] k.status = "ringing" /\ k.dir = "incoming" -> "decline"
      [] OTHER -> "hangup"

HangUpOnUnload(c) ==
    /\ c \in Mortal /\ on[c]
    /\ IF session[c] = NoId THEN UNCHANGED net
       ELSE SendInbox(c, UnloadType(call[c]), session[c])
    /\ Gone(c)

Crash(c) ==
    /\ c \in Mortal /\ on[c]
    /\ Gone(c)
    /\ UNCHANGED net

-----------------------------------------------------------------------------
(* Outgoing calls.                                                          *)

StartCall(c, user, id) ==
    /\ on[c] /\ Owner[c] # user
    /\ caller[id] = NoOne          \* randomId() never repeats an id
    /\ ~InCall(c)
    /\ session' = [session EXCEPT ![c] = id]
    /\ call' = [call EXCEPT ![c] = NewCall(id, "outgoing")]
    /\ media' = [media EXCEPT ![c] = @ \cup {id}]
    /\ caller' = [caller EXCEPT ![id] = c]
    /\ callee' = [callee EXCEPT ![id] = user]
    /\ UNCHANGED <<on, timers, streams, linkVars, ringing, profiles,
                   dismissals, joined, net, cardVars, patch>>

\* getCallMedia resolved.  When sendInbox throws, the ring timer and the
\* card are never reached.
StartMediaOk(c, id) ==
    /\ id \in media[c] /\ caller[id] = c
    /\ media' = [media EXCEPT ![c] = @ \ {id}]
    /\ \/ /\ ~IsCurrent(c, id)
          /\ UNCHANGED <<streams, timers, net, posting, creating>>
       \/ /\ IsCurrent(c, id)
          /\ streams' = [streams EXCEPT ![c] = @ \cup {id}]
          /\ IF CanSend(c)
             THEN /\ SendInbox(c, "invite", id)
                  /\ timers' = [timers EXCEPT ![c] = @ \cup {<<"ring", id>>}]
                  /\ posting' = [posting EXCEPT ![c] = @ \cup {id}]
                  /\ creating' = creating \cup {id}
             ELSE UNCHANGED <<net, timers, posting, creating>>
    /\ UNCHANGED <<on, uiVars, linkVars, profiles, callVars, post, patch>>

StartMediaFail(c, id) ==
    /\ id \in media[c] /\ caller[id] = c
    /\ media' = [media EXCEPT ![c] = @ \ {id}]
    /\ IF IsCurrent(c, id) THEN Finish(c, "error")
       ELSE UNCHANGED <<uiVars, timers, streams, linkVars, patch>>
    /\ UNCHANGED <<on, profiles, callVars, net, cardVars>>

\* Mutant: the caller rings again instead of giving up.
RingTimeoutRetries(c, id) ==
    /\ <<"ring", id>> \in timers[c] /\ IsCurrent(c, id) /\ caller[id] = c
    /\ SendInbox(c, "invite", id)
    /\ UNCHANGED <<on, uiVars, timers, streams, linkVars, pending, callVars,
                   cardVars, patch>>

\* The ring timer of either side.
RingTimeout(c, id) ==
    /\ <<"ring", id>> \in timers[c]
    /\ IF IsCurrent(c, id)
       THEN IF caller[id] = c
            THEN /\ CanSend(c)
                 /\ SendInbox(c, "cancel", id)
                 /\ Finish(c, "no_answer")
            ELSE Finish(c, "cancelled") /\ UNCHANGED net
       ELSE /\ timers' = [timers EXCEPT ![c] = @ \ {<<"ring", id>>}]
            /\ UNCHANGED <<uiVars, streams, linkVars, net, patch>>
    /\ UNCHANGED <<on, pending, callVars, cardVars>>

-----------------------------------------------------------------------------
(* The call card.                                                           *)

\* The create request reaches the server.
PostLands(id) ==
    /\ id \in creating
    /\ creating' = creating \ {id}
    /\ post' = [post EXCEPT ![id] = "ringing"]
    /\ UNCHANGED <<on, uiVars, timers, streams, linkVars, pending, callVars,
                   net, posting, patch>>

\* Mutants: the outcome is recorded at once although the call goes on; the
\* outcome of a call that is over is forgotten.
PostCreatedRecords(c, id) ==
    /\ id \in posting[c] /\ post[id] # "none"
    /\ posting' = [posting EXCEPT ![c] = @ \ {id}]
    /\ call' = [call EXCEPT ![c] = Reduce(@, id, [@ EXCEPT !.post = TRUE])]
    /\ patch' = [patch EXCEPT ![id] = "missed"]
    /\ UNCHANGED <<on, session, ringing, dismissals, timers, streams, linkVars,
                   pending, callVars, net, creating, post>>
PostCreatedForgets(c, id) ==
    /\ id \in posting[c] /\ post[id] # "none"
    /\ posting' = [posting EXCEPT ![c] = @ \ {id}]
    /\ call' = [call EXCEPT ![c] = Reduce(@, id, [@ EXCEPT !.post = TRUE])]
    /\ UNCHANGED <<on, session, ringing, dismissals, timers, streams, linkVars,
                   pending, callVars, net, creating, post, patch>>

\* createInvitePost resolved: remember the post, or record the outcome of a
\* call that is already over.
PostCreated(c, id) ==
    /\ id \in posting[c] /\ post[id] # "none"
    /\ posting' = [posting EXCEPT ![c] = @ \ {id}]
    /\ IF IsCurrent(c, id)
       THEN /\ call' = [call EXCEPT ![c] =
                          Reduce(@, id, [@ EXCEPT !.post = TRUE])]
            /\ UNCHANGED patch
       ELSE /\ patch' = [patch EXCEPT ![id] =
                 IF call[c].id = id /\ call[c].reason = "declined"
                 THEN "declined" ELSE "missed"]
            /\ UNCHANGED call
    /\ UNCHANGED <<on, session, ringing, dismissals, timers, streams, linkVars,
                   pending, callVars, net, creating, post>>

\* Creating the channel or the post failed, before or after it was stored.
PostFails(c, id) ==
    /\ "api" \in Faults /\ id \in posting[c]
    /\ posting' = [posting EXCEPT ![c] = @ \ {id}]
    /\ creating' \in {creating, creating \ {id}}
    /\ UNCHANGED <<on, uiVars, timers, streams, linkVars, pending, callVars,
                   net, post, patch>>

PatchLands(id) ==
    /\ patch[id] # "none"
    /\ post' = [post EXCEPT ![id] = patch[id]]
    /\ patch' = [patch EXCEPT ![id] = "none"]
    /\ UNCHANGED <<on, uiVars, timers, streams, linkVars, pending, callVars,
                   net, posting, creating>>

PatchFails(id) ==
    /\ "api" \in Faults /\ patch[id] # "none"
    /\ patch' = [patch EXCEPT ![id] = "none"]
    /\ UNCHANGED <<on, uiVars, timers, streams, linkVars, pending, callVars,
                   net, cardVars>>

-----------------------------------------------------------------------------
(* Incoming calls.                                                          *)

Arrives(c, m) == m \in net /\ m.to = c /\ on[c]

\* receiveInvite: answer "busy", or ring.  A tab whose sendInbox throws stays
\* silent; a repeated invite for the call in progress is ignored.
ReceiveInvite(c, m) ==
    /\ Arrives(c, m) /\ m.type = "invite" /\ Owner[m.from] # Owner[c]
    /\ \/ /\ InCall(c)
          /\ net' = (net \ {m}) \cup
                       IF call[c].id # m.id /\ CanSend(c)
                       THEN Copies(c, Owner[m.from], "busy", m.id) ELSE {}
          /\ UNCHANGED <<session, call, timers, profiles>>
       \/ /\ ~InCall(c)
          /\ net' = net \ {m}
          /\ session' = [session EXCEPT ![c] = m.id]
          /\ call' = [call EXCEPT ![c] = NewCall(m.id, "incoming")]
          /\ profiles' = [profiles EXCEPT ![c] = @ \cup {m.id}]
          /\ timers' = [timers EXCEPT ![c] = @ \cup {<<"ring", m.id>>}]
    /\ UNCHANGED <<on, ringing, dismissals, streams, linkVars, media, callVars,
                   cardVars, patch>>

\* The profile needed for the notification is there: start the ringtone if
\* the session is still the current one, whatever its status is by now.
ProfilesReady(c, id) ==
    /\ id \in profiles[c]
    /\ profiles' = [profiles EXCEPT ![c] = @ \ {id}]
    /\ ringing' = IF IsCurrent(c, id) THEN [ringing EXCEPT ![c] = TRUE]
                  ELSE ringing
    /\ UNCHANGED <<on, session, call, dismissals, timers, streams, linkVars,
                   media, callVars, net, cardVars, patch>>

\* Mutant: the caller is told before the microphone is there.
AcceptCallAtOnce(c) ==
    LET id == session[c] IN
    /\ id # NoId /\ Incoming(c)
    /\ ringing' = [ringing EXCEPT ![c] = FALSE]
    /\ timers' = [timers EXCEPT ![c] = @ \ {<<"ring", id>>}]
    /\ call' = [call EXCEPT ![c] = Reduce(@, id, ToStatus(@, "connecting"))]
    /\ media' = [media EXCEPT ![c] = @ \cup {id}]
    /\ SendInbox(c, "accept", id)
    /\ UNCHANGED <<on, session, dismissals, streams, linkVars, profiles,
                   callVars, cardVars, patch>>

AcceptCall(c) ==
    LET id == session[c] IN
    /\ id # NoId /\ Incoming(c)
    /\ ringing' = [ringing EXCEPT ![c] = FALSE]
    /\ timers' = [timers EXCEPT ![c] = @ \ {<<"ring", id>>}]
    /\ call' = [call EXCEPT ![c] = Reduce(@, id, ToStatus(@, "connecting"))]
    /\ media' = [media EXCEPT ![c] = @ \cup {id}]
    /\ UNCHANGED <<on, session, dismissals, streams, linkVars, profiles,
                   callVars, net, cardVars, patch>>

\* Mutants: no connect timer; the ring timer of the caller is not cleared.
JoinMeshUntimed(c, id) ==
    /\ mesh' = [mesh EXCEPT ![c] = @ \cup {id}]
    /\ timers' = [timers EXCEPT ![c] = @ \ {<<"ring", id>>}]
    /\ joined' = [joined EXCEPT ![id] = @ \cup {c}]
JoinMeshStillRinging(c, id) ==
    /\ mesh' = [mesh EXCEPT ![c] = @ \cup {id}]
    /\ timers' = [timers EXCEPT ![c] = @ \cup {<<"connect", id>>}]
    /\ joined' = [joined EXCEPT ![id] = @ \cup {c}]

\* joinMesh: open the mesh on "call/<id>" and arm the connect timer.
JoinMesh(c, id) ==
    /\ mesh' = [mesh EXCEPT ![c] = @ \cup {id}]
    /\ timers' = [timers EXCEPT ![c] =
                    (@ \ {<<"ring", id>>}) \cup {<<"connect", id>>}]
    /\ joined' = [joined EXCEPT ![id] = @ \cup {c}]

AcceptMediaOk(c, id) ==
    /\ id \in media[c] /\ caller[id] # c
    /\ media' = [media EXCEPT ![c] = @ \ {id}]
    /\ \/ /\ ~IsCurrent(c, id)
          /\ UNCHANGED <<streams, mesh, timers, joined, net>>
       \/ /\ IsCurrent(c, id)
          /\ streams' = [streams EXCEPT ![c] = @ \cup {id}]
          /\ IF CanSend(c) THEN SendInbox(c, "accept", id) /\ JoinMesh(c, id)
             ELSE UNCHANGED <<mesh, timers, joined, net>>
    /\ UNCHANGED <<on, uiVars, slot, peer, profiles, caller, callee, cardVars,
                   patch>>

\* The decline is sent even when the session is over; if sending throws,
\* the call stays in "connecting".
AcceptMediaFail(c, id) ==
    /\ id \in media[c] /\ caller[id] # c
    /\ media' = [media EXCEPT ![c] = @ \ {id}]
    /\ IF CanSend(c) THEN SendInbox(c, "decline", id) ELSE UNCHANGED net
    /\ IF CanSend(c) /\ IsCurrent(c, id) THEN Finish(c, "error")
       ELSE UNCHANGED <<uiVars, timers, streams, linkVars, patch>>
    /\ UNCHANGED <<on, profiles, callVars, cardVars>>

\* The Decline button of the incoming card.
DeclineCall(c) ==
    /\ session[c] # NoId /\ ShowsCard(c) /\ CanSend(c)
    /\ SendInbox(c, "decline", session[c])
    /\ FinishAndDismiss(c, "declined")
    /\ UNCHANGED <<on, pending, callVars, cardVars>>

-----------------------------------------------------------------------------
(* handleInboxMessage, for the call in progress and its other participant.  *)

Addressed(c, m) ==
    /\ IsCurrent(c, m.id) /\ call[c] # NoCall
    /\ PeerId(c, m.id) = Owner[m.from]

Accepts(c, m) ==
    /\ Addressed(c, m) /\ m.type = "accept"
    /\ call[c].dir = "outgoing" /\ call[c].status = "ringing"

ReceiveAccept(c, m) ==
    /\ Arrives(c, m) /\ Accepts(c, m)
    /\ net' = net \ {m}
    /\ call' = [call EXCEPT ![c] = Reduce(@, m.id, ToStatus(@, "connecting"))]
    /\ JoinMesh(c, m.id)
    /\ UNCHANGED <<on, session, ringing, dismissals, streams, slot, peer,
                   pending, caller, callee, cardVars, patch>>

Ends(c, m) ==
    /\ Addressed(c, m)
    /\ \/ m.type \in {"decline", "busy"} /\ call[c].dir = "outgoing"
       \/ m.type = "cancel" /\ Incoming(c)
       \/ m.type = "hangup"

\* Mutant: the message type taken for the reason.
EndReasonIsType == [decline |-> "decline", busy |-> "busy",
                    cancel |-> "cancel", hangup |-> "hangup"]
EndReason == [decline |-> "declined", busy |-> "busy",
              cancel |-> "cancelled", hangup |-> "hangup"]

ReceiveEnd(c, m) ==
    /\ Arrives(c, m) /\ Ends(c, m)
    /\ net' = net \ {m}
    /\ Finish(c, EndReason[m.type])
    /\ UNCHANGED <<on, pending, callVars, cardVars>>

ReceiveIgnored(c, m) ==
    /\ Arrives(c, m) /\ m.type \notin {"invite", "data"}
    /\ ~Accepts(c, m) /\ ~Ends(c, m)
    /\ net' = net \ {m}
    /\ UNCHANGED <<on, uiVars, timers, streams, linkVars, pending, callVars,
                   cardVars, patch>>

\* {type: 'hangup'} on the data channel of the connected peer; lost when that
\* peer object is gone.
ReceiveData(c, m) ==
    /\ Arrives(c, m) /\ m.type = "data"
    /\ net' = net \ {m}
    /\ IF IsCurrent(c, m.id) /\ peer[c] = m.from THEN Finish(c, "hangup")
       ELSE UNCHANGED <<uiVars, timers, streams, linkVars, patch>>
    /\ UNCHANGED <<on, pending, callVars, cardVars>>

\* A copy is dropped by the network, or its tab is not listening.
Lose(m) ==
    /\ m \in net /\ ("loss" \in Faults \/ ~on[m.to])
    /\ net' = net \ {m}
    /\ UNCHANGED <<on, uiVars, timers, streams, linkVars, pending, callVars,
                   cardVars, patch>>

-----------------------------------------------------------------------------
(* The media mesh, as the controller sees it.                               *)

\* An announcement or a signal of tab d takes the free place in c's mesh;
\* allowedUserIds is [me, s.peerId].
MeshHello(c, d, id) ==
    /\ id \in mesh[c] /\ d \in joined[id] \ {c}
    /\ Owner[d] \in {Owner[c], PeerId(c, id)}
    /\ slot[c] = NoOne
    /\ slot' = [slot EXCEPT ![c] = d]
    /\ UNCHANGED <<on, uiVars, timers, streams, mesh, peer, pending, callVars,
                   net, cardVars, patch>>

\* Event 'peer': the connection of the two places is up.
PeerConnected(c, d, id) ==
    /\ id \in mesh[c] \cap mesh[d] /\ slot[c] = d /\ slot[d] = c
    /\ peer[c] = NoOne /\ IsCurrent(c, id)
    /\ peer' = [peer EXCEPT ![c] = d]
    /\ timers' = [timers EXCEPT ![c] = @ \ ({"connect", "reconnect"} \X {id})]
    /\ call' = [call EXCEPT ![c] =
                  Reduce(@, id, [@ EXCEPT !.status = "active", !.started = TRUE])]
    /\ UNCHANGED <<on, session, ringing, dismissals, streams, mesh, slot,
                   pending, callVars, net, cardVars, patch>>

\* Event 'close' of the peer: a bye, a connect timeout, a failed connection.
\* The controller hears 'disconnect' only if the peer was connected.
PeerClosed(c) ==
    LET id == session[c] IN
    /\ slot[c] # NoOne
    /\ slot' = [slot EXCEPT ![c] = NoOne]
    /\ IF peer[c] # NoOne
       THEN /\ peer' = [peer EXCEPT ![c] = NoOne]
            /\ call' = [call EXCEPT ![c] =
                          Reduce(@, id, ToStatus(@, "reconnecting"))]
            /\ timers' = [timers EXCEPT ![c] = @ \cup {<<"reconnect", id>>}]
       ELSE UNCHANGED <<peer, call, timers>>
    /\ UNCHANGED <<on, session, ringing, dismissals, streams, mesh, pending,
                   callVars, net, cardVars, patch>>

\* The connect and reconnect timers.
ConnectionTimeout(c, name, id) ==
    /\ name \in {"connect", "reconnect"} /\ <<name, id>> \in timers[c]
    /\ IF IsCurrent(c, id) THEN Finish(c, "connection_lost")
       ELSE /\ timers' = [timers EXCEPT ![c] = @ \ {<<name, id>>}]
            /\ UNCHANGED <<uiVars, streams, linkVars, patch>>
    /\ UNCHANGED <<on, pending, callVars, net, cardVars>>

-----------------------------------------------------------------------------
(* Leaving.                                                                 *)

\* The hang-up control, after the data channel message when there is a peer.
\* If sendInbox throws, nothing after it runs.
DataHangup(c, id) ==
    IF peer[c] = NoOne THEN {}
    ELSE [type: {"data"}, id: {id}, from: {c}, to: {peer[c]}]

HangUp(c) ==
    LET id == session[c]
        dialling == call[c].dir = "outgoing" /\ call[c].status = "ringing"
    IN
    /\ id # NoId /\ ShowsBar(c)
    /\ IF dialling
       THEN /\ CanSend(c)
            /\ SendInbox(c, "cancel", id)
            /\ FinishAndDismiss(c, "cancelled")
       ELSE /\ net' = net \cup DataHangup(c, id) \cup
                        IF CanSend(c)
                        THEN Copies(c, PeerId(c, id), "hangup", id) ELSE {}
            /\ IF CanSend(c) THEN FinishAndDismiss(c, "hangup")
               ELSE UNCHANGED <<uiVars, timers, streams, linkVars, patch>>
    /\ UNCHANGED <<on, pending, callVars, cardVars>>

\* Close on the "ended" screen.
DismissCall(c) ==
    /\ ShowsEnded(c)
    /\ call' = [call EXCEPT ![c] = NoCall]
    /\ UNCHANGED <<on, session, ringing, dismissals, timers, streams, linkVars,
                   pending, callVars, net, cardVars, patch>>

\* The ended screen dismisses itself.
AutoDismissCall(c, id) ==
    /\ id \in dismissals[c]
    /\ dismissals' = [dismissals EXCEPT ![c] = @ \ {id}]
    /\ call' = [call EXCEPT ![c] = Reduce(@, id, NoCall)]
    /\ UNCHANGED <<on, session, ringing, timers, streams, linkVars, pending,
                   callVars, net, cardVars, patch>>

-----------------------------------------------------------------------------
UserStep(c) ==
    \/ \E user \in User, id \in CallId : StartCall(c, user, id)
    \/ AcceptCall(c) \/ DeclineCall(c) \/ HangUp(c) \/ DismissCall(c)
    \/ StartInbox(c) \/ HangUpOnUnload(c) \/ Crash(c)

MediaStep(c) ==
    \E id \in CallId : \/ StartMediaOk(c, id) \/ StartMediaFail(c, id)
                       \/ AcceptMediaOk(c, id) \/ AcceptMediaFail(c, id)

TimerStep(c) ==
    \E id \in CallId :
        \/ RingTimeout(c, id) \/ AutoDismissCall(c, id)
        \/ \E name \in {"connect", "reconnect"} : ConnectionTimeout(c, name, id)

ReplyStep(c) ==
    \E id \in CallId : ProfilesReady(c, id) \/ PostCreated(c, id)
                       \/ PostFails(c, id)

InboxStep(c) ==
    \E m \in net : \/ ReceiveInvite(c, m) \/ ReceiveAccept(c, m)
                   \/ ReceiveEnd(c, m) \/ ReceiveIgnored(c, m)
                   \/ ReceiveData(c, m)

MeshStep(c) ==
    \/ \E d \in Client, id \in CallId : MeshHello(c, d, id)
                                        \/ PeerConnected(c, d, id)
    \/ PeerClosed(c)

ServerStep ==
    \/ \E id \in CallId : PostLands(id) \/ PatchLands(id) \/ PatchFails(id)
    \/ \E m \in net : Lose(m)

Next ==
    \/ \E c \in Client : \/ UserStep(c) \/ MediaStep(c) \/ TimerStep(c)
                         \/ ReplyStep(c) \/ InboxStep(c) \/ MeshStep(c)
    \/ ServerStep

Spec == Init /\ [][Next]_vars

(***************************************************************************)
(* Fairness.  Timers that are set fire; getCallMedia settles (the user      *)
(* answers the permission prompt); a connection whose other end is gone is  *)
(* noticed; requests to the server are answered.  Nothing is assumed of the *)
(* network's inbox messages or of what users click.                         *)
(***************************************************************************)
PeerGone(c) ==
    /\ \E d \in Client : slot[c] = d /\ mesh[c] \cap mesh[d] = {}
    /\ PeerClosed(c)

Fairness ==
    /\ \A c \in Client :
        /\ WF_vars(MediaStep(c))
        /\ WF_vars(TimerStep(c))
        /\ WF_vars(\E id \in CallId : PostCreated(c, id))
        /\ WF_vars(PeerGone(c))
    /\ \A id \in CallId : WF_vars(PostLands(id)) /\ WF_vars(PatchLands(id))

FairSpec == Spec /\ Fairness

-----------------------------------------------------------------------------
(* Properties.                                                              *)

\* Type invariant: every variable of the tabs, the network and the call card
\* keeps its shape.
TypeOK ==
    /\ on \in [Client -> BOOLEAN]
    /\ session \in [Client -> CallId \cup {NoId}]
    /\ call \in [Client -> Calls \cup {NoCall}]
    /\ timers \in [Client -> SUBSET (Timer \X CallId)]
    /\ streams \in [Client -> SUBSET CallId]
    /\ mesh \in [Client -> SUBSET CallId]
    /\ slot \in [Client -> Client \cup {NoOne}]
    /\ peer \in [Client -> Client \cup {NoOne}]
    /\ ringing \in [Client -> BOOLEAN]
    /\ media \in [Client -> SUBSET CallId]
    /\ profiles \in [Client -> SUBSET CallId]
    /\ dismissals \in [Client -> SUBSET CallId]
    /\ posting \in [Client -> SUBSET CallId]
    /\ caller \in [CallId -> Client \cup {NoOne}]
    /\ callee \in [CallId -> User \cup {NoOne}]
    /\ joined \in [CallId -> SUBSET Client]
    /\ net \subseteq Message
    /\ creating \subseteq CallId
    /\ post \in [CallId -> Final \cup {"none", "ringing"}]
    /\ patch \in [CallId -> Final \cup {"none"}]

\* The module variable `session` and the Redux call never disagree: there is a
\* current session exactly while the Redux call is live, and for the same id.
\* Every guard of the controller tests the one or the other.
SessionMatchesRedux ==
    \A c \in Client : session[c] = IF InCall(c) THEN call[c].id ELSE NoId

\* Only the current session holds a camera or microphone track, an open mesh
\* or a timer: whatever callback comes late, nothing outlives teardown().
ResourcesFollowSession ==
    \A c \in Client :
        /\ streams[c] \cup mesh[c] \subseteq {session[c]}
        /\ timers[c] \subseteq Timer \X {session[c]}
        /\ slot[c] # NoOne => mesh[c] # {}
        /\ peer[c] \in {NoOne, slot[c]}

\* A call id belongs to one call, and its invite rings a tab at most once; so a
\* late auto-dismiss or a repeated invite never meets a newer call of that id.
Unused(id) ==
    /\ \A c \in Client : session[c] # id /\ id \notin media[c] \cup dismissals[c]
    /\ \A m \in net : m.id # id

Seen(c, id) == session[c] = id \/ id \in dismissals[c]

Dialled ==
    \A id \in CallId : IF caller[id] = NoOne THEN Unused(id)
                       ELSE Owner[caller[id]] # callee[id]
InvitedOnce ==
    /\ \A m \in net : m.type = "invite" =>
         /\ m.from = caller[m.id] /\ m.id \notin media[m.from]
         /\ ~Seen(m.to, m.id)
    /\ \A c \in Client, id \in CallId : caller[id] = c /\ id \in media[c] =>
         \A d \in Client \ {c} : ~Seen(d, id)
Directed ==
    \A c \in Client : session[c] # NoId =>
        (call[c].dir = "outgoing" <=> caller[session[c]] = c)
DismissesOld == \A c \in Client : session[c] \notin dismissals[c]

IdsUsedOnce == Dialled /\ InvitedOnce /\ Directed /\ DismissesOld

\* A timer never runs in a status it was not set for: a leftover connect timer
\* would end a call that is active.
TimersMatchStatus ==
    \A c \in Client, id \in CallId :
        /\ <<"ring", id>> \in timers[c] => call[c].status = "ringing"
        /\ <<"connect", id>> \in timers[c] => call[c].status = "connecting"
        /\ <<"reconnect", id>> \in timers[c] => call[c].status = "reconnecting"

\* What will move a live call on without the help of the other side.
HasExit(c) ==
    LET id == session[c]
        asking == id \in media[c]
    IN
    CASE call[c].status = "ringing" -> asking \/ <<"ring", id>> \in timers[c]
      [] call[c].status = "connecting" ->
            asking \/ <<"connect", id>> \in timers[c]
      [] call[c].status = "active" -> peer[c] # NoOne
      [] OTHER -> <<"reconnect", id>> \in timers[c]

\* No live call waits for ever: each waiting status has a permission prompt
\* open or a timer set ("ring timeout", 20 s reconnect grace).
WaitsHaveExits == \A c \in Broadcaster : InCall(c) => HasExit(c)

\* The same for every tab, whichever hub it was given (README.md:23).
EveryWaitHasAnExit == \A c \in Client : InCall(c) => HasExit(c)

\* The ringtone plays only on behalf of a live incoming call, although the
\* code that starts it waits for a profile first.
RingStopsWithCall ==
    \A c \in Client : ringing[c] => InCall(c) /\ call[c].dir = "incoming"

\* The caller leaves "ringing" for a live status only after a tab of the
\* callee has joined the call's mesh, so it never connects to nobody.
CallerWaitsForAccept ==
    \A c \in Client :
        InCall(c) /\ call[c].dir = "outgoing" /\ call[c].status # "ringing" =>
            \E d \in joined[call[c].id] : Owner[d] = callee[call[c].id]

Lifecycle == INSTANCE CallLifecycle WITH
    shown <- [c \in Client |-> call[c].id],
    direction <- [c \in Client |-> call[c].dir],
    status <- [c \in Client |-> call[c].status]

\* Each tab's Redux call lives the documented life: no late callback revives an
\* ended call, skips a status or changes the id of the call on screen.
RefinesLifecycle == Lifecycle!Spec

\* The outcome of a call is written on its card once: a second PATCH is never
\* sent, and a card that shows an outcome never shows another one.
CardSettlesOnce ==
    [][\A id \in CallId :
         /\ patch[id] # "none" => patch'[id] \in {"none", patch[id]}
         /\ post[id] \in Final => post'[id] = post[id] /\ patch'[id] = "none"
      ]_vars

\* A card says "ended" only for calls both sides had joined, and "declined"
\* only for calls that never connected.  The second holds while each user has
\* one tab: with two, one may decline while the other has joined.
CardOutcomeIsTrue ==
    \A id \in CallId :
        /\ "ended" \in {post[id], patch[id]} =>
             /\ caller[id] \in joined[id]
             /\ \E d \in joined[id] : d # caller[id]
        /\ "declined" \in {post[id], patch[id]} =>
             \A c \in Client : call[c].id = id /\ c = caller[id]
                               => ~call[c].started

\* A call that connected is not recorded as missed: checked when the outcome
\* is written while the caller still has the call on screen.
ConnectedIsNotMissed ==
    [][\A id \in CallId, c \in Client :
         patch[id] = "none" /\ patch'[id] = "missed" /\ call[c].id = id
         /\ caller[id] = c => ~call[c].started]_vars

Alone(c, id) ==
    session[c] = id /\ \A d \in Client \ {c} : session[d] # id

\* Nobody stays alone in a call: when the other side hung up, closed the tab,
\* crashed or never got the invite, the call ends, whatever messages are lost.
AloneEnds ==
    \A c \in Client, id \in CallId : Alone(c, id) ~> ~Alone(c, id)

\* When a caller whose tab stays open has left the call, the card stops saying
\* "ringing", whether the post was created before or after the end.
CardResolved ==
    \A id \in CallId, c \in Client \ Mortal :
        (post[id] = "ringing" /\ caller[id] = c /\ session[c] # id)
            ~> post[id] # "ringing"
===============================================================================
