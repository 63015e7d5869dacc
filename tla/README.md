# Formal models of the WebRTC video plugin

TLA+ models of the plugin's calls with their screen sharing, its peer connections
and meshes, its voice channels from the microphone to the directory in the store,
and its signalling broker, checked with TLC on small instances and, but for
liveness, proved with TLAPS for every instance. All paths below are
relative to the repository (`src/`).

## 1. The system

Two users call each other through their browsers; media flow directly between
the browsers, everything else goes through a Go plugin that may run on several
app servers (nodes).

| Component | State | Operations | Talks to |
|---|---|---|---|
| **Call controller** `webapp/src/call/controller.js` | module variables `inbox`, `session` (timers, stream, mesh, peer, invite, `ended`) per browser tab | `startCall`, `acceptCall`, `declineCall`, `hangUp`, `hangUpOnUnload`, `handleInboxMessage`, `joinMesh` and its mesh events, ring, connect, reconnect and auto-dismiss timers, media controls | Redux (dispatch), hub (inbox messages), Mesh (events), posts (REST), alerts, `getUserMedia` |
| **Redux slice** `reducers/index.js`, `selectors.js` | `call` (id, direction, status, end reason, start, post), `voiceRooms`, `config` | `CALL_STARTED`, `CALL_UPDATED`, `CALL_ENDED`, `CALL_DISMISSED`, … | read by every guard of the controller and by the UI |
| **Call card** `call/invitePost.js` | a post in the DM channel with a status | create, patch once | REST API |
| **Hub** `signal/hub.js` | open event streams, `closed` | `subscribe`, `publish`, `close` | publish and stream endpoints |
| **Mesh** `signal/mesh.js` | `peers`, `sendQueues`, hello timer | hello, signal, bye, `ensurePeer`, `close` | hub, Peer |
| **Peer** `signal/peer.js` | RTCPeerConnection, perfect-negotiation flags, candidate queue, timers | `negotiate`, `applySignal`, `recover`, `destroy` | Mesh |
| **Voice session and manager** `voice/*.js` | current room, participants, mute state | join, leave, switch, mute, deafen | Mesh, microphone |
| **Voice room list** `voice/actions.js`, `components/sidebar` | the list in Redux | load, event, create, delete, leave a deleted room | directory |
| **Signalling broker** `server/signal_broker.go`, `signal_handlers.go` | subscriber channels per topic under an RWMutex | subscribe, unsubscribe, publish, relay to the cluster, SSE handler | clients, other nodes |
| **Voice room directory** `server/voice_rooms.go` | one value in the KV store, `roomsLock` per node | list, create, delete with compare-and-set and retries, WebSocket event | KV store, clients |
| **Configuration** `server/plugin.go`, `configuration.go`, `actions/index.js` | settings, TURN credentials with a lifetime | serve, refresh | voice and call meshes |

What is hard here: every handler of the controller may interleave with pending
promises (permission prompt, profile request, post creation), with timers and
with messages that are lost, late or out of order; several tabs of one user
answer the same call; tabs close and crash; two ends renegotiate at once while
their network comes and goes; a screen is captured across awaits that the call
may not survive; a page learns of the voice channels from answers, events and
its own requests, in any order; the directory is edited on several nodes with
optimistic concurrency; the broker uses a subscriber list after releasing its
lock.

What makes each component correct:

- *controller*: its session and the Redux call agree; nothing (track, mesh,
  timer, ringtone) outlives the session; every wait has a timer; a call follows
  the documented life; nobody stays alone in a call; the card is written once
  and truthfully;
- *directory*: it acts as an atomic list; no edit is lost, limits and permissions
  hold when the edit happens, every request is answered, clients see the current
  list;
- *broker*: at most one delivery, order per node, no publisher waits or panics;
- *peer*: negotiation comes to rest with both ends agreed, whatever offers crossed;
  a connection that is dead is given up, and none stays half-way for ever;
- *mesh*: never more than `maxPeers` places; the place of a member that left is
  freed; members that stay find each other, whatever was lost;
- *screen sharing*: a captured screen is stopped with the session that shows it;
- *voice session*: no microphone or mesh outlives its session, who turned the sound
  off hears nobody, who is shown live can be heard;
- *room list*: it converges to the directory, and nobody is thrown out of a room
  that exists.

## 2. Modules

| Module | What it is |
|---|---|
| `Call` | the controller in each tab, the Redux slice, inbox messages, the mesh as the controller sees it, and the call card |
| `CallLifecycle` | abstract specification: the life of the call a tab shows (`Call` states the refinement) |
| `MCCall` | instances for TLC |
| `CallProofs` | proofs about `Call`: types, session and Redux call, resources, ids |
| `CallLifeProofs` | more of them: timers, waits, ringtone, the refinement `Call` → `CallLifecycle`, the card |
| `VoiceRooms` | POST and DELETE of rooms on the nodes of a cluster |
| `VoiceDirectory` | abstract specification: each edit happens at one instant |
| `MCVoiceRooms` | instances for TLC |
| `VoiceRoomsProofs` | proofs about `VoiceRooms`, with the refinement of `VoiceDirectory` |
| `SignalBroker`, `MCSignalBroker` | broker, stream and publish handlers on several nodes |
| `SignalBrokerProofs` | proofs about `SignalBroker` |
| `Peer` | the two ends of one connection, with perfect negotiation, ICE restarts and timers |
| `ScreenShare` | screen sharing of a call, on top of `Peer` |
| `MCPeer` | instances of `ScreenShare` for TLC |
| `ScreenShareProofs` | proofs about `Peer` and `ScreenShare` |
| `Mesh` | hellos, places and closing peers of the members of a namespace |
| `VoiceSession` | voice sessions and their manager, on top of `Mesh` |
| `VoiceChannels` | the room list of one page, on top of `VoiceSession` |
| `MCVoice` | instances of `VoiceChannels` for TLC |
| `VoiceProofs`, `VoiceNewsProofs` | proofs about `Mesh` and `VoiceSession`, for every number of members |
| `VoiceListProofs` | `VoiceChannels` implements the specification of its sessions, and its list keeps up with the directory |

Operators whose comment starts with "Mutant" are variations of the code that a
bug could introduce; no specification uses them. They document what each
property guards against: PROJECT.json pairs each with the property it violates.

### `Call` and the code

A tab is a member of `Client`, its user is `Owner[c]`. The variables `session`,
`timers`, `streams`, `mesh`, `slot`, `peer` are the fields of the controller's
session; because a session object is identified by its call id, `isCurrent(s)` is
`session[c] = id`. `call[c]` is the Redux call. `media`, `profiles`, `posting`
and `dismissals` are the callbacks still pending, each remembering the call it
was started for, as the closures of the code do. An action is one run of the
event loop:

| Code | Action |
|---|---|
| `startCall` up to its first `await` | `StartCall` |
| the rest of `startCall`, media granted or refused | `StartMediaOk`, `StartMediaFail` |
| `createInvitePost`: reaches the server, is answered, fails | `PostLands`, `PostCreated`, `PostFails` |
| `updateInvitePost` | `PatchLands`, `PatchFails` |
| `receiveInvite`, and its `ensureProfiles(...).then` | `ReceiveInvite`, `ProfilesReady` |
| `acceptCall` before and after its `await` | `AcceptCall`, `AcceptMediaOk`, `AcceptMediaFail` |
| `declineCall`, `hangUp`, Close button | `DeclineCall`, `HangUp`, `DismissCall` |
| `handleInboxMessage` | `ReceiveInvite`, `ReceiveAccept`, `ReceiveEnd`, `ReceiveIgnored` |
| `joinMesh` handlers `peer`, `disconnect`, `data` | `PeerConnected`, `PeerClosed`, `ReceiveData` |
| `ensurePeer` of the mesh taking the one place | `MeshHello` |
| ring, connect and reconnect timers, auto-dismiss | `RingTimeout`, `ConnectionTimeout`, `AutoDismissCall` |
| `pagehide`, a crash | `HangUpOnUnload`, `Crash` |

`finish()`, `teardown()`, `sendInbox()` and the reducer's actions are operators
used inside these, in the order the code calls them. `ShowsCard`, `ShowsBar` and
`ShowsEnded` are what the call window shows (the incoming card, the control bar, the
ended screen): they decide which of `DeclineCall`, `HangUp` and `DismissCall` a
user can click.

Abstractions. The first three add behaviour, the others leave out what no
property tells apart:

- time is not measured: a timer that is set may fire at once;
- `net` is a set of message copies, one per tab of the addressee, delivered in any
  order or lost, but not twice: the broker delivers a signal to a stream at most
  once (`AtMostOnce`);
- the media connection is the pair of places two tabs keep for each other; it may
  come up whenever both hold it and close whenever it likes;
- `randomId()` never repeats an id; the profile request always resolves
  (`ensureProfiles` catches its errors);
- camera, video flags, notifications and the wording of the card are data;
- **the hub's `broadcast`**: `sendInbox` calls `inbox.broadcast`, which the hub of
  `createHub` does not have. `Broadcaster` is the set of tabs whose hub has it.
  The passing runs put every tab in it: they show what the controller does once
  messages can be sent, as the tests' mock lets it. `CallNoBroadcast` takes the
  hub as it is. The theorems hold for both.

### `VoiceRooms` and the code

A request is a POST or a DELETE with its parameters (`edit`) on a node (`at`).
`pc` follows it through `updateRooms`: `Lock`, `Load` (KVGet and the mutate
callback), `CompareAndSet` or `Conflict` or `SetFails` (KVSetWithOptions), and
`Publish` (the event, then unlock and answer). `Return` is every way out. The list
is a set: ids are unique and the stable sort makes equal bytes and equal sets the
same for the compare-and-set; an empty list differs from a key never set, as it
does in the store. The early return for unchanged data (`voice_rooms.go:93`) cannot
be reached: both edits change the list. An error of the store may come before or
after the value was stored.

### `SignalBroker` and the code

A stream is one SSE request: `Subscribe`, `Write` (one frame), `Unsubscribe` and
`CloseChannel` (the two halves of the deferred `unsub`, which releases the lock
before it closes). A signal is one publish request: `Snapshot` (copy under the
read lock), one `Send` per subscriber, `Finish`, and `Relay` to the other nodes,
whose `OnPluginClusterEvent` publishes it there. `todo` is the copied list.
The relay may reach any subset of the other nodes. A frame lost in a failed write
stays in `buffer` when the stream leaves, where nothing reads it.

### `Peer`, `ScreenShare` and the code

`Peer` has two ends, `Polite` and `Impolite`, and follows `signal/peer.js` method by
method: `Negotiate` and `OfferMade` are `negotiate()` before and after its
`await`; `ReceiveDescription`, `RemoteSet` and `AnswerMade` are the three stretches
of `applySignal` for a description, `ReceiveCandidate` that for a candidate;
`ChannelOpens`, `ConnectionStateOther` and `ConnectionFailed` are the browser's
events; `RecoverTimeout`, `ConnectTimeout` and `Destroy` are what their names
say. `inbox` is the way of the signals and the queue in which `handleSignal`
serialises them: they arrive in order or not at all.

The RTCPeerConnection is the browser's, and modelled by what `peer.js` uses of it.
Its operations chain runs one description at a time. `negotiationneeded` fires in a
stable state when a track was added or removed or an ICE restart was asked for. An
ICE *generation* stands for the credentials of a description: a restart (`fresh`)
starts another one, a candidate belongs to one, and a connection can be made when
each end has used the other's candidate. `connectionState` may fall only while the
connection is `Broken`. The state 'closed' follows `pc.close()` alone and fires no
event. What `send()` keeps until the channel is open is data.

`ScreenShare` adds `toggleScreenShare` and `stopScreenShare`. A capture is "asking"
while `getScreen()` is awaited, "replacing" or "restoring" while `replaceTrack` is.
The code leaves three windows open. Two of them are recorded by the history variable
`raced`: the call or its connection ends while `replaceTrack` is pending, and a second
click comes before the first was done. In the third, the browser's own bar ends a
track during that await, before the `ended` listener is added (`controller.js:571-582`):
the capture is "cut", and then "dead", a screen that has ended and is shown as shared
until the user clicks Stop (`TrackEndsUnheard`, `Replaced`). The listener does not test
which track it is for, so the event of a track that is being taken back stops the
screen shown by then (`TrackEnded`). `OrphansOnlyByRace` names all three: but for a
race, a capture never outlives its session, and the call window shows what is live,
being taken back or dead. A new Peer that replaces a lost one while a screen is
shared is not modelled.

### `Mesh`, `VoiceSession`, `VoiceChannels` and the code

In `Mesh` a member is a mesh id, with the Peers it holds (`peers[m][n]`) and the
messages on their way to it. A Peer is "new", "up", or "gone" when its other end
was destroyed and it has not noticed; its inside is `Peer`, whose `GivesUp` is what
`DeadPeerCloses` stands for. Messages are lost and overtake each other. `Receive` is
`onMessage` with `ensurePeer` and the answer to a hello; `SayHello` is the timer,
`StreamOpens` the hub's `onOpen` (that only the second stream to open says hello
is abstracted), `Closed` is `close()`. The message filter of the voice mesh lets the
messages of members through and is left out.

`VoiceSession` names a session by the mesh id it will have. `JoinVoiceRoom` is
`joinVoiceRoom` up to the microphone prompt, `MicrophoneSettles` the rest of
`join()`. `entry[m][n]` is what a session keeps for a connected peer and comes and
goes with it (`FollowMesh`, the mesh's `peer` and `disconnect` events); `wire[m][n]`
are the state messages on the data channel. The first one is kept only when it is
news. The speaking meters are browser I/O.

`VoiceChannels` is the page of the user `Me`. `versions` is the directory and its
past, which acts as the atomic list that `VoiceRooms` was shown to implement. An
edit is `Announced`, when its event will be published (it waits in `news`, and
`PublishRooms` takes any of them, since two nodes may publish in either order), or
`Unannounced`, when the store reports an error although it wrote: `updateRooms` then
returns before the event (`voice_rooms.go:100-104`), and the request is answered with
an error, after which its page loads nothing.
`page` is the list in Redux (a version), the GET requests and events under way, the
POST and DELETE requests (`asked`, any number at once: neither the form nor the
delete button waits for an answer), and the question that a delete asks first.
`seen`, `missed` and `untold` are history: the newest version received, whether a
GET failed, and whether nothing has told of the newest version. `LeaveDeleted`, the effect
that leaves a deleted room, is a step of its own: React runs such effects some time
after the render, with the sidebar mounted. `CreateAnswers` joins with the
`active` of the render in which the form was submitted, as the closure does.

## 3. What the runs show

| Run | Instance | Properties |
|---|---|---|
| `CallPair` | 2 users, 1 tab each, 2 call ids, message loss | state, resources, ids, timers, exits, ringtone, accept, card, refinement of `CallLifecycle` |
| `CallTabs` | caller and a callee with 2 tabs, 1 id, failing post requests | `CallerWaitsForAccept`, `CardSettlesOnce`: where a second tab matters |
| `CallLive` | 1 call, message loss, callee's tab may close or crash, fairness | `AloneEnds`, `CardResolved` |
| `PeerPair` | 2 ends, one with a camera, 2 screens and 1, 2 outages, lost signals, fairness | agreement at rest, giving up, no limbo, screens end with their session |
| `VoiceMesh` | 2 users, 3 sessions, 1 place, 3 rooms, 3 versions of the directory, 2 requests at once, fairness | places, microphones, silence, shown state, list, freed places, members meet |
| `VoiceRooms` | 2 nodes, 3 requests, limit 2, 2 tries, store errors, fairness | lost updates, limit, permission, event order on one node, refinement, termination |
| `SignalBroker` | 2 nodes, 2 streams, 2 signals, buffer 1, failing relay, fairness | at most once, order, unlisting, no blocking |

Why the bounds are enough for what they ask: two ids let callbacks of an old call
meet a new one, in both directions and at once (glare); three requests on two
nodes give a conflict behind a conflict, and with two tries both a retry that
succeeds and one that gives up; a limit of two is reached and exceeded by a third
create; a buffer of one is full after one signal. Two outages make a peer restart
ICE, recover and restart again, or give up in the second; lost signals during one
lose an offer, an answer, a candidate of the restart, or several of them. An outage
hits a connected pair (before that only the connect timer counts).

`MCBounds`, in `PeerPair`, bounds what makes the ends negotiate again: the screens
asked for and the outages are two at most together, so a run has two screens that
collide, or two outages, or one of each. In the last case the screen is one that is
negotiated (of the end without a camera) and stays shared: the offer of the screen
crosses that of the ICE restart. Signals are lost, any number of them, while no
screen was asked for. Taking a screen back across a restart, or losing its offer,
is left to the theorems: `QuietIsSettled` has no such bound there, but speaks of no
lost signal, and the liveness of these cases is not checked. The bounds are in the
instance only: `ScreenSpec` and `ScreenFairSpec` have none, and no step that fairness
speaks of is held back by them.

One place and three sessions, of which one leaves, are what a ghost needs to keep a
member out. Three versions of the directory and two requests at once let an answer
overtake an event and another answer, two events change places, and an edit nobody
is told of follow or precede one that is announced; with three rooms a page may
create two of them at once.

`FewPending` bounds, in `CallPair` and `CallTabs`, what is under way at once: two message copies,
one auto-dismiss, one profile request, one card operation. `MCVoice` allows one
kind of *trouble* at a time: on the "network" alice leaves and joins again and
messages are lost; in "media" the two use their controls over a connection that
comes and goes; with the "list" alice is alone and asks for one thing at a time;
"calm" follows the network, and only its behaviours matter to the liveness. In
"media" two state messages at most are under way on a channel (`RoomOnWire`); in the
"list" the comment of `List` names what is left out: a delete that is asked for over
two requests under way, most requests of a second session, any after a failed GET,
and rooms that differ in name only. The
proofs of section 4 have no such bound. `NumberedInOrder` picks one representative of initial states that
differ by renaming ids and nodes. `CHECK_DEADLOCK FALSE` is used because every
system may really stop: ids are used once, requests are served once, streams close.

Five runs show where the code does not do what its documents, comments or tests say:

- `CallNoBroadcast`: with the shipped hub `startCall` throws before the ring timer
  is set (`controller.js:77`, `324`), against the ring timeout of README.md:23 and
  the test at `controller.test.js:230`, whose mock hub has `broadcast`.
- `CallLateCard`: a call that connected and ended before its post was created is
  written as "missed" (`controller.js:342`), against README.md:24.
- `VoiceRoomsEvent`: two nodes may publish their events in the opposite order of
  their edits (`voice_rooms.go:104`), so clients keep the older list, against
  README.md:28.
- `SignalBrokerPanic`: `publish` may send on a channel closed since it copied the
  list (`signal_broker.go:47`, `34`), against `signal_broker_test.go:106`.
- `VoiceThrownOut`: who creates a channel and joins it before the list of the page
  has it is thrown out of it (`voice_channels.jsx:80`), against the comment two
  lines above, "Leave automatically if the active room is deleted".

### Fairness

`Call.FairSpec`: timers that are set fire; `getCallMedia` settles (the user
answers the prompt; while the prompt is open the call may stay); posts and patches
are answered; a connection whose other end is gone is noticed (a bye, or the
connection state of the browser). Nothing is assumed of inbox messages or clicks.
`VoiceRooms.FairSpec`: each request's goroutine runs, and `sync.Mutex` admits a
waiter once it is unlocked. `SignalBroker.FairSpec`: publishing goroutines run;
stream handlers need not, because a client may stop reading.
`ScreenShare.ScreenFairSpec` (and `MCPeer.MCFairSpec`, the same within the bounds),
with the fairness of `Peer`: each end's event loop goes
on, the timers that are set fire, and the browser's ICE agent notices a dead
connection and ends every check; nothing is assumed of the users or of the network,
which may stay down. `MCVoice.MCFairSpec`: the hello timer runs, and a Peer whose
other end is gone gives up, which is `GivesUp` of `PeerPair`. Messages are lost for
some time but not for ever (`Calm`), and then each kind of message between two
members is delivered in the end; a network that loses everything lets nobody meet.

## 4. What is proved

For every number of tabs, users, ids, sessions, members, rooms, nodes, requests and
retries, under the assumptions named in the modules (`CallAssumption`,
`VoiceAssumption`, `MeshAssumption`, `SessionAssumption`, `ChannelsAssumption`,
`BrokerAssumption`, `PeerAssumption`, `ScreenAssumption`: types of the constants,
null values that differ from real ones, and that no two users share a session).
With these, every invariant that a passing run checks is proved, and so are
the action properties and the two refinements.

`CallProofs` proves `TypeOK`, `SessionMatchesRedux`, `ResourcesFollowSession` and
`IdsUsedOnce` as invariants of `Call!Spec`, whatever `Broadcaster`, `Faults` and
`Mortal` are. They are inductive together, not alone: that the session and the
Redux call agree after an auto-dismiss needs that the id of the pending timeout is
not the id of the call on screen (`DismissesOld`); that needs that an invite never
rings a tab twice for one id (`InvitedOnce`), which needs that an id is dialled
once and unused before (`Dialled`), and that the direction of a call tells who
dialled it (`Directed`). Lemmas state what `Teardown`, `Finish`, receiving and
sending do to each part; each action then has one step per part it can disturb.

`CallLifeProofs` goes on from there. It first sorts what one run of the event loop
can do to the call of its tab into a dozen *turns* (`Turn`: begin a call, answer,
join the mesh, connect, lose the connection, end, leave, …), and shows that every action is one of them; the
invariants are then proved per turn. Each of the following rests on the one before:

- `Life` says what a tab holds in each status of its call (`Stages`: mesh, peer and
  the one timer), that a call whose invite is not out is known to its caller only
  (`Fresh`), that a tab that has not received its invite knows nothing of it
  (`Untouched`), and that who accepts has joined (`AcceptsJoined`). It gives
  `TimersMatchStatus`, `WaitsHaveExits`, `RingStopsWithCall`, `CallerWaitsForAccept`
  and, as each turn is a step of the abstract call or a stutter, the refinement of
  `CallLifecycle`.
- `Cards` says that a card is asked for once, by its caller, patched only while it
  rings, and that once settled (or being settled) no session and no pending request
  can settle it again; hence `CardSettlesOnce`, whatever requests are delayed or
  fail.
- `StartedJoined` (a call that started has two tabs in it) gives `EndedCallsHappened`:
  a card says "ended" only for calls that its caller and another tab had joined.
- `NotJoined`, `DeclinedOnce` and `Sides` (who is ringing has not joined; who
  declined has not, and has left; only the two users are in a call) give
  `CardOutcomeIsTrue` when each user has one tab (`SingleTabs`). This hypothesis is
  needed: TLC finds, with two tabs of the callee, that one declines while the
  other has joined, and that the decline ends a call that is active with the card
  "declined". The run that checks it (`CallPair`) has one tab per user.

`VoiceRoomsProofs` proves `TypeOK`, `DirectoryCap`, `CreationsHold`,
`DeletionsHold`, `AnnouncedByOneNode`, `OnlyOwnersDelete` and that `VoiceRooms`
implements `VoiceDirectory`. The inductive invariant `IInv` adds who holds the
lock (`LockHeld`), that a request is answered exactly when done and has tries left
before (`Progress`), that an edit about to be stored was allowed by the list it
read (`Checked`), that every stored room comes from the one POST that drew its id
(`FreshIds`, `Created`), that what was deleted had been created (`Deleted`), and
that on one node only the holder of the lock has news (`Announced`). The key
argument: when the compare-and-set succeeds, the list that was read *is* the
stored list, so `Checked` holds of it now. Both invariants were model-checked
before they were proved.

`VoiceProofs` is about `VoiceSession!SessionSpec`: all sessions and meshes, with any
loss and reordering. It proves `VoiceTypeOK` (with `PlacesKept`: no mesh has more
than `maxPeers` Peers), `MicFollowsSession` and `DeafIsSilent`. The inductive
invariant is `MeshInv` (types, finitely many Peers, `PlacesKept`), `SessionInv` and
`MediaInv`. The argument of `SessionInv`: a mesh is open, or a prompt
unanswered in a session that was not left, only for the current session of a user
(`Holder`); so when the prompt settles and `closed` is not set, the session is still
the current one.

`VoiceNewsProofs` proves `ShownLiveIsLive`. The invariant `NewsInv` says that the newest
state message on a channel is true (`NewsIsTrue`), that who is shown live has sent
something on the present connection (`HeardFrom`), and
that the other end of a Peer that is up is there (`EndsMeet`).

`VoiceListProofs` proves that `VoiceChannels` implements `SessionSpec`: the list, its
requests, effects and clicks use the sessions only by the operations of the
manager. So everything proved of the sessions holds of the page
(`ListKeepsSessions`), and the bound "one kind of trouble at a time" of the run
hides nothing from these invariants; `StaleOnlyByOvertaking` reads the page alone,
which no step of a session changes.

It also proves `StaleOnlyByOvertaking`. `UpToDate` says that a page that is online, has
asked for the list and had no GET fail has been shown the newest version, or that it
is `Foreseen`: its event is still to be published or on its way, a GET has read it or
is still to read, or it was `untold`, stored with an error of the store. An edit that
is announced is news to who is connected, and who reconnects asks again. When nothing
is under way only the first and the last are left; and a version shown and replaced
since is an overtaking.

`ScreenShareProofs` proves `ScreenTypeOK`, `OrphansOnlyByRace` and `QuietIsSettled`
for `ScreenShare!ScreenSpec`, with any number of tracks, outages and lost
signals. `ShareOf` is the invariant of the captures while nothing raced: at most one
is under way (`UnderWay`), what is shown is live or was ended unheard, and none
outlives its session. `QuietIsSettled`
speaks of rest; its invariant `NInv` speaks of every state in which both ends live and
no signal was lost, and is about the two ends and the two queues between them
(`Met`): an answer under way is awaited and alone but for one later offer of the end
that gave it; an offer to the polite end is open, one to the impolite end is open
or *doomed*, since the impolite end ignores what collides; who waits for an answer
will get one, or an offer that makes it roll back; and with no answer under way each
end knows how the other described itself. `Ices` adds that the candidate of the
latest description was used or is on its way. At rest the queues are empty, so
nobody can be waiting, and the two descriptions agree. One lemma for
each move of each end (it offers, answers, takes an offer or an answer) shows
that it keeps `Met`; the collision is `PoliteTakesOffer`, with the rollback, and
`MetIgnores`.

`SignalBrokerProofs` proves `TypeOK`, `AtMostOnce`, `LocalOrder` and
`ClosedIsUnlisted`, for channels of any capacity and a relay that may lose anything.
The invariant says that the lists hold the open streams, each once (`Listed`,
`OpenListed`), and so does what a publisher copied (`Copied`); that a signal is on
another node only when its own is done with it (`RelayedOnce`); and that a stream
that has a signal is no longer in the rest of the list it is sent to (`SentOnce`).
Hence a send always brings a new signal, and two requests of one node, of which one
was answered before the other started, are never sent at once.

Only model-checked: the liveness properties (`AloneEnds`, `CardResolved`,
`RequestsAnswered`, `PublishReturns`, `PlacesFreed`, `MembersMeet`, `GivesUp`,
`NoLimbo`), whose proofs need ENABLED and fairness and are out of the prover's
reach. The proofs cover what each of them rests on, for example that every wait has
a timer (`WaitsHaveExits`) or that negotiation cannot rest half-way
(`QuietIsSettled`). The properties of the five runs that expect a violation are
false of the code; what remains true of two of them is proved: `WaitsHaveExits`, for
tabs whose hub has `broadcast`, and `AnnouncedByOneNode`, for the events of one node.

## 5. Not modelled, and what is left to do

To model, in order of interest:

1. A new Peer that replaces a lost one while a screen is shared: the mesh's
   `stream` and `peer` handlers of the controller add the camera again.
2. A page restored from the back/forward cache after `hangUpOnUnload`
   (`controller.js:436`): whether a browser keeps a page with an open EventSource and
   a microphone is outside the code.
3. Three and more members of a mesh at the cap: each member counts its own places, so
   who is connected to whom need not be symmetric. `Mesh` has it, the run has one
   place.
4. What two tabs of one callee that connect to each other do to a call: each has a live
   peer and stays active, and the caller is kept out (`controller.js:454`). `Call` has
   it, and no property speaks of it: nothing in the repository says how it should end.
5. Lifetimes of TURN credentials: the Redux copy is refreshed
   (`actions/index.js:15-18`), but a mesh keeps the ICE servers it was built with.
   All of this is time, and no interleaving decides anything.

To prove: that `Mesh` with the sessions of one call implements the `MeshHello`,
`PeerConnected` and `PeerClosed` of `Call`, and that `Peer` implements the places of
`Mesh` ("new", "up", "gone"). The models meet only in words there.

Left out for good: rendering, user search and the call picker, audio meters,
`toggleAudio` and `toggleVideo` (one flag and one message each), the outbox of
`Peer.send`, HTTP validation that changes no state, the wording of cards, HMAC, build
tooling. `stopInbox` and `uninitialize` end the plugin together with its page state.

## 6. Running

    tlc -workers 2 -config CallPair.cfg MCCall.tla
    tlc -workers 2 -config VoiceMesh.cfg MCVoice.tla
    tlapm CallProofs.tla
    tlapm --stretch 0.4 CallLifeProofs.tla

PROJECT.json lists the runs, the mutants, the code lines each definition models,
the findings, the hazards with the properties that cover them, and the theorems.
