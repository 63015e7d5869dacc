---------------------------- MODULE VoiceChannels ----------------------------
(***************************************************************************)
(* components/sidebar/voice_channels.jsx with voice/actions.js: the list of  *)
(* voice channels in one page, on top of VoiceSession.  The directory on the *)
(* server is the atomic list of VoiceDirectory, edited by this page and by   *)
(* others.  The page learns of it from WebSocket events, which the nodes     *)
(* publish after their edits, and from GET answers, which are as old as their *)
(* reading.                                                                  *)
(***************************************************************************)
EXTENDS VoiceSession

CONSTANTS
    Me,         \* the user of the page
    MaxVersion, \* bound: the number of versions of the directory
    MaxRequests \* bound: the number of requests under way

ASSUME ChannelsAssumption ==
    Me \in User /\ MaxVersion \in Nat \ {0} /\ MaxRequests \in Nat

VARIABLES
    versions,   \* the versions of the directory, each a set of rooms
    news,       \* versions whose event has not reached the page's connection
    untold,     \* history: no event tells of the newest version, and no GET has
                \* read it
    page        \* the page, its requests and the events on their way to it

store == <<versions, news, untold>>
channelVars == <<sessionVars, store, page>>

Directory == versions[Len(versions)]
NoRoom == NoNamespace

ChannelsInit ==
    /\ SessionInit
    /\ \E r \in Namespace : versions = <<{r}>>
    /\ news = {} /\ untold = FALSE
    /\ page = [
          list |-> 0,           \* the version in Redux, 0 for null
          events |-> <<>>,      \* versions announced
          gets |-> <<>>,        \* GET requests: the version read, 0 before
          online |-> TRUE,      \* the WebSocket
          asked |-> <<>>,       \* POST and DELETE requests
          confirm |-> NoRoom,   \* confirmId
          seen |-> 0,           \* history: the newest version received
          missed |-> FALSE]     \* history: a GET failed

Rooms == versions[page.list]
MyRoom == IF current[Me] = NoSession THEN NoRoom ELSE voice[current[Me]].room

Unused == Namespace \ UNION {versions[i] : i \in DOMAIN versions}

\* updateRooms stores rooms, and will publish them ...
Announced(rooms) ==
    /\ Len(versions) < MaxVersion
    /\ versions' = Append(versions, rooms)
    /\ news' = news \cup {Len(versions')}
    /\ untold' = FALSE

\* ... unless the store reports an error, although it wrote.
Unannounced(rooms) ==
    /\ Len(versions) < MaxVersion
    /\ versions' = Append(versions, rooms)
    /\ untold' = TRUE
    /\ UNCHANGED news

\* Somebody else creates or deletes a channel.
EditByOthers ==
    /\ \E rooms \in {Directory \cup {r} : r \in Unused}
                    \cup {Directory \ {r} : r \in Directory} :
          Announced(rooms) \/ Unannounced(rooms)
    /\ UNCHANGED <<sessionVars, page>>

\* The event of version v is published: by its own node, so that those of two
\* nodes may come in either order; a page that is not connected misses it.
PublishRooms(v) ==
    /\ news' = news \ {v}
    /\ page' = [page EXCEPT !.events = IF page.online THEN Append(@, v) ELSE @]
    /\ UNCHANGED <<sessionVars, versions, untold>>

\* Page p after VOICE_ROOMS_RECEIVED with version v.
RoomsReceived(p, v) == [p EXCEPT !.list = v, !.seen = IF v > @ THEN v ELSE @]

\* voiceRoomsUpdated, and the reducer.
VoiceRoomsUpdated ==
    /\ page.events # <<>>
    /\ page' = RoomsReceived([page EXCEPT !.events = Tail(@)], Head(page.events))
    /\ UNCHANGED <<sessionVars, store>>

\* Page p after loadVoiceRooms: one more GET.
Loading(p) == [p EXCEPT !.gets = Append(@, 0)]
MayRequest == Len(page.gets) + Len(page.asked) < MaxRequests

\* The first effect, and its retry while the list is null.
LoadFirst ==
    /\ page.list = 0 /\ page.gets = <<>> /\ MayRequest
    /\ page' = Loading(page)
    /\ UNCHANGED <<sessionVars, store>>

Without(s, i) == SubSeq(s, 1, i - 1) \o SubSeq(s, i + 1, Len(s))

\* A GET is read on the server, answered, or fails: the page keeps what it has.
GetReads(i) ==
    /\ page.gets[i] = 0
    /\ page' = [page EXCEPT !.gets[i] = Len(versions)]
    /\ untold' = FALSE
    /\ UNCHANGED <<sessionVars, versions, news>>

GetAnswers(i) ==
    /\ page.gets[i] # 0
    /\ page' = RoomsReceived([page EXCEPT !.gets = Without(@, i)], page.gets[i])
    /\ UNCHANGED <<sessionVars, store>>

GetFails(i) ==
    /\ page' = [page EXCEPT !.gets = Without(@, i), !.missed = TRUE]
    /\ UNCHANGED <<sessionVars, store>>

\* The WebSocket breaks, with the events on it.
Disconnect ==
    /\ page.online
    /\ page' = [page EXCEPT !.online = FALSE, !.events = <<>>]
    /\ UNCHANGED <<sessionVars, store>>

\* Mutant: nothing is loaded after a reconnect.
ReconnectOnly ==
    /\ ~page.online
    /\ page' = [page EXCEPT !.online = TRUE]
    /\ UNCHANGED <<sessionVars, store>>

\* The reconnect handler of index.jsx.
Reconnect ==
    /\ ~page.online /\ MayRequest
    /\ page' = Loading([page EXCEPT !.online = TRUE])
    /\ UNCHANGED <<sessionVars, store>>

\* The second effect, run by React after a render while the sidebar is mounted:
\* leave the active room when the list lacks it.
LeaveDeleted ==
    /\ MyRoom # NoRoom /\ page.list # 0 /\ MyRoom \notin Rooms
    /\ LeaveVoiceRoom(Me)
    /\ UNCHANGED <<store, page>>

\* join, past its check of the active room.
Join(r) == \E m \in Id : JoinVoiceRoom(Me, r, m)

ClickRoom ==
    /\ page.list # 0
    /\ \E r \in Rooms \ {MyRoom} : Join(r)
    /\ UNCHANGED <<store, page>>

\* Page p with one more request; nothing keeps a user from asking twice.
Asking(p, op, r) ==
    [p EXCEPT !.asked = Append(@, [op |-> op, room |-> r, stored |-> FALSE])]

Answered(i) == [page EXCEPT !.asked = Without(@, i)]

\* create, up to its await: the form is submitted.
SubmitCreate ==
    /\ MayRequest
    /\ page' = Asking(page, "create", NoRoom)
    /\ UNCHANGED <<sessionVars, store>>

\* remove: the first click asks, the second one deletes, ...
ClickDelete ==
    /\ page.list # 0
    /\ \E r \in Rooms :
          \/ page.confirm # r /\ page' = [page EXCEPT !.confirm = r]
          \/ /\ page.confirm = r /\ MayRequest
             /\ page' = Asking([page EXCEPT !.confirm = NoRoom], "delete", r)
    /\ UNCHANGED <<sessionVars, store>>

\* ... unless the question has timed out.
ConfirmTimeout ==
    /\ page.confirm # NoRoom
    /\ page' = [page EXCEPT !.confirm = NoRoom]
    /\ UNCHANGED <<sessionVars, store>>

\* The server edits the directory for request i, about room r.  What it answers
\* to one that met an error is nothing to the page.
Served(i, r, rooms) ==
    /\ \/ /\ Announced(rooms)
          /\ page' = [page EXCEPT !.asked[i] = [@ EXCEPT !.room = r, !.stored = TRUE]]
       \/ Unannounced(rooms) /\ page' = Answered(i)
    /\ UNCHANGED sessionVars

CreateStored(i) ==
    /\ page.asked[i].op = "create" /\ ~page.asked[i].stored
    /\ \E r \in Unused : Served(i, r, Directory \cup {r})

DeleteStored(i) ==
    /\ page.asked[i].op = "delete" /\ ~page.asked[i].stored
    /\ page.asked[i].room \in Directory
    /\ Served(i, page.asked[i].room, Directory \ {page.asked[i].room})

\* addVoiceRoom and the rest of create: the list is loaded, without waiting for
\* it, and the page joins the room, a second time if the user was quicker:
\* `active` is still the one of the render in which the form was submitted.
CreateAnswers(i) ==
    /\ page.asked[i].op = "create" /\ page.asked[i].stored
    /\ page' = Loading(Answered(i))
    /\ Join(page.asked[i].room)
    /\ UNCHANGED store

\* removeVoiceRoom loads the list as well.
DeleteAnswers(i) ==
    /\ page.asked[i].op = "delete" /\ page.asked[i].stored
    /\ page' = Loading(Answered(i))
    /\ UNCHANGED <<sessionVars, store>>

\* A request is refused or fails, before or after the server did it.
RequestFails(i) ==
    /\ page' = Answered(i)
    /\ UNCHANGED <<sessionVars, store>>

ListStep ==
    \/ EditByOthers \/ (\E v \in news : PublishRooms(v)) \/ VoiceRoomsUpdated \/ LoadFirst
    \/ \E i \in DOMAIN page.gets : GetReads(i) \/ GetAnswers(i) \/ GetFails(i)
    \/ Disconnect \/ Reconnect \/ LeaveDeleted \/ ClickRoom
    \/ SubmitCreate \/ ClickDelete \/ ConfirmTimeout
    \/ \E i \in DOMAIN page.asked : \/ CreateStored(i) \/ DeleteStored(i)
                                    \/ CreateAnswers(i) \/ DeleteAnswers(i)
                                    \/ RequestFails(i)

\* The list, with all the sessions and meshes.
ChannelsNext == ListStep \/ (SessionNext /\ UNCHANGED <<store, page>>)

ChannelsSpec == ChannelsInit /\ [][ChannelsNext]_channelVars

-----------------------------------------------------------------------------
(* Properties.                                                              *)

ListIsQuiet ==
    /\ page.list # 0 /\ page.online
    /\ news = {} /\ page.events = <<>> /\ page.gets = <<>>

\* Once nothing is under way the page shows the directory as it is, after lost
\* WebSocket connections too.  It keeps an older list only if a GET failed; if an
\* answer or an event overtook newer news, as loadVoiceRooms and the order of
\* the events of two nodes let it (actions.js 5-27); or if the last edit was
\* reported as failed although it was stored: nothing is published then
\* (voice_rooms.go 100-104).
StaleOnlyByOvertaking ==
    ListIsQuiet =>
        page.list = Len(versions) \/ page.list < page.seen \/ page.missed \/ untold

\* "Leave automatically if the active room is deleted" (voice_channels.jsx 78):
\* the effect leaves no room that exists.
LeavesOnlyDeleted == [][LeaveDeleted => MyRoom \notin Directory]_channelVars
=============================================================================
