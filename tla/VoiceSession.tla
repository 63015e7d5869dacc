---------------------------- MODULE VoiceSession ----------------------------
(***************************************************************************)
(* voice/session.js and voice/manager.js: the voice sessions of some users,  *)
(* each on a Mesh in the namespace of its room.  A session is named by the   *)
(* mesh id it will have.  The microphone prompt, the connections, the state  *)
(* messages on the data channels and the clicks interleave.                  *)
(***************************************************************************)
EXTENDS Mesh, Sequences

CONSTANTS
    User,       \* users, each with one page
    SessionsOf, \* SessionsOf[u]: the ids of the sessions of u
    NoSession

ASSUME SessionAssumption ==
    /\ SessionsOf \in [User -> SUBSET Id] /\ NoSession \notin Id
    /\ \A u, v \in User : u # v => SessionsOf[u] \cap SessionsOf[v] = {}

VARIABLES
    current,    \* of each user: the active session of the manager
    voice,      \* the VoiceSession objects
    entry,      \* entry[m][n]: what session m keeps for its connected peer n
    wire        \* wire[m][n]: state messages from m to n

voiceVars == <<current, voice, entry, wire>>
sessionVars == <<meshVars, voiceVars>>

\* What handleDisconnect and cleanupPeer leave, and what handlePeer starts with.
NoEntry == [shown |-> "absent", audio |-> "none"]
NewEntry == [shown |-> "muted", audio |-> "none"]

SessionInit ==
    /\ MeshInit
    /\ current = [u \in User |-> NoSession]
    /\ voice = [m \in Id |-> [
          room |-> NoNamespace, closed |-> FALSE,
          mic |-> "none",       \* "asking", "live", "stopped", or there is none
          muted |-> TRUE, deafened |-> FALSE]]
    /\ entry = [m \in Id |-> [n \in Id |-> NoEntry]]
    /\ wire = [m \in Id |-> [n \in Id |-> <<>>]]

Connected(peer) == peer \in {"up", "gone"}

\* The mesh's 'peer' and 'disconnect' events: an entry comes and goes with the
\* connection, and a new peer is told the own state (when that is news to it).
FollowMesh ==
    /\ entry' = [m \in Id |-> [n \in Id |->
          IF ~Connected(peers'[m][n]) THEN NoEntry
          ELSE IF Connected(peers[m][n]) THEN entry[m][n] ELSE NewEntry]]
    /\ wire' = [m \in Id |-> [n \in Id |->
          IF peers'[m][n] # "up" \/ peers'[n][m] \notin {"new", "up"} THEN <<>>
          ELSE IF peers[m][n] = "new" /\ ~voice[m].muted THEN <<FALSE>>
          ELSE wire[m][n]]]

\* A step A of the mesh.
InMesh(A) == A /\ FollowMesh /\ UNCHANGED <<current, voice>>

\* leave() of session m: its stream is stopped; one that is asked for is not
\* there yet.
LeftVoice(m) == [voice EXCEPT ![m].closed = TRUE,
                              ![m].mic = IF @ = "live" THEN "stopped" ELSE @]

\* session.leave() of the active session of u, if there is one, with its mesh.
Leave(u) ==
    LET m == current[u] IN
    IF m # NoSession /\ IsOpen(m) THEN Closed(m) /\ FollowMesh
    ELSE UNCHANGED <<meshVars, entry, wire>>

\* leaveVoiceRoom: the button, the page's end, or the effect of the room list.
LeaveVoiceRoom(u) ==
    /\ current[u] # NoSession
    /\ Leave(u)
    /\ voice' = LeftVoice(current[u])
    /\ current' = [current EXCEPT ![u] = NoSession]

\* joinVoiceRoom with a new session m, up to its microphone prompt.
JoinVoiceRoom(u, r, m) ==
    /\ m \in SessionsOf[u] /\ voice[m].room = NoNamespace
    /\ Leave(u)
    /\ voice' = [IF current[u] = NoSession THEN voice ELSE LeftVoice(current[u])
                 EXCEPT ![m].room = r, ![m].mic = "asking"]
    /\ current' = [current EXCEPT ![u] = m]

\* Mutant: the prompt is answered after the user left, and nobody looks.
MicrophoneSettlesBlindly(m, mic) ==
    /\ voice[m].mic = "asking"
    /\ voice' = [voice EXCEPT ![m].mic = mic]
    /\ Open(m, voice[m].room)
    /\ UNCHANGED <<current, entry, wire>>

\* The rest of join(): the microphone is granted ("live") or refused ("none"),
\* and unless the session was left meanwhile its mesh opens either way.
MicrophoneSettles(m, mic) ==
    /\ voice[m].mic = "asking"
    /\ \/ /\ voice[m].closed
          /\ voice' = [voice EXCEPT ![m].mic = IF mic = "live" THEN "stopped" ELSE mic]
          /\ UNCHANGED meshVars
       \/ /\ ~voice[m].closed
          /\ voice' = [voice EXCEPT ![m].mic = mic]
          /\ Open(m, voice[m].room)
    /\ UNCHANGED <<current, entry, wire>>

\* sendState to all peers, on channels that are open.
SendState(m, muted) ==
    wire' = [wire EXCEPT ![m] = [n \in Id |->
               IF peers[m][n] = "up" /\ peers[n][m] \in {"new", "up"}
               THEN Append(wire[m][n], muted) ELSE wire[m][n]]]

\* Mutant: the track is switched, the others are not told.
SetMutedSilently(m) ==
    /\ IsOpen(m) /\ voice[m].mic = "live"
    /\ voice' = [voice EXCEPT ![m].muted = ~@]
    /\ UNCHANGED <<meshVars, current, entry, wire>>

\* setMuted, of the other value.
SetMuted(m) ==
    /\ IsOpen(m) /\ voice[m].mic = "live"
    /\ voice' = [voice EXCEPT ![m].muted = ~@]
    /\ SendState(m, voice'[m].muted)
    /\ UNCHANGED <<meshVars, current, entry>>

\* setDeafened, of the other value: turning sound off mutes as well.
SetDeafened(m) ==
    LET deaf == ~voice[m].deafened IN
    /\ voice[m].room # NoNamespace /\ ~voice[m].closed
   
    /\ voice' = [voice EXCEPT ![m].deafened = deaf, ![m].muted = @ \/ deaf]
    /\ entry' = [entry EXCEPT ![m] = [n \in Id |-> [entry[m][n] EXCEPT !.audio =
                    IF @ = "none" THEN @ ELSE IF deaf THEN "silent" ELSE "on"]]]
    /\ IF deaf /\ ~voice[m].muted THEN SendState(m, TRUE) ELSE UNCHANGED wire
    /\ UNCHANGED <<meshVars, current>>

\* Mutant: new audio elements do not know of setDeafened.
AttachLoud(m, n) ==
    /\ entry[m][n] # NoEntry /\ entry[m][n].audio = "none"
    /\ entry' = [entry EXCEPT ![m][n].audio = "on"]
    /\ UNCHANGED <<meshVars, current, voice, wire>>

\* attach, when the stream of a peer arrives.
Attach(m, n) ==
    /\ entry[m][n] # NoEntry /\ entry[m][n].audio = "none"
    /\ entry' = [entry EXCEPT ![m][n].audio = IF voice[m].deafened THEN "silent" ELSE "on"]
    /\ UNCHANGED <<meshVars, current, voice, wire>>

\* A state message from n: nobody listens before the own Peer has connected.
ReceiveState(m, n) ==
    /\ wire[n][m] # <<>>
    /\ wire' = [wire EXCEPT ![n][m] = Tail(@)]
    /\ entry' = [entry EXCEPT ![m][n].shown =
          IF @ = "absent" THEN @ ELSE IF Head(wire[n][m]) THEN "muted" ELSE "live"]
    /\ UNCHANGED <<meshVars, current, voice>>

VoiceStep ==
    \/ \E u \in User : \/ LeaveVoiceRoom(u)
                       \/ \E r \in Namespace, m \in Id : JoinVoiceRoom(u, r, m)
    \/ \E m \in Id : \/ \E mic \in {"live", "none"} : MicrophoneSettles(m, mic)
                     \/ SetMuted(m) \/ SetDeafened(m)
                     \/ \E n \in Id : Attach(m, n) \/ ReceiveState(m, n)

\* The sessions and meshes by themselves, whatever the network does.
SessionNext == VoiceStep \/ InMesh(MeshStep) \/ InMesh(\E msg \in net : Lose(msg))

SessionSpec == SessionInit /\ [][SessionNext]_sessionVars

-----------------------------------------------------------------------------
(* Properties.                                                              *)

VoiceTypeOK ==
    /\ MeshTypeOK /\ PlacesKept
    /\ current \in [User -> Id \cup {NoSession}]
    /\ voice \in [Id -> [room: Namespace \cup {NoNamespace}, closed: BOOLEAN,
                         mic: {"none", "asking", "live", "stopped"},
                         muted: BOOLEAN, deafened: BOOLEAN]]
    /\ entry \in [Id -> [Id -> [shown: {"absent", "muted", "live"},
                                audio: {"none", "on", "silent"}]]]
    /\ \A m, n \in Id : wire[m][n] \in Seq(BOOLEAN)

\* A microphone is live, and a mesh open, only for the active session of its
\* user, however leaving and switching rooms meet the prompt (51-79, 177-196;
\* manager.js 20-46): nobody is heard in a room they have left.
MicFollowsSession ==
    \A u \in User : \A m \in SessionsOf[u] :
        (voice[m].mic = "live" \/ IsOpen(m)) =>
            /\ current[u] = m /\ ~voice[m].closed
            /\ namespace[m] = voice[m].room

\* Who turned the sound off hears nobody, also those whose stream came later
\* (attach and setDeafened, 91-103, 165-175).
DeafIsSilent ==
    \A m, n \in Id : voice[m].deafened => entry[m][n].audio # "on"

\* A participant is shown live only while unmuted, or while the news are under
\* way or can no longer come ('data' and sendState, 107-116, 142-152).
ShownLiveIsLive ==
    \A m, n \in Id : entry[m][n].shown = "live" =>
        ~voice[n].muted \/ wire[n][m] # <<>> \/ peers[m][n] = "gone"
=============================================================================
