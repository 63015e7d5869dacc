----------------------------- MODULE ScreenShare -----------------------------
(***************************************************************************)
(* Screen sharing in a call (call/controller.js), on top of the connection  *)
(* of Peer: toggleScreenShare and stopScreenShare across their awaits.  In  *)
(* a video call the screen takes the place of the camera in its sender; in  *)
(* an audio call it is a track of its own, which is negotiated.             *)
(***************************************************************************)
EXTENDS Peer

CONSTANTS
    Screens,    \* Screens[e]: the screens the user of e may capture
    Camera,     \* the ends that send a camera (s.cameraTrack)
    Cam,        \* the camera track
    NoTrack     \* no screen track

ASSUME ScreenAssumption ==
    /\ Screens \in [End -> SUBSET Track] /\ Camera \subseteq End
    /\ NoTrack \notin Track /\ Cam \notin Track \cup {NoTrack}

VARIABLES
    call,      \* of each end: its session and what it shows
    capture    \* the screen captures of each end

shareVars == <<call, capture>>

(* A capture is "free" until it is asked for, "asking" while getScreen() is *)
(* awaited, "replacing" or "restoring" while replaceTrack is, then "live" or *)
(* "stopped".  One that the browser ends while nobody listens is "cut" until *)
(* its replaceTrack settles, and "dead" while the session takes it for live. *)

ScreenInit ==
    /\ Init
    /\ call = [e \in End |-> [
          ended |-> FALSE,        \* s.ended
          screen |-> NoTrack,     \* s.screenTrack
          sharing |-> FALSE,      \* screenSharing of the call window
          sender |-> {Cam},       \* keys of peer.senders for the camera's sender
          raced |-> FALSE]]       \* history: a step met a pending replaceTrack
                                  \* or a second click
    /\ capture = [e \in End |-> [t \in Track |-> "free"]]

\* s.peer: set by the mesh's 'peer' event, cleared by 'disconnect'.
HasPeer(e) == ~call[e].ended /\ Live(e) /\ peer[e].connected

Pending(e, states) == \E t \in Track : capture[e][t] \in states

SetCapture(e, t, state) == capture' = [capture EXCEPT ![e][t] = state]

\* toggleScreenShare up to its prompt.
ToggleOn(e) ==
    /\ HasPeer(e) /\ call[e].screen = NoTrack
    /\ \E t \in Screens[e] : capture[e][t] = "free" /\ SetCapture(e, t, "asking")
    /\ call' = [call EXCEPT ![e].raced =
                  @ \/ Pending(e, {"asking", "replacing", "cut", "restoring"})]
    /\ UNCHANGED vars

PromptDenied(e, t) ==
    /\ capture[e][t] = "asking"
    /\ SetCapture(e, t, "stopped")
    /\ UNCHANGED <<vars, call>>

\* Mutant: the track is used whatever happened during the prompt.
PromptGrantedAnyway(e, t) ==
    /\ capture[e][t] = "asking" /\ e \notin Camera
    /\ SetCapture(e, t, "live")
    /\ call' = [call EXCEPT ![e].screen = t, ![e].sharing = TRUE]
    /\ AddTrack(e, t)

\* The rest of it, with the captured track.
PromptGranted(e, t) ==
    /\ capture[e][t] = "asking"
    /\ \/ /\ ~HasPeer(e) \/ (e \in Camera /\ Cam \notin call[e].sender)
          /\ SetCapture(e, t, "stopped")
          /\ UNCHANGED <<vars, call>>
       \/ /\ HasPeer(e) /\ e \in Camera /\ Cam \in call[e].sender
          /\ SetCapture(e, t, "replacing")
          /\ UNCHANGED <<vars, call>>
       \/ /\ HasPeer(e) /\ e \notin Camera
          /\ SetCapture(e, t, "live")
          /\ call' = [call EXCEPT ![e].screen = t, ![e].sharing = TRUE]
          /\ AddTrack(e, t)

\* replaceTrack(camera, t) resolves, even if the call is over by then.
Replaced(e, t) ==
    /\ capture[e][t] \in {"replacing", "cut"}
    /\ SetCapture(e, t, IF capture[e][t] = "cut" THEN "dead" ELSE "live")
    /\ call' = [call EXCEPT ![e].screen = t, ![e].sharing = @ \/ ~call[e].ended,
                            ![e].sender = (@ \ {Cam}) \cup {t}]
    /\ UNCHANGED vars

\* It rejects: the connection was closed.
ReplaceFails(e, t) ==
    /\ capture[e][t] \in {"replacing", "cut"} /\ ~Live(e)
    /\ SetCapture(e, t, "stopped")
    /\ UNCHANGED <<vars, call>>

\* stopScreenShare, when the captures are cap: to its await, or to its end
\* when there is nothing to await.
StopScreen(e, cap) ==
    LET t == call[e].screen IN
    IF t = NoTrack THEN capture' = cap /\ UNCHANGED <<vars, call>>
    ELSE IF HasPeer(e) /\ e \in Camera /\ t \in call[e].sender
    THEN /\ call' = [call EXCEPT ![e].screen = NoTrack]
         /\ capture' = [cap EXCEPT ![e][t] = "restoring"]
         /\ UNCHANGED vars
    ELSE /\ call' = [call EXCEPT ![e].screen = NoTrack,
                                 ![e].sharing = @ /\ call[e].ended]
         /\ capture' = [cap EXCEPT ![e][t] = "stopped"]
         /\ IF HasPeer(e) /\ e \notin Camera THEN RemoveTrack(e, t)
            ELSE UNCHANGED vars

\* The Stop button: toggleScreenShare of a session that shares, ...
ToggleOff(e) ==
    /\ HasPeer(e) /\ call[e].screen # NoTrack
    /\ StopScreen(e, capture)

\* ... and the browser's own: the 'ended' event of a track, which stops the
\* screen that is shown by then.
TrackEnded(e, t) ==
    \/ /\ capture[e][t] = "live"
       /\ StopScreen(e, [capture EXCEPT ![e][t] = "stopped"])
    \/ capture[e][t] = "restoring" /\ StopScreen(e, capture)

\* The listener for it is added after replaceTrack: an earlier event is lost.
TrackEndsUnheard(e, t) ==
    /\ capture[e][t] = "replacing"
    /\ SetCapture(e, t, "cut")
    /\ UNCHANGED <<vars, call>>

\* replaceTrack(t, camera) settles; the capture is stopped either way.
Restored(e, t) ==
    /\ capture[e][t] = "restoring"
    /\ SetCapture(e, t, "stopped")
    /\ call' = [call EXCEPT ![e].sharing = @ /\ call[e].ended,
                            ![e].sender = (@ \ {t}) \cup {Cam}]
    /\ UNCHANGED vars

\* What teardown and the end of a connection may race with.
Races(e) == Pending(e, {"replacing", "cut", "restoring"})

\* teardown(s).
EndSession(e) ==
    /\ ~call[e].ended
    /\ call' = [call EXCEPT ![e].ended = TRUE, ![e].screen = NoTrack,
                            ![e].raced = @ \/ Races(e)]
    /\ capture' = [capture EXCEPT ![e] = [t \in Track |->
          IF t = call[e].screen THEN "stopped" ELSE @[t]]]
    /\ IF Live(e) THEN Destroy(e) ELSE UNCHANGED vars

\* A step A of the connection below.
Below(A) ==
    /\ A
    /\ call' = [e \in End |-> [call[e] EXCEPT !.raced =
                  @ \/ (Live(e) /\ ~Live(e)' /\ Races(e))]]
    /\ UNCHANGED capture

Controls(e) ==
    \/ ToggleOn(e) \/ ToggleOff(e) \/ EndSession(e)
    \/ \E t \in Track : \/ PromptDenied(e, t) \/ PromptGranted(e, t)
                        \/ Replaced(e, t) \/ ReplaceFails(e, t)
                        \/ TrackEnded(e, t) \/ TrackEndsUnheard(e, t)
                        \/ Restored(e, t)

ScreenNext == Below(Next) \/ \E e \in End : Controls(e)

ScreenSpec == ScreenInit /\ [][ScreenNext]_<<vars, shareVars>>

\* The fairness of the connection below; nothing is assumed of the users.
ScreenFairSpec == ScreenSpec /\ \A e \in End :
    /\ WF_<<vars, shareVars>>(Below(Progress(e)))
    /\ WF_<<vars, shareVars>>(Below(RecoverTimeout(e)))
    /\ WF_<<vars, shareVars>>(Below(ConnectTimeout(e)))

-----------------------------------------------------------------------------
(* Properties.                                                              *)

\* The values of the session's fields.
ScreenTypeOK ==
    /\ TypeOK
    /\ call \in [End -> [ended: BOOLEAN, screen: Track \cup {NoTrack},
                         sharing: BOOLEAN, sender: SUBSET (Track \cup {Cam}),
                         raced: BOOLEAN]]
    /\ capture \in [End -> [Track ->
          {"free", "asking", "replacing", "cut", "live", "dead", "restoring",
           "stopped"}]]

\* A captured screen belongs to the session that shows it, and is stopped with
\* it; and the call window says that a screen is shared exactly while one is
\* live, is being taken back, or was ended by the browser before anybody listened
\* (its listener, 582, is added after the await of 572: nothing but the Stop
\* button ends that).  Two more windows of toggleScreenShare and stopScreenShare
\* (547-612), which do not look again after their await of replaceTrack, are
\* what raced records: the session or its connection ends during it, or a second
\* click comes before the first was done.
OrphansOnlyByRace ==
    \A e \in End : ~call[e].raced =>
        /\ \A t \in Track :
              /\ capture[e][t] \in {"replacing", "cut", "live", "dead", "restoring"} =>
                    ~call[e].ended
              /\ capture[e][t] \in {"live", "dead"} => call[e].screen = t
        /\ ~call[e].ended =>
              (call[e].sharing <=> Pending(e, {"live", "dead", "restoring"}))
=============================================================================
