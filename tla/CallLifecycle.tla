----------------------------- MODULE CallLifecycle -----------------------------
(***************************************************************************)
(* What a tab promises its user: the life of the one call it shows.  The    *)
(* statuses and the directions are those documented in reducers/index.js.   *)
(* A call rings, connects, and may then lose and regain its connection; it  *)
(* ends once, and only a call with another id can follow it.                *)
(***************************************************************************)
CONSTANTS Client, CallId, NoId

VARIABLES
    shown,      \* the id of the call a tab shows, NoId for none
    direction,  \* who dialled it
    status      \* "none" when no call is shown

vars == <<shown, direction, status>>

Live == {"ringing", "connecting", "active", "reconnecting"}

Init ==
    /\ shown = [c \in Client |-> NoId]
    /\ direction = [c \in Client |-> "none"]
    /\ status = [c \in Client |-> "none"]

Begin(c) ==
    /\ status[c] \notin Live
    /\ \E id \in CallId \ {shown[c]}, dir \in {"outgoing", "incoming"} :
        /\ shown' = [shown EXCEPT ![c] = id]
        /\ direction' = [direction EXCEPT ![c] = dir]
    /\ status' = [status EXCEPT ![c] = "ringing"]

Move(c, from, to) ==
    /\ status[c] \in from
    /\ status' = [status EXCEPT ![c] = to]
    /\ UNCHANGED <<shown, direction>>

Answer(c) == Move(c, {"ringing"}, "connecting")
Connect(c) == Move(c, {"connecting", "reconnecting"}, "active")
Disconnect(c) == Move(c, {"active"}, "reconnecting")
End(c) == Move(c, Live, "ended")

\* The window closes, at once or from the "ended" screen.
Close(c) ==
    /\ shown[c] # NoId
    /\ shown' = [shown EXCEPT ![c] = NoId]
    /\ direction' = [direction EXCEPT ![c] = "none"]
    /\ status' = [status EXCEPT ![c] = "none"]

Next == \E c \in Client : \/ Begin(c) \/ Answer(c) \/ Connect(c)
                          \/ Disconnect(c) \/ End(c) \/ Close(c)

Spec == Init /\ [][Next]_vars
===============================================================================
