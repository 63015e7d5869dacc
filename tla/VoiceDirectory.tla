---------------------------- MODULE VoiceDirectory ----------------------------
(***************************************************************************)
(* What the voice channel directory promises: every edit of the room list   *)
(* happens at one instant, against the list of that instant, and is then    *)
(* answered.  "Concurrent edits ... are never lost" (voice_rooms.go).       *)
(***************************************************************************)
EXTENDS Naturals, FiniteSets

CONSTANTS Request, User, Admin, RoomId, MaxRooms, KVMayFail

Op == {"create", "delete"}
Edits == [op: Op, id: RoomId, user: User]
Room == [id: RoomId, creator: User]
Answer == {"ok", "too_many", "not_found", "not_allowed", "busy", "failed"}

VARIABLES
    rooms,   \* the rooms of the directory
    edit,    \* the edit each request asks for
    answer   \* how it was answered, "none" until then

vars == <<rooms, edit, answer>>

\* The list after the edit e.
Edited(R, e) ==
    IF e.op = "create" THEN R \cup {[id |-> e.id, creator |-> e.user]}
    ELSE {x \in R : x.id # e.id}

MayDelete(R, e) ==
    \E x \in R : x.id = e.id /\ (x.creator = e.user \/ e.user \in Admin)

\* The refusals that are true of the list R.
Refusal(R, e) ==
    CASE e.op = "create" /\ Cardinality(R) >= MaxRooms -> "too_many"
      [] e.op = "delete" /\ ~\E x \in R : x.id = e.id -> "not_found"
      [] e.op = "delete" /\ (\E x \in R : x.id = e.id) /\ ~MayDelete(R, e) ->
            "not_allowed"
      [] OTHER -> "none"

Init ==
    /\ rooms = {}
    /\ edit \in [Request -> Edits]
    /\ answer = [r \in Request |-> "none"]

Reply(r, a) ==
    /\ answer[r] = "none"
    /\ answer' = [answer EXCEPT ![r] = a]
    /\ UNCHANGED edit

Apply(r) ==
    /\ Refusal(rooms, edit[r]) = "none"
    /\ rooms' = Edited(rooms, edit[r])
    /\ Reply(r, "ok")

Refuse(r) ==
    /\ Refusal(rooms, edit[r]) # "none"
    /\ Reply(r, Refusal(rooms, edit[r]))
    /\ UNCHANGED rooms

\* Too many conflicts: the edit did not happen.
Busy(r) == Reply(r, "busy") /\ UNCHANGED rooms

\* The store failed: the edit may or may not have happened.
Fail(r) ==
    /\ KVMayFail
    /\ Reply(r, "failed")
    /\ \/ UNCHANGED rooms
       \/ Refusal(rooms, edit[r]) = "none" /\ rooms' = Edited(rooms, edit[r])

Next == \E r \in Request : Apply(r) \/ Refuse(r) \/ Busy(r) \/ Fail(r)

Spec == Init /\ [][Next]_vars
===============================================================================
