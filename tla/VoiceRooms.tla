------------------------------ MODULE VoiceRooms ------------------------------
(***************************************************************************)
(* The voice channel directory of server/voice_rooms.go: POST and DELETE    *)
(* requests on the nodes of a cluster edit one list in the KV store.        *)
(* updateRooms serialises the edits of a node with roomsLock and guards     *)
(* against the other nodes with an atomic compare-and-set, tried            *)
(* maxVoiceRoomCASTries times; the new list is then published over the      *)
(* WebSocket.  An action is one call of the plugin API or one lock step.    *)
(*                                                                          *)
(* The list is a set of rooms: room ids are never reused, and the stable    *)
(* sort keeps the order of two stored rooms, so equal bytes and equal sets  *)
(* are the same thing for the compare-and-set.                              *)
(***************************************************************************)
EXTENDS Naturals, FiniteSets

CONSTANTS
    Node,        \* plugin instances of the cluster
    Request,     \* POST and DELETE requests of authenticated users
    User, Admin, \* users, and those with PermissionManageSystem
    RoomId,      \* the ids newRoomID() may return
    MaxRooms,    \* maxVoiceRooms
    MaxTries,    \* maxVoiceRoomCASTries
    KVMayFail,   \* whether KVGet and KVSetWithOptions may return an error
    Absent,      \* the value of a key that was never set
    NoRequest    \* an unlocked roomsLock

ASSUME VoiceAssumption ==
    /\ MaxRooms \in Nat /\ MaxTries \in Nat \ {0}
    /\ KVMayFail \in BOOLEAN
    /\ NoRequest \notin Request
    /\ \A S \in SUBSET [id: RoomId, creator: User] : S # Absent

VARIABLES
    kv,         \* the stored list, or Absent
    lock,       \* the request that holds roomsLock of each node
    edit,       \* what each request asks for: op, room id and user
    at,         \* the node that serves it
    pc,         \* where it is in updateRooms
    old,        \* the list it loaded
    tries,      \* compare-and-sets it has lost
    answer,     \* how it was answered
    published   \* the list of the last WebSocket event

vars == <<kv, lock, edit, at, pc, old, tries, answer, published>>

Op == {"create", "delete"}
Edits == [op: Op, id: RoomId, user: User]
Room == [id: RoomId, creator: User]
Answer == {"ok", "too_many", "not_found", "not_allowed", "busy", "failed"}
Stored == {Absent} \cup SUBSET Room

\* loadRooms: a missing value is an empty list.
Rooms(v) == IF v = Absent THEN {} ELSE v

\* Mutants of the checks: the limit off by one, no permission check, an error
\* writeRoomError does not know.
RefusalOffByOne(R, e) ==
    CASE e.op = "create" /\ Cardinality(R) > MaxRooms -> "too_many"
      [] e.op = "delete" /\ (\A x \in R : x.id # e.id) -> "not_found"
      [] OTHER -> "none"
RefusalUnchecked(R, e) ==
    CASE e.op = "create" /\ Cardinality(R) >= MaxRooms -> "too_many"
      [] e.op = "delete" /\ (\A x \in R : x.id # e.id) -> "not_found"
      [] OTHER -> "none"
RefusalUnknown(R, e) ==
    CASE e.op = "create" /\ Cardinality(R) >= MaxRooms -> "full"
      [] OTHER -> "none"

\* The mutate callbacks of POST and DELETE: what is refused, ...
Refusal(R, e) ==
    CASE e.op = "create" /\ Cardinality(R) >= MaxRooms -> "too_many"
      [] e.op = "delete" /\ (\A x \in R : x.id # e.id) -> "not_found"
      [] e.op = "delete" /\ (\E x \in R : x.id = e.id)
         /\ (\A x \in R : x.id = e.id =>
                            x.creator # e.user /\ e.user \notin Admin) ->
            "not_allowed"
      [] OTHER -> "none"

\* ... and the list they return otherwise.
Edited(R, e) ==
    IF e.op = "create" THEN R \cup {[id |-> e.id, creator |-> e.user]}
    ELSE {x \in R : x.id # e.id}

Init ==
    /\ kv = Absent
    /\ lock = [n \in Node |-> NoRequest]
    /\ edit \in [Request -> Edits]
    \* every POST draws a room id of its own
    /\ \A r, q \in Request :
         r # q /\ edit[r].op = "create" /\ edit[q].op = "create"
             => edit[r].id # edit[q].id
    /\ at \in [Request -> Node]
    /\ pc = [r \in Request |-> "arrived"]
    /\ old = [r \in Request |-> Absent]
    /\ tries = [r \in Request |-> 0]
    /\ answer = [r \in Request |-> "none"]
    /\ published = Absent

Goto(r, label) == pc' = [pc EXCEPT ![r] = label]

\* Mutant: updateRooms without roomsLock.
LockShared(r) ==
    /\ pc[r] = "arrived"
    /\ Goto(r, "load")
    /\ UNCHANGED <<kv, lock, edit, at, old, tries, answer, published>>

\* roomsLock.Lock()
Lock(r) ==
    /\ pc[r] = "arrived" /\ lock[at[r]] = NoRequest
    /\ lock' = [lock EXCEPT ![at[r]] = r]
    /\ Goto(r, "load")
    /\ UNCHANGED <<kv, edit, at, old, tries, answer, published>>

\* Mutant: an early return that keeps the lock.
ReturnLocked(r, a) ==
    /\ answer' = [answer EXCEPT ![r] = a]
    /\ Goto(r, "done")
    /\ UNCHANGED <<lock, edit, at>>

\* Return from updateRooms: unlock and answer.
Return(r, a) ==
    /\ lock' = [lock EXCEPT ![at[r]] = NoRequest]
    /\ answer' = [answer EXCEPT ![r] = a]
    /\ Goto(r, "done")
    /\ UNCHANGED <<edit, at>>

\* KVGet and mutate.
Load(r) ==
    LET refusal == Refusal(Rooms(kv), edit[r]) IN
    /\ pc[r] = "load"
    /\ old' = [old EXCEPT ![r] = kv]
    /\ IF refusal # "none" THEN Return(r, refusal)
       ELSE Goto(r, "set") /\ UNCHANGED <<lock, edit, at, answer>>
    /\ UNCHANGED <<kv, tries, published>>

LoadFails(r) ==
    /\ KVMayFail /\ pc[r] = "load"
    /\ Return(r, "failed")
    /\ UNCHANGED <<kv, old, tries, published>>

\* Mutant: a plain KVSet, which overwrites what another node stored.
SetBlindly(r) ==
    /\ pc[r] = "set"
    /\ kv' = Edited(Rooms(old[r]), edit[r])
    /\ Goto(r, "publish")
    /\ UNCHANGED <<lock, edit, at, old, tries, answer, published>>

\* KVSetWithOptions{Atomic, OldValue: old} finds the value that was loaded.
CompareAndSet(r) ==
    /\ pc[r] = "set" /\ kv = old[r]
    /\ kv' = Edited(Rooms(old[r]), edit[r])
    /\ Goto(r, "publish")
    /\ UNCHANGED <<lock, edit, at, old, tries, answer, published>>

\* It finds another value: load again, or give up after MaxTries.
Conflict(r) ==
    /\ pc[r] = "set" /\ kv # old[r]
    /\ tries' = [tries EXCEPT ![r] = @ + 1]
    /\ IF tries[r] + 1 >= MaxTries THEN Return(r, "busy")
       ELSE Goto(r, "load") /\ UNCHANGED <<lock, edit, at, answer>>
    /\ UNCHANGED <<kv, old, published>>

\* It returns an error, before or after the store took the new value.
SetFails(r) ==
    /\ KVMayFail /\ pc[r] = "set"
    /\ \/ UNCHANGED kv
       \/ kv = old[r] /\ kv' = Edited(Rooms(old[r]), edit[r])
    /\ Return(r, "failed")
    /\ UNCHANGED <<old, tries, published>>

\* PublishWebSocketEvent with the list that was stored.
Publish(r) ==
    /\ pc[r] = "publish"
    /\ published' = Edited(Rooms(old[r]), edit[r])
    /\ Return(r, "ok")
    /\ UNCHANGED <<kv, old, tries>>

Step(r) == \/ Lock(r) \/ Load(r) \/ LoadFails(r) \/ CompareAndSet(r)
           \/ Conflict(r) \/ SetFails(r) \/ Publish(r)

Next == \E r \in Request : Step(r)

Spec == Init /\ [][Next]_vars

\* Every goroutine runs; sync.Mutex admits a waiter when it is unlocked.
Fairness == \A r \in Request : WF_vars(Step(r))

FairSpec == Spec /\ Fairness

-----------------------------------------------------------------------------
(* Properties.                                                              *)

TypeOK ==
    /\ kv \in Stored
    /\ lock \in [Node -> Request \cup {NoRequest}]
    /\ edit \in [Request -> Edits]
    /\ at \in [Request -> Node]
    /\ pc \in [Request -> {"arrived", "load", "set", "publish", "done"}]
    /\ old \in [Request -> Stored]
    /\ tries \in [Request -> 0 .. MaxTries]
    /\ answer \in [Request -> Answer \cup {"none"}]
    /\ published \in Stored

\* However many nodes create rooms at once, the directory keeps its limit of
\* maxVoiceRooms, which each POST checks against a list it loaded before.
DirectoryCap == Cardinality(Rooms(kv)) <= MaxRooms

Performed(r) == pc[r] = "publish" \/ answer[r] = "ok"

\* A delete of room id that may have taken effect.
DeleteMayHold(id) ==
    \E q \in Request : /\ edit[q].op = "delete" /\ edit[q].id = id
                       /\ Performed(q) \/ answer[q] = "failed"

\* "Concurrent edits from other cluster nodes are never lost" (voice_rooms.go:72):
\* a room whose creation succeeded is in the directory until a DELETE of it is
\* performed; a creation that was refused left nothing behind.
CreationsHold ==
    \A r \in Request : edit[r].op = "create" =>
        /\ Performed(r) /\ ~DeleteMayHold(edit[r].id) =>
              [id |-> edit[r].id, creator |-> edit[r].user] \in Rooms(kv)
        /\ answer[r] \in Answer \ {"ok", "failed"} =>
              \A x \in Rooms(kv) : x.id # edit[r].id

\* The same for deletions: a deleted room does not come back.
DeletionsHold ==
    \A r \in Request :
        edit[r].op = "delete" /\ Performed(r) =>
            \A x \in Rooms(kv) : x.id # edit[r].id

\* A room leaves the directory only by the DELETE of its creator or of a system
\* admin, although the permission was checked on an earlier copy of the list.
OnlyOwnersDelete ==
    [][\A x \in Room : x \in Rooms(kv) /\ x \notin Rooms(kv') =>
         \E r \in Request : /\ pc[r] = "set" /\ pc'[r] # "set"
                            /\ edit[r].op = "delete" /\ edit[r].id = x.id
                            /\ (edit[r].user = x.creator \/ edit[r].user \in Admin)
      ]_vars

\* When no edit is between its compare-and-set and its event, the last list
\* clients were sent is the stored one: "everyone sees the same list, which
\* updates live" (README.md:28).
Quiet == \A r \in Request : pc[r] # "publish"
AnnouncedIsCurrent == Quiet => published = kv

\* It is so on one node, where the event is published under roomsLock, unless
\* the store reported an error for an edit it made.
AnnouncedByOneNode ==
    /\ \A r, q \in Request : at[r] = at[q]
    /\ \A r \in Request : answer[r] # "failed"
    => AnnouncedIsCurrent

\* Every request is answered: the lock is always released and the retries end.
RequestsAnswered == \A r \in Request : <>(pc[r] = "done")

Directory == INSTANCE VoiceDirectory WITH
    rooms <- Rooms(kv),
    answer <- [r \in Request |-> IF pc[r] = "publish" THEN "ok" ELSE answer[r]]

\* The compare-and-set implements the atomic directory.
RefinesDirectory == Directory!Spec
===============================================================================
