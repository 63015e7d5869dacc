--------------------------- MODULE VoiceRoomsProofs ---------------------------
(* Proofs about the voice channel directory of module VoiceRooms, for any   *)
(* number of nodes, requests, rooms and retries.                            *)
EXTENDS VoiceRooms, FiniteSetTheorems, TLAPS

Holds(r) == pc[r] \in {"load", "set", "publish"}

\* A create of r that may have taken effect.
MayHaveCreated(r) ==
    edit[r].op = "create" /\ (Performed(r) \/ answer[r] = "failed")

(* The inductive invariant: who holds roomsLock, ...                        *)
LockHeld  == \A r \in Request : Holds(r) <=> lock[at[r]] = r
Progress  == \A r \in Request : /\ pc[r] = "done" <=> answer[r] # "none"
                                /\ pc[r] # "done" => tries[r] < MaxTries
(* ... that an edit about to be stored was allowed by the list it read, ... *)
Checked   == \A r \in Request :
                pc[r] = "set" => Refusal(Rooms(old[r]), edit[r]) = "none"
(* ... that each room comes from the one POST that drew its id, ...         *)
FreshIds  == \A r, q \in Request :
                r # q /\ edit[r].op = "create" /\ edit[q].op = "create"
                    => edit[r].id # edit[q].id
Created   == \A x \in Rooms(kv) : \E r \in Request :
                /\ MayHaveCreated(r)
                /\ x = [id |-> edit[r].id, creator |-> edit[r].user]
Deleted   == \A r \in Request : edit[r].op = "delete" /\ Performed(r) =>
                \E q \in Request : MayHaveCreated(q) /\ edit[q].id = edit[r].id
(* ... and that on one node only the holder of the lock has news.           *)
Announced ==
    /\ \A r, q \in Request : at[r] = at[q]
    /\ \A r \in Request : answer[r] # "failed"
    => \/ published = kv /\ \A r \in Request : pc[r] # "publish"
       \/ \E r \in Request : pc[r] = "publish"
                             /\ kv = Edited(Rooms(old[r]), edit[r])

IInv ==
    /\ TypeOK /\ LockHeld /\ Progress /\ Checked
    /\ FreshIds /\ Created /\ Deleted /\ Announced
    /\ IsFiniteSet(Rooms(kv)) /\ DirectoryCap
    /\ CreationsHold /\ DeletionsHold

-----------------------------------------------------------------------------
(* Facts about the edits.                                                   *)

LEMMA RoomsTyped ==
    ASSUME NEW v \in Stored PROVE Rooms(v) \in SUBSET Room
BY DEF Rooms, Stored

LEMMA RoomsOfList ==
    ASSUME NEW R \in SUBSET Room PROVE Rooms(R) = R
BY VoiceAssumption DEF Rooms, Room

LEMMA EditedTyped ==
    ASSUME NEW R \in SUBSET Room, NEW e \in Edits
    PROVE  Edited(R, e) \in SUBSET Room
BY DEF Edited, Room, Edits

LEMMA RefusalTyped ==
    ASSUME NEW R, NEW e, Refusal(R, e) # "none"
    PROVE  Refusal(R, e) \in {"too_many", "not_found", "not_allowed"}
BY DEF Refusal

LEMMA CreateAllowed ==
    ASSUME NEW R, NEW e, Refusal(R, e) = "none", e.op = "create"
    PROVE  ~(Cardinality(R) >= MaxRooms)
BY DEF Refusal

LEMMA DeleteAllowed ==
    ASSUME NEW R, NEW e, Refusal(R, e) = "none", e.op = "delete"
    PROVE  /\ \E x \in R : x.id = e.id
           /\ \E x \in R : /\ x.id = e.id
                           /\ x.creator = e.user \/ e.user \in Admin
<1>1. ~(e.op = "delete" /\ \A x \in R : x.id # e.id)
  BY DEF Refusal
<1>2. ~(/\ e.op = "delete" /\ (\E x \in R : x.id = e.id)
        /\ \A x \in R : x.id = e.id =>
                           x.creator # e.user /\ e.user \notin Admin)
  BY <1>1 DEF Refusal
<1> QED BY <1>1, <1>2

\* An allowed edit keeps the list finite and within its limit.
LEMMA EditedCap ==
    ASSUME NEW R, NEW e \in Edits, IsFiniteSet(R), Cardinality(R) <= MaxRooms,
           Refusal(R, e) = "none"
    PROVE  IsFiniteSet(Edited(R, e)) /\ Cardinality(Edited(R, e)) <= MaxRooms
<1>1. MaxRooms \in Nat /\ Cardinality(R) \in Nat
  BY VoiceAssumption, FS_CardinalityType
<1>2. CASE e.op = "create"
  <2> DEFINE x == [id |-> e.id, creator |-> e.user]
  <2>1. Edited(R, e) = R \cup {x}
    BY <1>2 DEF Edited
  <2>2. Cardinality(R) < MaxRooms
    BY <1>1, <1>2, CreateAllowed
  <2>3. /\ IsFiniteSet(R \cup {x})
        /\ Cardinality(R \cup {x}) =
              IF x \in R THEN Cardinality(R) ELSE Cardinality(R) + 1
    BY FS_AddElement
  <2> HIDE DEF x
  <2> QED BY <1>1, <2>1, <2>2, <2>3
<1>3. CASE e.op # "create"
  <2>1. Edited(R, e) \in SUBSET R
    BY <1>3 DEF Edited
  <2>2. /\ IsFiniteSet(Edited(R, e))
        /\ Cardinality(Edited(R, e)) <= Cardinality(R)
    BY <2>1, FS_Subset
  <2>3. Cardinality(Edited(R, e)) \in Nat
    BY <2>2, FS_CardinalityType
  <2> QED BY <1>1, <2>2, <2>3
<1> QED BY <1>2, <1>3

-----------------------------------------------------------------------------
(* The control of the requests.                                             *)

\* The compare-and-set of r, whether or not r hears of it.
Stores(r) ==
    /\ pc[r] = "set" /\ kv = old[r]
    /\ kv' = Edited(Rooms(old[r]), edit[r])

LEMMA StoreFacts ==
    ASSUME IInv, NEW r \in Request, Stores(r)
    PROVE  /\ Rooms(kv) \in SUBSET Room /\ edit[r] \in Edits
           /\ Rooms(kv') = Edited(Rooms(kv), edit[r])
           /\ kv' \in Stored
           /\ Refusal(Rooms(kv), edit[r]) = "none"
<1>1. Rooms(kv) \in SUBSET Room /\ edit[r] \in Edits
  BY RoomsTyped DEF IInv, TypeOK
<1>2. kv' \in SUBSET Room
  BY <1>1, EditedTyped DEF Stores
<1>3. Refusal(Rooms(kv), edit[r]) = "none"
  BY DEF IInv, Checked, Stores
<1> QED BY <1>1, <1>2, <1>3, RoomsOfList DEF Stores, Stored

Control == TypeOK /\ LockHeld /\ Progress /\ Checked /\ FreshIds

LEMMA ControlStep ==
    ASSUME IInv, NEW r \in Request, Step(r)
    PROVE  Control'
<1>0. TypeOK /\ LockHeld /\ Progress /\ Checked /\ FreshIds
  BY DEF IInv
<1>1. NoRequest \notin Request /\ MaxTries \in Nat /\ 0 < MaxTries
  BY VoiceAssumption
<1>2. UNCHANGED <<edit, at>> /\ FreshIds'
  BY <1>0 DEF Step, Lock, Load, LoadFails, CompareAndSet, Conflict, SetFails,
              Publish, Return, FreshIds
<1>3. CASE Lock(r)
  <2>1. TypeOK'
    BY <1>0, <1>3 DEF Lock, Goto, TypeOK
  <2>2. LockHeld'
    BY <1>0, <1>1, <1>3 DEF Lock, Goto, TypeOK, LockHeld, Holds
  <2>3. Progress' /\ Checked'
    BY <1>0, <1>3 DEF Lock, Goto, TypeOK, Progress, Checked
  <2> QED BY <1>2, <2>1, <2>2, <2>3 DEF Control
<1>4. ASSUME NEW a \in Answer, Holds(r), Return(r, a)
      PROVE  /\ lock' \in [Node -> Request \cup {NoRequest}]
             /\ answer' \in [Request -> Answer \cup {"none"}]
             /\ pc' \in [Request -> {"arrived", "load", "set", "publish", "done"}]
             /\ LockHeld'
             /\ \A q \in Request : pc'[q] = "done" <=> answer'[q] # "none"
             /\ \A q \in Request : pc'[q] # "done" => pc'[q] = pc[q]
  BY <1>0, <1>1, <1>4
     DEF Return, Goto, TypeOK, LockHeld, Holds, Progress, Answer
<1>5. CASE Load(r)
  <2> DEFINE refusal == Refusal(Rooms(kv), edit[r])
  <2>1. old' = [old EXCEPT ![r] = kv] /\ pc[r] = "load"
        /\ UNCHANGED <<kv, tries, published>>
    BY <1>5 DEF Load
  <2>2. CASE refusal # "none"
    <3>1. Return(r, refusal) /\ refusal \in Answer
      BY <1>5, <2>2, RefusalTyped DEF Load, Answer
    <3>2. /\ lock' \in [Node -> Request \cup {NoRequest}]
          /\ answer' \in [Request -> Answer \cup {"none"}]
          /\ pc' \in [Request -> {"arrived", "load", "set", "publish", "done"}]
          /\ LockHeld'
          /\ \A q \in Request : pc'[q] = "done" <=> answer'[q] # "none"
          /\ \A q \in Request : pc'[q] # "done" => pc'[q] = pc[q]
      BY <1>4, <2>1, <3>1 DEF Holds
    <3>3. TypeOK'
      BY <1>0, <1>2, <2>1, <3>2 DEF TypeOK
    <3>4. Progress' /\ Checked'
      BY <1>0, <1>2, <2>1, <3>2 DEF Progress, Checked, TypeOK
    <3> QED BY <1>2, <3>2, <3>3, <3>4 DEF Control
  <2>3. CASE refusal = "none"
    <3>1. pc' = [pc EXCEPT ![r] = "set"] /\ UNCHANGED <<lock, answer>>
      BY <1>5, <2>3 DEF Load, Goto
    <3>2. TypeOK' /\ LockHeld'
      BY <1>0, <1>2, <2>1, <3>1 DEF TypeOK, LockHeld, Holds
    <3>3. Progress'
      BY <1>0, <2>1, <3>1 DEF Progress, TypeOK
    <3>4. Checked'
      BY <1>0, <1>2, <2>1, <2>3, <3>1 DEF Checked, TypeOK
    <3> QED BY <1>2, <3>2, <3>3, <3>4 DEF Control
  <2> QED BY <2>2, <2>3
<1>6. CASE CompareAndSet(r)
  <2>1. pc' = [pc EXCEPT ![r] = "publish"] /\ pc[r] = "set"
        /\ UNCHANGED <<lock, old, tries, answer, published>>
    BY <1>6 DEF CompareAndSet, Goto
  <2>2. kv' \in Stored
    BY <1>6, StoreFacts DEF CompareAndSet, Stores
  <2>3. TypeOK' /\ LockHeld'
    BY <1>0, <1>2, <2>1, <2>2 DEF TypeOK, LockHeld, Holds
  <2>4. Progress' /\ Checked'
    BY <1>0, <1>2, <2>1 DEF Progress, Checked, TypeOK
  <2> QED BY <1>2, <2>3, <2>4 DEF Control
<1>7. CASE LoadFails(r) \/ SetFails(r) \/ Publish(r)
  <2>1. \E a \in Answer : Return(r, a)
    BY <1>7 DEF LoadFails, SetFails, Publish, Answer
  <2>2. Holds(r) /\ UNCHANGED <<old, tries>>
    BY <1>7 DEF LoadFails, SetFails, Publish, Holds
  <2>3. /\ lock' \in [Node -> Request \cup {NoRequest}]
        /\ answer' \in [Request -> Answer \cup {"none"}]
        /\ pc' \in [Request -> {"arrived", "load", "set", "publish", "done"}]
        /\ LockHeld'
        /\ \A q \in Request : pc'[q] = "done" <=> answer'[q] # "none"
        /\ \A q \in Request : pc'[q] # "done" => pc'[q] = pc[q]
    BY <1>4, <2>1, <2>2
  <2>4. kv' \in Stored
    BY <1>0, <1>7, StoreFacts
       DEF LoadFails, SetFails, Publish, Stores, TypeOK
  <2>5. published' \in Stored
    <3>1. Edited(Rooms(old[r]), edit[r]) \in SUBSET Room
      BY <1>0, RoomsTyped, EditedTyped DEF TypeOK
    <3> QED BY <1>0, <1>7, <3>1
            DEF LoadFails, SetFails, Publish, TypeOK, Stored
  <2>6. TypeOK'
    BY <1>0, <1>2, <2>2, <2>3, <2>4, <2>5 DEF TypeOK
  <2>7. Progress' /\ Checked'
    BY <1>0, <1>2, <2>2, <2>3 DEF Progress, Checked, TypeOK
  <2> QED BY <1>2, <2>3, <2>6, <2>7 DEF Control
<1>8. CASE Conflict(r)
  <2>1. /\ tries' = [tries EXCEPT ![r] = @ + 1] /\ pc[r] = "set"
        /\ tries[r] \in Nat /\ tries[r] < MaxTries
        /\ UNCHANGED <<kv, old, published>>
    BY <1>0, <1>8 DEF Conflict, Progress, TypeOK
  <2>2. tries' \in [Request -> 0 .. MaxTries]
    BY <1>0, <1>1, <2>1 DEF TypeOK
  <2>3. CASE tries[r] + 1 >= MaxTries
    <3>1. Return(r, "busy") /\ "busy" \in Answer
      BY <1>8, <2>3 DEF Conflict, Answer
    <3>2. /\ lock' \in [Node -> Request \cup {NoRequest}]
          /\ answer' \in [Request -> Answer \cup {"none"}]
          /\ pc' \in [Request -> {"arrived", "load", "set", "publish", "done"}]
          /\ LockHeld'
          /\ \A q \in Request : pc'[q] = "done" <=> answer'[q] # "none"
          /\ \A q \in Request : pc'[q] # "done" => pc'[q] = pc[q]
      BY <1>4, <2>1, <3>1 DEF Holds
    <3>3. TypeOK'
      BY <1>0, <1>2, <2>1, <2>2, <3>2 DEF TypeOK
    <3>4. Progress'
      <4>1. pc'[r] = "done"
        BY <1>0, <3>1 DEF Return, Goto, TypeOK
      <4> QED BY <1>0, <2>1, <3>2, <4>1 DEF Progress, TypeOK
    <3>5. Checked'
      BY <1>0, <1>2, <2>1, <3>2 DEF Checked, TypeOK
    <3> QED BY <1>2, <3>2, <3>3, <3>4, <3>5 DEF Control
  <2>4. CASE ~(tries[r] + 1 >= MaxTries)
    <3>1. pc' = [pc EXCEPT ![r] = "load"] /\ UNCHANGED <<lock, answer>>
      BY <1>8, <2>4 DEF Conflict, Goto
    <3>2. TypeOK' /\ LockHeld'
      BY <1>0, <1>2, <2>1, <2>2, <3>1 DEF TypeOK, LockHeld, Holds
    <3>3. Progress'
      BY <1>0, <1>1, <2>1, <2>4, <3>1 DEF Progress, TypeOK
    <3>4. Checked'
      BY <1>0, <1>2, <2>1, <3>1 DEF Checked, TypeOK
    <3> QED BY <1>2, <3>2, <3>3, <3>4 DEF Control
  <2> QED BY <2>3, <2>4
<1> QED BY <1>3, <1>5, <1>6, <1>7, <1>8 DEF Step

-----------------------------------------------------------------------------
(* The list.                                                                *)

\* A step either stores an edit or leaves the list alone; the requests other
\* than its own keep their answers.
LEMMA StepKinds ==
    ASSUME IInv, NEW r \in Request, Step(r)
    PROVE  /\ \A q \in Request \ {r} : pc'[q] = pc[q] /\ answer'[q] = answer[q]
           /\ UNCHANGED <<edit, at>> /\ pc[r] # "done"
           /\ \/ /\ Stores(r)
                 /\ Performed(r)' \/ answer'[r] = "failed"
              \/ /\ kv' = kv
                 /\ Performed(r)' <=> Performed(r)
<1>1. TypeOK /\ Progress
  BY DEF IInv
<1>2. /\ \A q \in Request \ {r} : pc'[q] = pc[q] /\ answer'[q] = answer[q]
      /\ UNCHANGED <<edit, at>>
  BY <1>1 DEF Step, Lock, Load, LoadFails, CompareAndSet, Conflict, SetFails,
              Publish, Return, Goto, TypeOK
<1>3. CASE Lock(r) \/ Load(r) \/ LoadFails(r) \/ Conflict(r)
  <2>1. kv' = kv /\ pc[r] \in {"arrived", "load", "set"} /\ answer[r] = "none"
    BY <1>1, <1>3 DEF Lock, Load, LoadFails, Conflict, Progress, TypeOK
  <2>2. pc'[r] # "publish" /\ answer'[r] # "ok"
    BY <1>1, <1>3, <2>1, RefusalTyped
       DEF Lock, Load, LoadFails, Conflict, Return, Goto, TypeOK
  <2> QED BY <1>2, <2>1, <2>2 DEF Performed
<1>4. CASE CompareAndSet(r)
  BY <1>1, <1>2, <1>4 DEF CompareAndSet, Goto, Stores, Performed, TypeOK
<1>5. CASE SetFails(r)
  <2>1. pc[r] = "set" /\ answer[r] = "none"
    BY <1>1, <1>5 DEF SetFails, Progress
  <2>2. pc'[r] = "done" /\ answer'[r] = "failed"
    BY <1>1, <1>5 DEF SetFails, Return, Goto, TypeOK
  <2> QED BY <1>2, <1>5, <2>1, <2>2 DEF SetFails, Stores, Performed
<1>6. CASE Publish(r)
  BY <1>1, <1>2, <1>6 DEF Publish, Return, Goto, Performed, TypeOK
<1> QED BY <1>3, <1>4, <1>5, <1>6 DEF Step

List == /\ Created /\ Deleted /\ IsFiniteSet(Rooms(kv)) /\ DirectoryCap
        /\ CreationsHold /\ DeletionsHold

\* A room whose POST cannot have taken effect is not in the list.
LEMMA NotCreated ==
    ASSUME FreshIds, Created, NEW r \in Request, edit[r].op = "create",
           ~MayHaveCreated(r)
    PROVE  \A x \in Rooms(kv) : x.id # edit[r].id
BY DEF FreshIds, Created, MayHaveCreated

LEMMA ListStep ==
    ASSUME IInv, NEW r \in Request, Step(r)
    PROVE  List'
<1>0. /\ TypeOK /\ Progress /\ FreshIds /\ Created /\ Deleted
      /\ IsFiniteSet(Rooms(kv)) /\ DirectoryCap /\ CreationsHold /\ DeletionsHold
  BY DEF IInv
<1>1. Control'
  BY ControlStep
<1>2. /\ \A q \in Request \ {r} : pc'[q] = pc[q] /\ answer'[q] = answer[q]
      /\ UNCHANGED <<edit, at>> /\ pc[r] # "done"
  BY StepKinds
<1>3. answer[r] = "none"
  BY <1>0, <1>2 DEF Progress
<1> USE DEF Performed, MayHaveCreated
\* What a refused POST left behind follows from Created alone.
<1>4. ASSUME Created', NEW q \in Request, edit[q].op = "create",
             answer'[q] \in Answer \ {"ok", "failed"}
      PROVE  \A x \in Rooms(kv') : x.id # edit[q].id
  <2>1. answer'[q] # "none" => pc'[q] = "done"
    BY <1>1 DEF Control, Progress
  <2>2. ~MayHaveCreated(q)'
    BY <1>4, <2>1 DEF MayHaveCreated, Performed, Answer
  <2>3. FreshIds'
    BY <1>1 DEF Control
  <2> QED BY <1>2, <1>4, <2>2, <2>3 DEF FreshIds, Created, MayHaveCreated
<1>5. CASE kv' = kv /\ (Performed(r)' <=> Performed(r))
  <2>1. \A q \in Request : /\ Performed(q)' <=> Performed(q)
                         /\ MayHaveCreated(q) => MayHaveCreated(q)'
    BY <1>2, <1>3, <1>5
  <2>2. Created' /\ Deleted'
    BY <1>0, <1>2, <1>5, <2>1 DEF Created, Deleted
  <2>3. CreationsHold'
    <3>1. ASSUME NEW q \in Request, edit[q].op = "create", Performed(q)',
                 ~DeleteMayHold(edit[q].id)'
          PROVE  [id |-> edit[q].id, creator |-> edit[q].user] \in Rooms(kv')
      <4>1. Performed(q) /\ ~DeleteMayHold(edit[q].id)
        BY <1>2, <1>3, <1>5, <3>1 DEF DeleteMayHold
      <4> QED BY <1>0, <1>5, <3>1, <4>1 DEF CreationsHold
    <3> QED BY <1>2, <1>4, <2>2, <3>1 DEF CreationsHold
  <2>4. DeletionsHold'
    BY <1>0, <1>2, <1>5, <2>1 DEF DeletionsHold
  <2>5. IsFiniteSet(Rooms(kv')) /\ DirectoryCap'
    BY <1>0, <1>5 DEF DirectoryCap, Rooms
  <2> QED BY <2>2, <2>3, <2>4, <2>5 DEF List
<1>6. CASE Stores(r) /\ (Performed(r)' \/ answer'[r] = "failed")
  <2>0. /\ Rooms(kv) \in SUBSET Room /\ edit[r] \in Edits
        /\ Rooms(kv') = Edited(Rooms(kv), edit[r])
        /\ Refusal(Rooms(kv), edit[r]) = "none"
    BY <1>6, StoreFacts
  <2>1. ~Performed(r) /\ ~MayHaveCreated(r)
    BY <1>3, <1>6 DEF Stores, Performed, MayHaveCreated
  <2>2. IsFiniteSet(Rooms(kv')) /\ DirectoryCap'
    BY <1>0, <2>0, EditedCap DEF DirectoryCap
  <2>3. edit[r].op = "create" => MayHaveCreated(r)'
    BY <1>2, <1>6 DEF MayHaveCreated
  <2>4. Created'
    <3> SUFFICES ASSUME NEW x \in Rooms(kv')
                 PROVE  \E q \in Request : /\ MayHaveCreated(q)'
                          /\ x = [id |-> edit[q].id, creator |-> edit[q].user]
      BY <1>2 DEF Created
    <3>1. CASE x \in Rooms(kv)
      BY <1>0, <1>2, <2>1, <3>1 DEF Created
    <3>2. CASE x \notin Rooms(kv)
      <4>1. edit[r].op = "create"
            /\ x = [id |-> edit[r].id, creator |-> edit[r].user]
        BY <2>0, <3>2 DEF Edited
      <4> QED BY <2>3, <4>1
    <3> QED BY <3>1, <3>2
  <2>5. Deleted'
    <3> SUFFICES ASSUME NEW q \in Request, edit[q].op = "delete", Performed(q)'
                 PROVE  \E p \in Request :
                          MayHaveCreated(p)' /\ edit[p].id = edit[q].id
      BY <1>2 DEF Deleted
    <3>1. CASE q = r
      <4>1. PICK x \in Rooms(kv) : x.id = edit[r].id
        BY <2>0, <3>1, DeleteAllowed
      <4>2. PICK p \in Request : MayHaveCreated(p) /\ edit[p].id = x.id
        BY <1>0 DEF Created
      <4> QED BY <1>2, <2>1, <3>1, <4>1, <4>2
    <3>2. CASE q # r
      BY <1>0, <1>2, <2>1, <3>2 DEF Deleted
    <3> QED BY <3>1, <3>2
  <2>6. CreationsHold'
    <3>1. ASSUME NEW q \in Request, edit[q].op = "create", Performed(q)',
                 ~DeleteMayHold(edit[q].id)'
          PROVE  [id |-> edit[q].id, creator |-> edit[q].user] \in Rooms(kv')
      <4>1. CASE q = r
        BY <2>0, <3>1, <4>1 DEF Edited
      <4>2. CASE q # r
        <5>1. ~DeleteMayHold(edit[q].id)
          BY <1>2, <1>3, <2>1, <3>1 DEF DeleteMayHold
        <5>2. [id |-> edit[q].id, creator |-> edit[q].user] \in Rooms(kv)
          BY <1>0, <1>2, <3>1, <4>2, <5>1 DEF CreationsHold
        <5>3. ~(edit[r].op = "delete" /\ edit[r].id = edit[q].id)
          BY <1>2, <1>6, <3>1 DEF DeleteMayHold
        <5>4. edit[r].op \in {"create", "delete"}
          BY <2>0 DEF Edits, Op
        <5> QED BY <2>0, <5>2, <5>3, <5>4 DEF Edited
      <4> QED BY <4>1, <4>2
    <3> QED BY <1>2, <1>4, <2>4, <3>1 DEF CreationsHold
  <2>7. DeletionsHold'
    <3> SUFFICES ASSUME NEW q \in Request, edit[q].op = "delete", Performed(q)',
                        NEW x \in Rooms(kv')
                 PROVE  x.id # edit[q].id
      BY <1>2 DEF DeletionsHold
    <3>1. CASE q = r
      BY <2>0, <3>1 DEF Edited
    <3>2. CASE q # r
      <4>1. Performed(q)
        BY <1>2, <3>2
      <4>2. CASE x \in Rooms(kv)
        BY <1>0, <4>1, <4>2 DEF DeletionsHold
      <4>3. CASE x \notin Rooms(kv)
        <5>1. edit[r].op = "create" /\ x.id = edit[r].id
          BY <2>0, <4>3 DEF Edited
        <5>2. PICK p \in Request : MayHaveCreated(p) /\ edit[p].id = edit[q].id
          BY <1>0, <4>1 DEF Deleted
        <5>3. p # r /\ edit[p].op = "create"
          BY <2>1, <5>2 DEF MayHaveCreated
        <5> QED BY <1>0, <5>1, <5>2, <5>3 DEF FreshIds
      <4> QED BY <4>2, <4>3
    <3> QED BY <3>1, <3>2
  <2> QED BY <2>2, <2>4, <2>5, <2>6, <2>7 DEF List
<1> QED BY <1>5, <1>6, StepKinds

\* Under one lock the event of an edit comes before the next edit.
LEMMA AnnouncedStep ==
    ASSUME IInv, NEW r \in Request, Step(r)
    PROVE  Announced'
<1>0. TypeOK /\ LockHeld /\ Progress /\ Announced
  BY DEF IInv
<1> SUFFICES ASSUME \A p, q \in Request : at[p] = at[q],
                    \A q \in Request : answer'[q] # "failed"
             PROVE  \/ published' = kv' /\ \A q \in Request : pc'[q] # "publish"
                    \/ \E q \in Request : /\ pc'[q] = "publish"
                          /\ kv' = Edited(Rooms(old'[q]), edit[q])
  BY StepKinds DEF Announced
<1>1. \A q \in Request : answer[q] # "failed"
  BY StepKinds, <1>0 DEF Progress
<1>2. \/ published = kv /\ \A q \in Request : pc[q] # "publish"
      \/ \E q \in Request : pc[q] = "publish" /\ kv = Edited(Rooms(old[q]), edit[q])
  BY <1>0, <1>1 DEF Announced
<1>3. \A p, q \in Request : Holds(p) /\ Holds(q) => p = q
  BY <1>0 DEF LockHeld
<1>4. CASE Lock(r)
  <2>1. \A q \in Request : ~Holds(q)
    BY <1>0, <1>4, VoiceAssumption DEF Lock, LockHeld
  <2>2. published = kv
    BY <1>2, <2>1 DEF Holds
  <2>3. UNCHANGED <<kv, published>> /\ \A q \in Request : pc'[q] # "publish"
    BY <1>0, <1>4, <2>1 DEF Lock, Goto, Holds, TypeOK
  <2> QED BY <2>2, <2>3
<1>5. CASE Load(r) \/ LoadFails(r) \/ Conflict(r)
  <2>1. pc[r] \in {"load", "set"} /\ UNCHANGED <<kv, published>>
    BY <1>5 DEF Load, LoadFails, Conflict
  <2>2. published = kv /\ \A q \in Request : pc[q] # "publish"
    BY <1>2, <1>3, <2>1 DEF Holds
  <2>3. \A q \in Request : pc'[q] # "publish"
    BY <1>0, <1>5, <2>2
       DEF Load, LoadFails, Conflict, Return, Goto, TypeOK
  <2> QED BY <2>1, <2>2, <2>3
<1>6. CASE CompareAndSet(r)
  BY <1>0, <1>6 DEF CompareAndSet, Goto, TypeOK
<1>7. CASE SetFails(r)
  BY <1>0, <1>7 DEF SetFails, Return, TypeOK
<1>8. CASE Publish(r)
  <2>1. published' = Edited(Rooms(old[r]), edit[r]) /\ kv' = kv
        /\ pc[r] = "publish"
    BY <1>8 DEF Publish
  <2>2. kv = Edited(Rooms(old[r]), edit[r])
    BY <1>2, <1>3, <2>1 DEF Holds
  <2>3. \A q \in Request : pc'[q] # "publish"
    <3>1. \A q \in Request \ {r} : pc[q] # "publish" /\ pc'[q] = pc[q]
      BY <1>3, <2>1, StepKinds DEF Holds
    <3>2. pc'[r] = "done"
      BY <1>0, <1>8 DEF Publish, Return, Goto, TypeOK
    <3> QED BY <3>1, <3>2
  <2> QED BY <2>1, <2>2, <2>3
<1> QED BY <1>4, <1>5, <1>6, <1>7, <1>8 DEF Step

-----------------------------------------------------------------------------
(* The theorems.                                                            *)

LEMMA IInvInit == Init => IInv
<1> SUFFICES ASSUME Init PROVE IInv
  OBVIOUS
<1>1. Rooms(kv) = {}
  BY DEF Init, Rooms
<1>2. TypeOK
  BY VoiceAssumption DEF Init, TypeOK, Stored
<1>3. LockHeld /\ Progress /\ Checked /\ FreshIds
  BY VoiceAssumption
     DEF Init, LockHeld, Holds, Progress, Checked, FreshIds
<1>4. Created /\ Deleted /\ CreationsHold /\ DeletionsHold
  BY <1>1 DEF Init, Created, Deleted, CreationsHold, DeletionsHold, Performed,
              Answer
<1>5. Announced
  BY DEF Init, Announced
<1>6. IsFiniteSet(Rooms(kv)) /\ DirectoryCap
  BY <1>1, FS_EmptySet, VoiceAssumption DEF DirectoryCap
<1> QED BY <1>2, <1>3, <1>4, <1>5, <1>6 DEF IInv

LEMMA IInvStep == IInv /\ [Next]_vars => IInv'
<1> SUFFICES ASSUME IInv, [Next]_vars PROVE IInv'
  OBVIOUS
<1>1. ASSUME NEW r \in Request, Step(r) PROVE IInv'
  <2>1. Control' /\ List' /\ Announced'
    BY <1>1, ControlStep, ListStep, AnnouncedStep
  <2> QED BY <2>1 DEF IInv, Control, List
<1>2. CASE UNCHANGED vars
  BY <1>2 DEF IInv, vars, TypeOK, LockHeld, Holds, Progress, Checked, FreshIds,
              Created, MayHaveCreated, Performed, Deleted, Announced, Rooms,
              DirectoryCap, CreationsHold, DeleteMayHold, DeletionsHold
<1> QED BY <1>1, <1>2 DEF Next

LEMMA Invariance == Spec => []IInv
BY IInvInit, IInvStep, PTL DEF Spec

\* Every variable keeps its type; in particular no request loses more than
\* maxVoiceRoomCASTries compare-and-sets.
THEOREM TypeCorrect == Spec => []TypeOK
<1>1. IInv => TypeOK
  BY DEF IInv
<1> QED BY <1>1, Invariance, PTL

\* The directory never exceeds maxVoiceRooms, on any number of nodes, although
\* the limit is checked against a list that was loaded before.
THEOREM CapHolds == Spec => []DirectoryCap
<1>1. IInv => DirectoryCap
  BY DEF IInv
<1> QED BY <1>1, Invariance, PTL

\* No edit that was performed is lost to an edit of another node.
THEOREM EditsHold == Spec => [](CreationsHold /\ DeletionsHold)
<1>1. IInv => CreationsHold /\ DeletionsHold
  BY DEF IInv
<1> QED BY <1>1, Invariance, PTL

\* In particular a deleted room stays deleted, whatever other nodes store.
THEOREM DeletesHold == Spec => []DeletionsHold
BY EditsHold, PTL

\* On a single node the last event published is the stored list.
THEOREM OneNodeAnnounces == Spec => []AnnouncedByOneNode
<1>1. IInv => AnnouncedByOneNode
  BY DEF IInv, Announced, AnnouncedByOneNode, AnnouncedIsCurrent, Quiet
<1> QED BY <1>1, Invariance, PTL

\* Room ids are unique in the stored list.
LEMMA UniqueIds ==
    ASSUME FreshIds, Created, NEW x \in Rooms(kv), NEW y \in Rooms(kv),
           x.id = y.id
    PROVE  x = y
<1>1. PICK p \in Request : edit[p].op = "create"
                          /\ x = [id |-> edit[p].id, creator |-> edit[p].user]
  BY DEF Created, MayHaveCreated
<1>2. PICK q \in Request : edit[q].op = "create"
                          /\ y = [id |-> edit[q].id, creator |-> edit[q].user]
  BY DEF Created, MayHaveCreated
<1>3. x.id = edit[p].id
  BY <1>1
<1>4. y.id = edit[q].id
  BY <1>2
<1>5. edit[p].id = edit[q].id
  BY <1>3, <1>4, Zenon
<1>6. p = q
  BY <1>1, <1>2, <1>5 DEF FreshIds
<1> QED BY <1>1, <1>2, <1>6

\* A room disappears only by the DELETE of its creator or of an admin.
THEOREM DeletesAreAllowed == Spec => OnlyOwnersDelete
<1> DEFINE Owned == \A x \in Room : x \in Rooms(kv) /\ x \notin Rooms(kv') =>
                      \E r \in Request :
                        /\ pc[r] = "set" /\ pc'[r] # "set"
                        /\ edit[r].op = "delete" /\ edit[r].id = x.id
                        /\ edit[r].user = x.creator \/ edit[r].user \in Admin
<1>1. IInv /\ [Next]_vars => [Owned]_vars
  <2> SUFFICES ASSUME IInv, NEW r \in Request, Step(r), NEW x \in Room,
                      x \in Rooms(kv), x \notin Rooms(kv')
               PROVE  /\ pc[r] = "set" /\ pc'[r] # "set"
                      /\ edit[r].op = "delete" /\ edit[r].id = x.id
                      /\ edit[r].user = x.creator \/ edit[r].user \in Admin
    BY DEF Next
  <2>1. Stores(r) /\ (Performed(r)' \/ answer'[r] = "failed")
    BY StepKinds
  <2>2. /\ Rooms(kv) \in SUBSET Room /\ edit[r] \in Edits
        /\ Rooms(kv') = Edited(Rooms(kv), edit[r])
        /\ Refusal(Rooms(kv), edit[r]) = "none"
    BY <2>1, StoreFacts
  <2>3. edit[r].op = "delete" /\ edit[r].id = x.id
    BY <2>2 DEF Edited, Edits, Op
  <2>4. PICK y \in Rooms(kv) :
              /\ y.id = x.id
              /\ y.creator = edit[r].user \/ edit[r].user \in Admin
    BY <2>2, <2>3, DeleteAllowed
  <2>5. x = y
    BY <2>4, UniqueIds DEF IInv
  <2>6. pc'[r] # "set"
    BY <2>1, ControlStep DEF Control, Progress, Performed
  <2> QED BY <2>1, <2>3, <2>4, <2>5, <2>6 DEF Stores
<1> QED BY <1>1, Invariance, PTL DEF Spec, OnlyOwnersDelete

-----------------------------------------------------------------------------
(* Refinement.                                                              *)

LEMMA SameOperators ==
    ASSUME NEW R, NEW e
    PROVE  /\ Directory!Edited(R, e) = Edited(R, e)
           /\ Directory!Refusal(R, e) = Refusal(R, e)
<1>1. Directory!Cardinality(R) = Cardinality(R)
  BY DEF Directory!Cardinality, Cardinality
<1> QED BY <1>1 DEF Directory!Edited, Directory!Refusal, Directory!MayDelete,
                    Edited, Refusal

\* An invariant under which each step is one of the directory, or none.
LEMMA StepRefines ==
    ASSUME IInv, NEW r \in Request, Step(r)
    PROVE  Directory!Next \/ UNCHANGED Directory!vars
<1> DEFINE R == Rooms(kv)
           A == [q \in Request |-> IF pc[q] = "publish" THEN "ok" ELSE answer[q]]
<1>0. TypeOK /\ Progress /\ UNCHANGED edit
  BY StepKinds DEF IInv
\* The abstract answer changes for r at most.
<1>1. \A a : answer'[r] = a /\ pc'[r] = "done" /\ A[r] = "none"
                => Directory!Reply(r, a)
  <2> SUFFICES ASSUME NEW a, answer'[r] = a, pc'[r] = "done", A[r] = "none"
               PROVE  Directory!Reply(r, a)
    OBVIOUS
  <2>1. A' = [A EXCEPT ![r] = a]
    BY StepKinds
  <2> QED BY <1>0, <2>1 DEF Directory!Reply
<1>2. CASE Lock(r)
  <2>1. R' = R /\ A' = A
    BY <1>0, <1>2 DEF Lock, Goto, TypeOK
  <2> QED BY <1>0, <2>1 DEF Directory!vars
<1>3. CASE Load(r)
  <2> DEFINE refusal == Refusal(R, edit[r])
  <2>0. R' = R /\ A[r] = "none"
    BY <1>0, <1>3 DEF Load, Progress
  <2>1. CASE refusal = "none"
    <3>1. A' = A
      BY <1>0, <1>3, <2>1 DEF Load, Goto, TypeOK
    <3> QED BY <1>0, <2>0, <3>1 DEF Directory!vars
  <2>2. CASE refusal # "none"
    <3>1. answer'[r] = refusal /\ pc'[r] = "done"
      BY <1>0, <1>3, <2>2 DEF Load, Return, Goto, TypeOK
    <3>2. A' = [A EXCEPT ![r] = refusal]
      BY <3>1, StepKinds
    <3>3. Directory!Refusal(R, edit[r]) = Refusal(R, edit[r])
      BY SameOperators
    <3>4. Directory!Refuse(r)
      BY <1>0, <2>0, <2>2, <3>2, <3>3 DEF Directory!Refuse, Directory!Reply
    <3> QED BY <3>4 DEF Directory!Next
  <2> QED BY <2>1, <2>2
<1>4. CASE LoadFails(r)
  <2>1. /\ R' = R /\ A[r] = "none" /\ KVMayFail
        /\ answer'[r] = "failed" /\ pc'[r] = "done"
    BY <1>0, <1>4 DEF LoadFails, Return, Goto, Progress, TypeOK
  <2>2. Directory!Reply(r, "failed")
    BY <1>1, <2>1
  <2>3. Directory!Fail(r)
    BY <2>1, <2>2 DEF Directory!Fail
  <2> QED BY <2>3 DEF Directory!Next
<1>5. CASE CompareAndSet(r)
  <2>1. /\ R' = Edited(R, edit[r]) /\ Refusal(R, edit[r]) = "none"
    BY <1>5, StoreFacts DEF CompareAndSet, Stores
  <2>2. A' = [A EXCEPT ![r] = "ok"] /\ A[r] = "none"
    BY <1>0, <1>5 DEF CompareAndSet, Goto, Progress, TypeOK
  <2>3. Directory!Apply(r)
    BY <1>0, <2>1, <2>2, SameOperators DEF Directory!Apply, Directory!Reply
  <2> QED BY <2>3 DEF Directory!Next
<1>6. CASE Conflict(r)
  <2>1. R' = R /\ A[r] = "none"
    BY <1>0, <1>6 DEF Conflict, Progress
  <2>2. CASE tries[r] + 1 >= MaxTries
    <3>1. answer'[r] = "busy" /\ pc'[r] = "done"
      BY <1>0, <1>6, <2>2 DEF Conflict, Return, Goto, TypeOK
    <3>2. Directory!Busy(r)
      BY <1>1, <2>1, <3>1 DEF Directory!Busy
    <3> QED BY <3>2 DEF Directory!Next
  <2>3. CASE ~(tries[r] + 1 >= MaxTries)
    <3>1. A' = A
      BY <1>0, <1>6, <2>3 DEF Conflict, Goto, TypeOK
    <3> QED BY <1>0, <2>1, <3>1 DEF Directory!vars
  <2> QED BY <2>2, <2>3
<1>7. CASE SetFails(r)
  <2>1. /\ A[r] = "none" /\ KVMayFail
        /\ answer'[r] = "failed" /\ pc'[r] = "done"
    BY <1>0, <1>7 DEF SetFails, Return, Goto, Progress, TypeOK
  <2>2. Directory!Reply(r, "failed")
    BY <1>1, <2>1
  <2>3. CASE kv' = kv
    BY <2>1, <2>2, <2>3 DEF Directory!Next, Directory!Fail
  <2>4. CASE kv' # kv
    <3>1. R' = Edited(R, edit[r]) /\ Refusal(R, edit[r]) = "none"
      BY <1>7, <2>4, StoreFacts DEF SetFails, Stores
    <3>2. Directory!Fail(r)
      BY <2>1, <2>2, <3>1, SameOperators DEF Directory!Fail
    <3> QED BY <3>2 DEF Directory!Next
  <2> QED BY <2>3, <2>4
<1>8. CASE Publish(r)
  <2>1. R' = R /\ A' = A
    BY <1>0, <1>8 DEF Publish, Return, Goto, TypeOK
  <2> QED BY <1>0, <2>1 DEF Directory!vars
<1> QED BY <1>2, <1>3, <1>4, <1>5, <1>6, <1>7, <1>8 DEF Step

\* updateRooms implements a directory whose edits happen at one instant:
\* "Concurrent edits from other cluster nodes are never lost".
THEOREM Refinement == Spec => RefinesDirectory
<1>1. Init => Directory!Init
  <2> SUFFICES ASSUME Init PROVE Directory!Init
    OBVIOUS
  <2>1. Rooms(kv) = {} /\ edit \in [Request -> Directory!Edits]
    BY DEF Init, Rooms, Edits, Op, Directory!Edits, Directory!Op
  <2> QED BY <2>1 DEF Init, Directory!Init
<1>2. IInv /\ [Next]_vars => [Directory!Next]_Directory!vars
  <2> SUFFICES ASSUME IInv, [Next]_vars
               PROVE  Directory!Next \/ UNCHANGED Directory!vars
    OBVIOUS
  <2>1. CASE UNCHANGED vars
    BY <2>1 DEF vars, Directory!vars, Rooms
  <2> QED BY <2>1, StepRefines DEF Next
<1> QED BY <1>1, <1>2, Invariance, PTL DEF Spec, RefinesDirectory, Directory!Spec
===============================================================================
