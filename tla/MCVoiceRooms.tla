----------------------------- MODULE MCVoiceRooms -----------------------------
(* Instances of VoiceRooms for TLC.                                          *)
EXTENDS VoiceRooms, TLC

\* Requests and nodes are interchangeable.
Interchangeable == Permutations(Request) \cup Permutations(Node)

(* The same reduction for runs with liveness properties, where Request and   *)
(* RoomId are 1 .. n: room ids are numbered in the order in which the        *)
(* requests name them, and the first request is served by a fixed node.      *)
NumberedInOrder ==
    /\ at[1] = CHOOSE n \in Node : TRUE
    /\ \A r \in Request : \A i \in 1 .. edit[r].id - 1 :
         \E q \in 1 .. r - 1 : edit[q].id = i

NumberedInit == Init /\ NumberedInOrder

NumberedSpec == NumberedInit /\ [][Next]_vars /\ Fairness
===============================================================================
