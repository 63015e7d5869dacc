-------------------------------- MODULE MCCall --------------------------------
(* Instances of Call for TLC.                                                *)
EXTENDS Call, Naturals, FiniteSets, TLC

CONSTANTS alice, bob, carol, a1, b1, b2, c1

OneTabEach == a1 :> alice @@ b1 :> bob
TwoCalleeTabs == a1 :> alice @@ b1 :> bob @@ b2 :> bob
ThreeUsers == a1 :> alice @@ b1 :> bob @@ c1 :> carol

Ids == Permutations(CallId)

\* A bound on what is pending at once, for the larger runs.
FewPending ==
    /\ Cardinality(net) <= 2
    /\ Cardinality(UNION {dismissals[c] : c \in Client}) <= 1
    /\ Cardinality(UNION {profiles[c] : c \in Client}) <= 1
    /\ Cardinality(creating \cup {id \in CallId : patch[id] # "none"}
                            \cup UNION {posting[c] : c \in Client}) <= 1
===============================================================================
