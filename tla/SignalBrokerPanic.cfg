SPECIFICATION Spec
CONSTANTS
    Node = {n1}
    Topic = {t1}
    Stream = {k1, k2}
    Signal = {s1, s2}
    Buffer = 1
    RelayMayFail = FALSE
SYMMETRY Interchangeable
INVARIANTS
    NoPanic
\* The system stops when every request is done and every stream closed.
CHECK_DEADLOCK FALSE
