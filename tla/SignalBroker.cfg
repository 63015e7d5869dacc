SPECIFICATION FairSpec
CONSTANTS
    Node = {n1, n2}
    Topic = {t1}
    Stream = {k1, k2}
    Signal = {s1, s2}
    Buffer = 1
    RelayMayFail = TRUE
INVARIANTS
    TypeOK
    AtMostOnce
    LocalOrder
    ClosedIsUnlisted
PROPERTIES
    PublishReturns
\* The system stops when every request is done and every stream closed.
CHECK_DEADLOCK FALSE
