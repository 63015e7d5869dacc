SPECIFICATION MCSpec
CONSTANTS
    alice = alice
    bob = bob
    a1 = a1
    a2 = a2
    b1 = b1
    r1 = r1
    r2 = r2
    Id = {a1, a2, b1}
    User = {alice, bob}
    SessionsOf <- MCSessions
    Namespace = {r1, r2, r3}
    NoNamespace = NoNamespace
    NoSession = NoSession
    Me = alice
    MaxPeers = 1
    MaxVersion = 3
    MaxRequests = 2
PROPERTIES
    LeavesOnlyDeleted
CHECK_DEADLOCK FALSE
