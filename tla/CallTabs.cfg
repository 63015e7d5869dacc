SPECIFICATION Spec
CONSTANTS
    alice = alice
    bob = bob
    carol = carol
    a1 = a1
    b1 = b1
    b2 = b2
    c1 = c1
    Client = {a1, b1, b2}
    User = {alice, bob}
    Owner <- TwoCalleeTabs
    CallId = {id1}
    Broadcaster = {a1, b1, b2}
    Faults = {"api"}
    Mortal = {}
    NoId = NoId
    NoOne = NoOne
CONSTRAINT FewPending
INVARIANTS
    CallerWaitsForAccept
PROPERTIES
    CardSettlesOnce
\* Every id may have been used and every window closed.
CHECK_DEADLOCK FALSE
