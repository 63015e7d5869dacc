SPECIFICATION Spec
CONSTANTS
    alice = alice
    bob = bob
    carol = carol
    a1 = a1
    b1 = b1
    b2 = b2
    c1 = c1
    Client = {a1, b1}
    User = {alice, bob}
    Owner <- OneTabEach
    CallId = {id1, id2}
    Broadcaster = {a1, b1}
    Faults = {"loss"}
    Mortal = {}
    NoId = NoId
    NoOne = NoOne
SYMMETRY Ids
CONSTRAINT FewPending
INVARIANTS
    TypeOK
    SessionMatchesRedux
    ResourcesFollowSession
    IdsUsedOnce
    TimersMatchStatus
    WaitsHaveExits
    RingStopsWithCall
    CallerWaitsForAccept
    CardOutcomeIsTrue
PROPERTIES
    CardSettlesOnce
    RefinesLifecycle
\* Every id may have been used and every window closed.
CHECK_DEADLOCK FALSE
