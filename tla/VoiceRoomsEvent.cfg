SPECIFICATION Spec
CONSTANTS
    Node = {n1, n2}
    Request = {r1, r2}
    User = {ann, root}
    Admin = {root}
    RoomId = {x1, x2}
    MaxRooms = 2
    MaxTries = 2
    KVMayFail = FALSE
    Absent = Absent
    NoRequest = NoRequest
SYMMETRY Interchangeable
INVARIANTS
    AnnouncedIsCurrent
\* Requests are served once: the system stops when all are answered.
CHECK_DEADLOCK FALSE
