SPECIFICATION NumberedSpec
CONSTANTS
    Node = {n1, n2}
    Request = {1, 2, 3}
    User = {ann, root}
    Admin = {root}
    RoomId = {1, 2, 3}
    MaxRooms = 2
    MaxTries = 2
    KVMayFail = TRUE
    Absent = Absent
    NoRequest = NoRequest
INVARIANTS
    TypeOK
    DirectoryCap
    CreationsHold
    DeletionsHold
    AnnouncedByOneNode
PROPERTIES
    OnlyOwnersDelete
    RefinesDirectory
    RequestsAnswered
\* Requests are served once: the system stops when all are answered.
CHECK_DEADLOCK FALSE
