SPECIFICATION Spec
CONSTANTS
    Client = {w1, w2}
    NoClient = NoClient
    Broadcaster = {b1}
    Capacity = 1
    Events = {"leave", "stall", "ping", "cancel"}
SYMMETRY Symmetry
INVARIANTS
    TypeOK
    ClientsHaveReaders
    RemovedIsClosed
    VisitedAreOpen
CHECK_DEADLOCK FALSE
