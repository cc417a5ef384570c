SPECIFICATION FairSpec
CONSTANTS
    Client = {w1}
    NoClient = NoClient
    Broadcaster = {b1, b2}
    Capacity = 2
    Events = {"leave", "ping"}
PROPERTIES
    BroadcastReturns
    StopReturnsEventually
    PumpsEnd
CHECK_DEADLOCK FALSE
