SPECIFICATION FairSpec
CONSTANTS
    MaxRestarts = 2
    MaxStarts = 2
    MaxInFlight = 2
    Events = {"execFails", "stop", "wrap"}
INVARIANTS
    TypeOK
    StatusIsReported
    RunningIsTrue
    RuntimeIsRecordedOnce
PROPERTIES
    ExitIsDelivered
    DashboardCatchesUp
    MemoryCatchesUp
CHECK_DEADLOCK FALSE
