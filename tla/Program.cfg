SPECIFICATION FairSpec
CONSTANTS
    Name = {a, b}
    Main = main
    Starts = {r1}
    Stops = {}
    Restarts = {r1}
    Absent = Absent
    Nobody = Nobody
    MaxEntries = 2
    Events = {"badFile", "exit", "slowStart", "eperm", "outlives", "scrape", "stall"}
INVARIANTS
    TypeOK
    ShutdownIsComplete
PROPERTIES
    WebStopIsFinal
    SignalEndsProgram
CHECK_DEADLOCK FALSE
