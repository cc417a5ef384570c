SPECIFICATION Spec
CONSTANTS
    Main = main
    Starts = {}
    Stops = {r1}
    Restarts = {}
    NumProcs = 2
    Nobody = Nobody
    Events = {"shutdown", "deadline", "outlives"}
INVARIANTS
    StopIsTruthful
CHECK_DEADLOCK FALSE
