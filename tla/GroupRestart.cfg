SPECIFICATION FairSpec
CONSTANTS
    Main = main
    Starts = {}
    Stops = {}
    Restarts = {r1}
    NumProcs = 1
    Nobody = Nobody
    Events = {"leave", "shutdown", "slowStart", "eperm"}
INVARIANTS
    NoOrphans
PROPERTIES
    CallsEnd
    MonitorsEnd
CHECK_DEADLOCK FALSE
