SPECIFICATION Spec
CONSTANTS
    Main = main
    Starts = {r1}
    Stops = {}
    Restarts = {r2}
    NumProcs = 1
    Nobody = Nobody
    Events = {"exit", "execFails", "slowStart", "outlives", "eperm"}
INVARIANTS
    TypeOK
    Supervised
PROPERTIES
    InstancesImplementLifecycle
CHECK_DEADLOCK FALSE
