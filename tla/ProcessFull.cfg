SPECIFICATION Spec
CONSTANTS
    Cmd = {c1, c2}
    NoCmd = NoCmd
    Starter = starter
    Monitors = {m1, m2}
    Stoppers = {s1}
    MaxRestarts = 2
    StarterCtx = "req"
    Events = {"exit", "execFails", "slowStart", "appCancel", "reset", "eperm"}
SYMMETRY Symmetry
INVARIANTS
    TypeOK
    OneIncarnation
    RunningTracksChild
    NothingEscapes
    StopHolds
    StopSucceeds
    FailedIsQuiet
PROPERTIES
    FailedIsFinal
    StopIsForGood
    LifecycleSpec
CHECK_DEADLOCK FALSE
