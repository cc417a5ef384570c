SPECIFICATION FairSpec
CONSTANTS
    Cmd = {c1, c2}
    NoCmd = NoCmd
    Starter = starter
    Monitors = {m1}
    Stoppers = {s1, s2}
    MaxRestarts = 2
    StarterCtx = "app"
    Events = {"exit"}
INVARIANTS
    RestartsWithinBudget
PROPERTIES
    ExitIsHandled
    StopReturnsEventually
    StopKillsChild
CHECK_DEADLOCK FALSE
