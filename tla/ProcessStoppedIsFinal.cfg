SPECIFICATION Spec
CONSTANTS
    Cmd = {c1, c2}
    NoCmd = NoCmd
    Starter = starter
    Monitors = {m1}
    Stoppers = {s1}
    MaxRestarts = 2
    StarterCtx = "app"
    Events = {"exit"}
SYMMETRY Symmetry
PROPERTIES
    StoppedIsFinal
CHECK_DEADLOCK FALSE
