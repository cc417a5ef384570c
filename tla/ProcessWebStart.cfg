SPECIFICATION Spec
CONSTANTS
    Cmd = {c1, c2}
    NoCmd = NoCmd
    Starter = starter
    Monitors = {m1}
    Stoppers = {s1}
    MaxRestarts = 2
    StarterCtx = "req"
    Events = {}
SYMMETRY Symmetry
INVARIANTS
    HealthyNeverCounted
CHECK_DEADLOCK FALSE
