SPECIFICATION Spec
CONSTANTS
    Client = {w1, w2}
    NoClient = NoClient
    Broadcaster = {b1}
    Capacity = 1
    Events = {"leave"}
SYMMETRY Symmetry
INVARIANTS
    NeverPanics
CHECK_DEADLOCK FALSE
