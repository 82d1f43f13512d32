SPECIFICATION Spec
CHECK_DEADLOCK FALSE
CONSTANTS
    Procs = {p1, p2}
    Players = 2
    Fields = {f1, f2}
    Limited = FALSE
    ResetsBoard = FALSE
    MayDrop = FALSE
    EndsAll = TRUE
    MaxRestarts = 0
INVARIANTS
    OwnSeat
