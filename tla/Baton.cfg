SPECIFICATION FairSpec
CHECK_DEADLOCK FALSE
CONSTANTS
    Procs = {p1, p2, p3, p4}
    Players = 3
    Fields = {f1, f2}
    Limited = TRUE
    ResetsBoard = TRUE
    MayDrop = TRUE
    EndsAll = TRUE
    MaxRestarts = 1
INVARIANTS
    OneTurn
    TurnsAlternate
    StartsFull
PROPERTIES
    TurnComes
