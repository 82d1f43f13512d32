SPECIFICATION FairSpec
CHECK_DEADLOCK FALSE
CONSTANTS
    Procs = {p1, p2, p3}
    Items = {a, b}
    NoItem = NoItem
    Size = 2
    Impatient = {p1}
INVARIANTS
    NeverJammed
PROPERTIES
    IsFifo
    FifoProgress
