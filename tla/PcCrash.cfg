SPECIFICATION Spec
CHECK_DEADLOCK FALSE
CONSTANTS
    Procs = {p1, p2, p3}
    Items = {a}
    NoItem = NoItem
    Size = 2
    MaxProducers = 1
    MaxConsumers = 1
    Abrupt = {p1, p2, p3}
    Careful = TRUE
    MaxPause = 1
    MaxCrashes = 2
SYMMETRY Symmetry
INVARIANTS
    LimitsHold
    TakesUnread
    KeepsUnread
