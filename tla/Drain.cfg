SPECIFICATION FairSpec
CHECK_DEADLOCK FALSE
CONSTANTS
    Procs = {p1, p2, p3}
    Items = {a}
    NoItem = NoItem
    Size = 2
PROPERTIES
    LeavesNothing
    EndsWhenQuiet
