SPECIFICATION Spec
CONSTANTS
    N = 2
    MaxDelay = 1
    MaxNest = 2
    Variant = "main"
    Resumers = {}
    MaxInside = 1
    InSwitch = FALSE
INVARIANTS
    StopNeverReturns
