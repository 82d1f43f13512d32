SPECIFICATION Spec
CONSTANTS
    N = 3
    MaxDelay = 1
    MaxNest = 2
    Variant = "main"
    Resumers = {2}
    MaxInside = 1
    InSwitch = FALSE
INVARIANTS
    NoneWaiting
    SavedOwn
