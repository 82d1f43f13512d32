SPECIFICATION Spec
CONSTANTS
    N = 4
    MaxDelay = 1
    MaxNest = 1
    Preemptive = TRUE
    Variant = "main"
    Resumers = {2, 3}
    Creators = {}
INVARIANTS
    StopNeverReturns
