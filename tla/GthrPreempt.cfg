SPECIFICATION Spec
CONSTANTS
    N = 4
    MaxDelay = 2
    MaxNest = 1
    Preemptive = TRUE
    Variant = "main"
    Resumers = {3}
    Creators = {2}
INVARIANTS
    TypeOK
    OneRunning
    StopNeverReturns
    SlotStillFree
    WaitsForAll
PROPERTIES
    NoEarlyWake
