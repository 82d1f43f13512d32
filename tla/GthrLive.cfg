SPECIFICATION FairSpec
CONSTANTS
    N = 3
    MaxDelay = 2
    MaxNest = 2
    Preemptive = TRUE
    Variant = "test"
    Resumers = {2}
    Creators = {}
INVARIANTS
    BlockedHasDelay
PROPERTIES
    ReadyRuns
    DelayEnds
    SchedulerReturns
