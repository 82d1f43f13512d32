SPECIFICATION TimedSpec
CONSTANTS
    Size = 5
    Total = 15
    Quota = 0
    Marks = TRUE
    Late = 2
INVARIANTS
    NoLostWakeup
    AllTaken
PROPERTIES
    IsFifo
    Ends
