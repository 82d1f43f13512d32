SPECIFICATION FairSpec
CONSTANTS
    Procs = {p1, p2, p3}
    Items = {a}
    NoItem = NoItem
    Size = 1
    MaxProducers = 2
    MaxConsumers = 1
    Abrupt = {}
    Careful = TRUE
    MaxPause = 1
    MaxCrashes = 0
INVARIANTS
    CountsClients
    GateShut
PROPERTIES
    CommandsDone
    ConsumerAnswered
