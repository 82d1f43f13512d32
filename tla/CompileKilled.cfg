SPECIFICATION Spec
CONSTANTS
    Servers = {s1}
    Clients = {c1, c2}
    None = None
    Programs = {"done"}
    Concurrent = {}
    Abrupt = {}
    Killable = {c2}
    MaxCrashes = 0
INVARIANTS
    GetsAll
CHECK_DEADLOCK FALSE
