SPECIFICATION FairSpec
CONSTANTS
    Servers = {s1, s2}
    Clients = {c1, c2, c3}
    None = None
    Programs = {"done", "two", "three"}
    Concurrent = {"done"}
    Abrupt = {c3}
    Killable = {c2}
    MaxCrashes = 1
INVARIANTS
    GetsOwn
    TokenKept
PROPERTIES
    Served
CHECK_DEADLOCK FALSE
