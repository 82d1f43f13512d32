SPECIFICATION Spec
CONSTANTS
    Servers = {s1, s2, s3}
    Removers = {r1}
    Clients = {c1}
    MaxMishaps = 1
    Programs = {"DU05", "DU05_test"}
INVARIANTS
    LockTogether
    NoneForgotten
PROPERTIES
    RemovesAll
SYMMETRY Symmetry
CHECK_DEADLOCK FALSE
