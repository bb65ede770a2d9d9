CONSTANTS
    Clients = {c1, c2, c3}
    MaxConns = 2
    MaxBodies = 1
    MayHang = {c1, c2}
    MaxFailures = 2
SPECIFICATION FairSpec
INVARIANTS
    LimitsHold
    NothingLeftOpen
PROPERTIES
    ShutdownReturnsAlways
    BacklogServed
