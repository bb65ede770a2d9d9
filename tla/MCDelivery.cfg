CONSTANTS
    BufSize = 3
    Sizes = {1, 2, 3}
    MaxPublish = 6
    MaxFaults = 2
    MaxCrashes = 1
    MaxForeign = 1
    Workers = {w1, w2}
    MaxAttempts = 3
    MaxRecords = 2
    Grace = TRUE
SPECIFICATION DSpec
INVARIANTS
    NoFusedRecords
    TornIsKnown
    ResultIsTrue
    DeliveredOnce
SYMMETRY Symmetry
