CONSTANTS
    a = a
    b = b
    u = u
    v = v
    Workers = {w1, w2}
    Targets = {a, b}
    URLs = {u, v}
    Labels = {u, v}
    Configurations <- MCConfigurations
    Classes = {"http_error", "unknown"}
    MaxRuns = 3
SYMMETRY MCSymmetry
SPECIFICATION Spec
\* The runs are bounded: the system stops at the bound.
CHECK_DEADLOCK FALSE
INVARIANTS
    SeriesTrue
    FleetAgreesWithTargets
    CachedLookupNeverStalls
