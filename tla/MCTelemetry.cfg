CONSTANTS
    w = w
    fast = fast
    twin = twin
    slow = slow
    Targets = {fast, twin, slow}
    URL <- MCURL
    Interval <- MCInterval
    Default = 1
    Start = 2
    MaxElapsed = 3
    MaxResults = 4
    Workers = {w}
    Capacity = 1
SPECIFICATION TSpec
\* Time and the Results are bounded: the system stops at the bounds.
CHECK_DEADLOCK FALSE
INVARIANTS
    ResultsTold
