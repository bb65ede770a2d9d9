CONSTANTS
    short = short
    long = long
    Targets = {short, long}
    Interval <- MCInterval
    Phase <- MCPhase
    MaxDuration = 100
    MaxWall = 16
    MaxStep = 9
    MaxEvents = 1
    MaxStall = 0
SPECIFICATION Spec
INVARIANT
    OneIntervalAfterLongStep
\* The wall clock is bounded: the system stops at the bound.
CHECK_DEADLOCK FALSE
