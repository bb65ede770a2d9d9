CONSTANTS
    short = short
    long = long
    Targets = {short, long}
    Interval <- MCInterval
    Phase <- MCPhase
    MaxDuration = 7
    MaxWall = 16
    MaxStep = 9
    MaxEvents = 2
    MaxStall = 2
SPECIFICATION Spec
INVARIANTS
    OnSlot
    GapBounded
PROPERTY
    Reschedules
\* The wall clock is bounded: the system stops at the bound.
CHECK_DEADLOCK FALSE
