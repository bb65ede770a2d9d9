CONSTANTS
    Reporters = {r1, r2}
    Interval = 2
    MaxTime = 4
    MaxBack = 0
    MaxDrops = 3
SPECIFICATION WarnSpec
INVARIANT
    WarnsOncePerInterval
CHECK_DEADLOCK FALSE
