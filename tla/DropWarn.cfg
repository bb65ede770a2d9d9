CONSTANTS
    Reporters = {r1, r2}
    Interval = 2
    MaxTime = 5
    MaxBack = 1
    MaxDrops = 4
SPECIFICATION WarnSpec
INVARIANT
    NoSilentDrop
PROPERTY
    ForwardWarnsSpaced
\* The clock and the drops are bounded: the system stops at the bounds.
CHECK_DEADLOCK FALSE
