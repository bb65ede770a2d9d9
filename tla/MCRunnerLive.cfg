CONSTANTS
    Entries = {e1}
    Workers = {w1}
    NoEntry = NoEntry
    Unruly = {e1}
    MaxSlots = 4
SPECIFICATION FairSpec
INVARIANT
    FleetAccounting
PROPERTIES
    ShutdownCompletes
    DispatchIsAnswered
