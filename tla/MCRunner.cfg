CONSTANTS
    Entries = {e1, e2}
    Workers = {w1, w2}
    NoEntry = NoEntry
    Unruly = {}
    MaxSlots = 2
SYMMETRY MCSymmetry
SPECIFICATION Spec
INVARIANTS
    TypeOK
    NeverConcurrentWithItself
    ChannelsNeverBlock
    SkipsAreTrue
    EverySlotAccountedFor
    CleanReturn
    GivesUpEarlyOnlyOnCancel
PROPERTY
    ImplementsLifecycle
