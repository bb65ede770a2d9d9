CONSTANTS
    Absent = Absent
    Malformed = Malformed
    MinInterval = 2
    DefaultInterval = 30
    DefaultTimeout = 10
    DefaultConcurrency = 4
    Givens <- MCGivens
    MaxSignals = 2
    MaxResults = 2
SPECIFICATION FairSpec
INVARIANTS
    ReadyWhileRunning
    ShutdownOrder
    ExitTellsAll
    LabelsAreSafe
    TargetsFit
PROPERTIES
    EndsWhenTold
    SecondSignalKills
