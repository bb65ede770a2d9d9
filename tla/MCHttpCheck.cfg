CONSTANTS
    URLs <- MCURLs
    Addresses = {"public", "CGNAT", "loopback"}
    Codes = {101, 200, 302, 404}
    Timeout = 2
    MaxRedirects = 3
    BodyCap = 1
    DrainCap = 1
    MaxBody = 3
    MaxRuns = 2
SPECIFICATION FairSpec
INVARIANTS
    EveryHopGuarded
    
    WithinTheTimeout
PROPERTIES
    RunReturns
CHECK_DEADLOCK FALSE
