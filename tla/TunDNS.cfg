SPECIFICATION FairSpec
CONSTANTS
    MaxCalls = 3
    Profiles <- MCProfiles
    Tun = "tun"
    MaxPredecessors = 1
    None = None
INVARIANTS
    TypeOK
    StillRestorable
PROPERTIES
    RestoresExactly
    RestoresHold
    ClearsAsReported
    KeepsPromise
    CallsEnd
