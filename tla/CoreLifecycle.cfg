SPECIFICATION FairSpec
CONSTANTS
    Threads = {t1, t2, t3}
    None = None
    MaxCalls = 4
INVARIANTS
    SuspendedMeansStopped
    AppliesHaveCache
    UpdateInOwnSession
PROPERTIES
    StaleSuspendHarmless
    SuspendFencesStart
    CallsReturn
CHECK_DEADLOCK FALSE
