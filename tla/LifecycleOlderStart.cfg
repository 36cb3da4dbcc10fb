SPECIFICATION Spec
CONSTANTS
    Threads = {t1, t2}
    None = None
    MaxCalls = 2
INVARIANTS
    OlderStartHarmless
CHECK_DEADLOCK FALSE
