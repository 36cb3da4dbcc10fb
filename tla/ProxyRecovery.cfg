SPECIFICATION AnsweredSpec
CONSTANTS
    s1 = s1
    s2 = s2
    SystemProxy = system
    ClaudeRuleMode = rule
    Scopes = {s1, s2}
    None = None
    Worlds <- AnyWorld
    MaxAttempts = 2
    MaxGeneration = 2
INVARIANTS
    BudgetShared
    LeaseAccounted
PROPERTIES
    MismatchSuspends
    LeaseEndsInConflict
CHECK_DEADLOCK FALSE
