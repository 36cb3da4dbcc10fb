SPECIFICATION TimedSpec
CONSTANTS
    s1 = s1
    s2 = s2
    SystemProxy = system
    ClaudeRuleMode = rule
    Scopes = {s1, s2}
    None = None
    Worlds <- HopelessWorld
    MaxAttempts = 2
    MaxGeneration = 1
PROPERTIES
    LeaseEndsWithTimeout
CHECK_DEADLOCK FALSE
