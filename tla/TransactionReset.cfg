SPECIFICATION Spec
CONSTANTS
    MaxOps = 2
    MaxSnapshots = 3
    MaxScopes = 1
    MaxEpoch = 3
    CallsAdopt = TRUE
INVARIANTS
    ReadersKept
    UncertainBlocks
    RetryBounded
    HookKeepsBaseline
PROPERTIES
    TransactionEnds
CHECK_DEADLOCK FALSE
