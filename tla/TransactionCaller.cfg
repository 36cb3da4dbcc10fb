SPECIFICATION Spec
CONSTANTS
    MaxOps = 2
    MaxSnapshots = 3
    MaxScopes = 2
    MaxEpoch = 2
    CallsAdopt = FALSE
INVARIANTS
    SnapshotsKept
    OneApplyInFlight
    CoreMatchesConfirmed
CHECK_DEADLOCK FALSE
