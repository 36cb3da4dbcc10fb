SPECIFICATION Spec
CONSTANTS
    MaxOps = 1
    MaxSnapshots = 2
    MaxScopes = 1
    MaxEpoch = 2
    CallsAdopt = FALSE
INVARIANTS
    InFlightSnapshotsKept
CHECK_DEADLOCK FALSE
