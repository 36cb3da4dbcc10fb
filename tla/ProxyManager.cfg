SPECIFICATION FairSpec
CONSTANTS
    MaxCalls = 3
    Kinds = {"enable", "replace", "disable", "terminate", "checkpoint", "rollback"}
    External = {off}
    Off = off
    ClashFX = ClashFX
    Nothing = Nothing
    Crashes = TRUE
INVARIANTS
    TypeOK
    SnapshotHeld
    Quarantine
PROPERTIES
    ReportsTrue
    TerminatingQuiet
    CallsEnd
CHECK_DEADLOCK FALSE
