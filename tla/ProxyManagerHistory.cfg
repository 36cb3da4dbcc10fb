SPECIFICATION HistorySpec
CONSTANTS
    MaxCalls = 3
    Kinds = {"enable", "disable"}
    External = {off, corp}
    Off = off
    ClashFX = ClashFX
    Nothing = Nothing
    Crashes = FALSE
PROPERTIES
    RestoresTakenOver
CHECK_DEADLOCK FALSE
