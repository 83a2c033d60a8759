CONSTANTS
    Attrs = {pl1}
    Values = {v1}
    Default = Default
    Unset = Unset
    Clients = {c1}
    Worker = worker
    Nobody = Nobody
    ReadsMayFail = FALSE
    WritesMayFail = FALSE
    RestartsHappen = FALSE
    SlowModeChanges = FALSE
SPECIFICATION FairSpec
PROPERTY SavedLimitsReturn
CHECK_DEADLOCK FALSE
