CONSTANTS
    Attrs = {pl1}
    Values = {v1, v2}
    Default = Default
    Unset = Unset
    Clients = {c1}
    Worker = worker
    Nobody = Nobody
    ReadsMayFail = TRUE
    WritesMayFail = TRUE
    RestartsHappen = TRUE
    SlowModeChanges = TRUE
SPECIFICATION FairSpec
INVARIANTS SavedInForce NothingForgotten
PROPERTIES NoSpuriousFailure SavedLimitsReturn
CHECK_DEADLOCK FALSE
