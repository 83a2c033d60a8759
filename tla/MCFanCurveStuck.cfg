CONSTANTS
    DOWN_CONFIRMATIONS = 1
    DOWN_MARGIN_C = 1
    Fans = {f1}
    Profiles = {p1}
    Clients = {c1}
    Temps = {1, 2}
    SAFETY_TEMP_C = 2
    MaxLevel = 2
    Curves <- MCCurves
    NoCurve = NoCurve
    NoProfile = NoProfile
    NOT_ACCEPTED_TICKS = 2
    PowerSources = {"ac"}
    ManualLevels = {1}
    AutoMayFail = TRUE
SPECIFICATION FairSpec
PROPERTIES SensorFailureFreesAllFans
CHECK_DEADLOCK FALSE
