CONSTANTS
    DOWN_CONFIRMATIONS = 1
    DOWN_MARGIN_C = 1
    Fans = {f1}
    Profiles = {p1, p2}
    Clients = {c1}
    Temps = {1}
    SAFETY_TEMP_C = 2
    MaxLevel = 2
    Curves <- MCCurves
    NoCurve = NoCurve
    NoProfile = NoProfile
    NOT_ACCEPTED_TICKS = 2
    PowerSources = {"battery", "unknown"}
    ManualLevels = {2}
    AutoMayFail = FALSE
SPECIFICATION FairSpec
PROPERTIES HandsBack EngineTakesOver SlippedTargetCorrected
CHECK_DEADLOCK FALSE
