SPECIFICATION FairSpecParts
CONSTANTS
    Zones = {"keyboard", "front"}
    Targets = {"all", "keyboard", "front", "chassis"}
    Colors = {"off", "red"}
    Levels = {0, 9}
    Profiles <- PaintedRed
    Cooldown = 1
    Requests = 2
    Faults = 2
    POINTS = 2
    TEMP_MIN_C = 1
    TEMP_MAX_C = 4
    SAFETY_TEMP_C = 3
    FULL = 2
    CurveModes = {"quiet", "balanced"}
    default_points <- FactoryShapes
    Inputs <- FarPoints
    Unset = Unset
    NoCall = NoCall
    Slots = {k1, k2}
    Foreign <- OneCurve
    MaxSteps = 3
INVARIANTS TypesOK LastRequestWins SettledShows EditsKept
PROPERTY DarkPanicEnds
CHECK_DEADLOCK FALSE
