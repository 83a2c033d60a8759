SPECIFICATION FairSpec
CONSTANTS
    Apps = {"game", "video"}
    NoApp = "no app"
    Configs <- TwoConfigs
    Choices = {"low-power", "max-power"}
    MaxAge = 1
    Clients = {c1}
    Repairers = {watchdog, resume}
    Requests = {100, 70}
    Tries = 2
    Conns = {k1, k2}
    MAX_CLIENTS = 1
    Trickle = 1
    Handlers = {h1, h2}
    Drivers = {i915, xe}
    NoDriver = NoDriver
INVARIANTS ShownModeIsNext DoomedBootReported RestoresChoice StopFreesFans
PROPERTIES ManualHolds UnplugLeavesAcOnly AskedLimitReturns SlotsComeBack
CHECK_DEADLOCK FALSE
