SPECIFICATION SpecParts
CONSTANTS
    DOWN_CONFIRMATIONS = 3
    DOWN_MARGIN_C = 3
    Temps = {1, 2, 3, 4, 5, 6, 7, 8}
    Threads = {t1, t2}
    Processes = {window, command}
    Values = {v0, v1}
    Initial = v0
    NoProfile = NoProfile
    Absent = Absent
    Corrupt = Corrupt
    Nobody = Nobody
    LockTimesOut = FALSE
    CoarseMtime = FALSE
    Failures = 1
    Keys = {"fan1", "limit"}
    NoValue = NoValue
    Workers = {w1, w2, w3}
    Changes = 3
    Tickers = {p1, p2}
    Pages = {"fans", "lights"}
    NoPage = NoPage
    Updaters = {gui, cli}
    Window = gui
    Newest = 2
    MaxOrphans = 1
    Roots = {daemon, console}
    Hw = Hw
    Ids = {i1, i2}
    NoId = NoId
INVARIANTS StaleCacheNoticed LatestApplied TimersFollow WholeApp RestageToCome LinkKept
PROPERTIES SlowdownConfirmed ImplementsRegister
CHECK_DEADLOCK FALSE
