CONSTANTS
    Cpus = {cpu0, cpu1}
    Cpu0 = cpu0
    Clients = {c1}
    FULL = 3
    FLOOR = 1
    Temps = {3, 8, 10}
    MaxTemps = {7}
    HYSTERESIS = 3
    URGENT_OVERSHOOT = 2
    MODERATE_OVERSHOOT = 1
    STEP_UP = 1
    STEP_GENTLE = 1
    STEP_MODERATE = 2
    STEP_URGENT = 2
    WritesMayFail = TRUE
    Unseeded = Unseeded
SPECIFICATION FairSpec
INVARIANT NoCapAfterShutdown
PROPERTIES SpikeIgnored LastingTempObeyed SteadyTempSettles
CHECK_DEADLOCK FALSE
