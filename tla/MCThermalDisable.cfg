CONSTANTS
    Cpus = {cpu0, cpu1}
    Cpu0 = cpu0
    Clients = {c1}
    FULL = 4
    FLOOR = 1
    Temps = {3, 5, 6, 7, 8, 10}
    MaxTemps = {7}
    HYSTERESIS = 3
    URGENT_OVERSHOOT = 2
    MODERATE_OVERSHOOT = 1
    STEP_UP = 1
    STEP_GENTLE = 1
    STEP_MODERATE = 2
    STEP_URGENT = 3
    WritesMayFail = FALSE
    Unseeded = Unseeded
SPECIFICATION Spec
INVARIANT DisabledIsFullSpeed
CHECK_DEADLOCK FALSE
