CONSTANTS
    Offsets = {stock, o1, o2}
    Stock = stock
    Clients = {c1, c2}
    EarlyFreeze = FALSE
    WritesMayFail = FALSE
SPECIFICATION FairSpec
INVARIANTS CrashNotRepeated NoBlockRemains
PROPERTY NotBlockedForever
CHECK_DEADLOCK FALSE
