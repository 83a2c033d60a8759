CONSTANTS
    Offsets = {stock, o1}
    Stock = stock
    Clients = {c1}
    EarlyFreeze = TRUE
    WritesMayFail = FALSE
SPECIFICATION FairSpec
INVARIANT CrashNotRepeated
CHECK_DEADLOCK FALSE
