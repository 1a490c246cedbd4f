CONSTANTS
    Bsp = bsp
    APs = {ap1, ap2}
    Tasks = 5
    None = None
SPECIFICATION FairSpec
INVARIANTS NothingStale NothingLost
PROPERTY BspReturns
CHECK_DEADLOCK FALSE
