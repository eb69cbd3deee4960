CONSTANTS
    x1 = x1
    x2 = x2
    x3 = x3
    NoCaller = NoCaller
    Callers <- MCCallers
    Conns = 2
    ChanCap = 2
    ParentCancels = TRUE
SPECIFICATION FairSpec
PROPERTIES EveryRequestServed
CHECK_DEADLOCK FALSE
