CONSTANTS
    r1 = r1
    r2 = r2
    r3 = r3
    Req <- MCReq
    MaxAttempts = 3
    InChCap = 2
    PendingNonce0 = 1
SPECIFICATION LFairSpec
INVARIANTS
    LTypeOK
    RequestAccounting
    DistinctInFlightNonces
PROPERTIES
    StopReturns
CHECK_DEADLOCK FALSE
