CONSTANTS
    r1 = r1
    r2 = r2
    r3 = r3
    Req <- MCReq
    MaxAttempts = 2
    InChCap = 2
    PendingNonce0 = 0
SPECIFICATION Spec
INVARIANTS
    NonceMatchesCommitted
CHECK_DEADLOCK FALSE
