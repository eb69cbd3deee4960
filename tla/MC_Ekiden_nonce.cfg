CONSTANTS
    r1 = r1
    r2 = r2
    r3 = r3
    Req <- MCReq
    RuntimeUnreliable = FALSE
SPECIFICATION FairSpec
PROPERTIES
    SubmittedTransactionLands
CHECK_DEADLOCK FALSE
