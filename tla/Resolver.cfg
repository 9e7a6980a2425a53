SPECIFICATION FairSpec
CONSTANTS
    t1 = t1
    t2 = t2
    None = None
    Threads <- MCThreads
    GaiEvery = 2
    GaiRetries = 2
    MaxChanges = 1
INVARIANTS
    AnsweredIfDohUp
PROPERTIES
    QueryReturns
    UdpFlagAdapts
CHECK_DEADLOCK FALSE
