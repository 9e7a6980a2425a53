SPECIFICATION Spec
CONSTANTS
    k1 = k1
    k2 = k2
    k3 = k3
    t1 = t1
    t2 = t2
    s1 = s1
    None = None
    Keys = {k1, k2}
    Hashes = {1, 2}
    Hash <- CollidingHash
    Slots = {s1}
    Slot <- SharedSlot
    Threads = {t1}
    MaxCacheSize = 1
    MinTTL = 1
    MaxTTL = 2
    NegativeTTL = 1
    FailureTTL = 1
    StaleThreshold = 1
    TurboStaleTTL = 2
    RefreshPct = 60
    MaxQueue = 1
    Replies <- AnswersOrNXDomain
    MaxTime = 5
INVARIANT
    CachedRcodeKept
CHECK_DEADLOCK FALSE
