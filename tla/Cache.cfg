SPECIFICATION Spec
CONSTANTS
    k1 = k1
    k2 = k2
    k3 = k3
    t1 = t1
    t2 = t2
    s1 = s1
    None = None
    Keys = {k1, k2, k3}
    Hashes = {1, 2}
    Hash <- CollidingHash
    Slots = {s1}
    Slot <- SharedSlot
    Threads = {t1, t2}
    MaxCacheSize = 2
    MinTTL = 1
    MaxTTL = 2
    NegativeTTL = 1
    FailureTTL = 1
    StaleThreshold = 1
    TurboStaleTTL = 1
    RefreshPct = 60
    MaxQueue = 1
    Replies <- AnswersOrNull
    MaxTime = 3
SYMMETRY
    CacheSymmetry
CONSTRAINT
    TwoAtATime
INVARIANTS
    TypeOK
    StalenessBounded
    AnswersMatchQuestion
    CacheWithinLimit
PROPERTIES
    NoResurrection
    LiveEntryKept
    ImplementsStore
CHECK_DEADLOCK FALSE
