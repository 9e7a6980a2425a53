SPECIFICATION FairSpec
CONSTANTS
    k1 = k1
    k2 = k2
    gc = gc
    refresh = refresh
    prewarm = prewarm
    StaleKeys <- MCKeys
    Loops <- MCLoops
    MaxQueue = 2
INVARIANTS
    NoSleepOnWork
    NoThreadAtSave
PROPERTIES
    QueueIsServed
    DestructorEnds
CHECK_DEADLOCK FALSE
