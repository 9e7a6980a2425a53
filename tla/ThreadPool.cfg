SPECIFICATION FairSpec
CONSTANTS
    w1 = w1
    w2 = w2
    p1 = p1
    t1 = t1
    t2 = t2
    Workers = {w1, w2}
    Producers = {p1}
    Tasks = {t1, t2}
    InitWorkers = 2
    MinWorkers = 1
    MaxWorkers = 2
    BackpressureLimit = 2
    ResizeArgs = {0, 2, 9}
    NoThread = NoThread
    Resizer = Resizer
INVARIANTS
    NeverBelowMin
    LiveCountExact
    NoStrandedTask
    NoSleepThroughChange
PROPERTIES
    AcceptedBeforeStopRuns
    ShrinksToTarget
    ShutdownEnds
    ImplementsQueue
CHECK_DEADLOCK FALSE
