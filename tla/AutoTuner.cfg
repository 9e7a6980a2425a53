SPECIFICATION Spec
CONSTANTS
    Samples <- MCSamples
    MIN_CONNS = 2
    MAX_CONNS = 4
    MIN_THREADS = 1
    MAX_THREADS = 3
    InitConns = 3
    InitThreads = 2
    IdleCycles = 3
    QuietCycles = 4
    CooldownCycles = 2
    TurboMax = 3
    TurboFull = 2
    MaxOver = 6
    HoldoffCycles = 3
    Boot = 1
    FanOff = 2
    BoostAfter = 2
    CollapseAfter = 3
    TtlFloor = 300
    TtlStep = 300
    TtlRaise = 900
    NegRaise = 600
    StuckStep = 300
    StuckTtl = 900
    CollapseStep = 600
    BoostBelow = 900
    MaxTTL = 1200
    MaxNeg = 600
    InitTtl = 600
    InitNeg = 300
    MaxRun = 4
    MaxSamples = 5
INVARIANT
    TypeOK
PROPERTIES
    GrowthPaced
    CalmShrinks
    TrickleRelaxes
