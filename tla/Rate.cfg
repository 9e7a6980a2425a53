SPECIFICATION Spec
CONSTANTS
    c1 = c1
    t1 = t1
    t2 = t2
    None = None
    Clients <- MCClients
    Threads <- MCThreads
    Window = 2
    Limit = 2
    MaxTime = 9
    MaxAsked = 7
INVARIANTS
    BurstBounded
    RefusedOnlyOverLimit
SYMMETRY ThreadSymmetry
CHECK_DEADLOCK FALSE
