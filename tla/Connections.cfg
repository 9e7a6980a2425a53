SPECIFICATION Spec
CONSTANTS
    w1 = w1
    w2 = w2
    q1 = q1
    q2 = q2
    Conns = {1, 2}
    Workers = {w1}
    Queries = {q1}
    NumConns = 2
    MaxRetries = 1
    MaxChecks = 1
    None = None
INVARIANTS
    PendingIsServed
    CountExact
    ExclusiveUse
PROPERTY
    StopEnds
CHECK_DEADLOCK FALSE
