CONSTANTS
    k1 = k1
    k2 = k2
    Keys = {k1, k2}
    Large = {k2}
    Ttls = {1, 2}
    Second = 2
    MaxTime = 5
    None = None
SPECIFICATION Spec
INVARIANT NoProlonging
PROPERTY KeptAcrossRestart
CHECK_DEADLOCK FALSE
