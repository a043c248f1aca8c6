CONSTANTS
    Callers = {c1, c2}
    Keys = {k1, k2}
    Configs <- MCConfigs
    MaxUsize = 2
    Window = 2
    MaxDelay = 1
    MaxTime = 4
SYMMETRY CallerSymmetry
SPECIFICATION Spec
INVARIANTS LeaseAccounting NoIdleTuples RateBound
PROPERTY RefusalJustified
