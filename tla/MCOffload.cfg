SPECIFICATION OffloadSpec
CONSTANTS
    Slots = {s1, s2}
    RxThreads = {t1, t2}
    MaxSession = 3
INVARIANT EgressRoutable
PROPERTY RotationCompletes
