CONSTANTS
    t1 = t1
    t2 = t2
    k1 = k1
    k2 = k2
    k3 = k3
    Threads = {t1, t2}
    Keys = {k1, k2, k3}
    MaxBuckets = 1
    PerSecond = 1
    PerMinute = 2
    PerHour = 3
    Minute = 2
    Hour = 4
    MaxNow = 4
    MaxReloads = 1
SPECIFICATION Spec
INVARIANTS LimitUnlessStraddled BucketOvershoot
CONSTRAINT Scenario
SYMMETRY Symmetry
CHECK_DEADLOCK FALSE
