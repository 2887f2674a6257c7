CONSTANTS
    c = c
    w1 = w1
    w2 = w2
    f1 = f1
    f2 = f2
    NoFile = NoFile
    Canary = c
    Workers = {c, w1}
    Contents = {f1}
    MaxEdits = 1
    MaxTriggers = 1
SPECIFICATION RolloutSpec
INVARIANT AbortLeavesCanary
CHECK_DEADLOCK FALSE
