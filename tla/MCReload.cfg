CONSTANTS
    c = c
    w1 = w1
    w2 = w2
    f1 = f1
    f2 = f2
    NoFile = NoFile
    Canary = c
    Workers = {c, w1}
    Contents = {f1, f2}
    MaxEdits = 2
    MaxTriggers = 2
SPECIFICATION FairRolloutSpec
INVARIANT QuiescentAgreement
PROPERTIES ImplementsRollout SighupTakesEffect FleetConverges
CHECK_DEADLOCK FALSE
