CONSTANTS
    c1 = c1
    c2 = c2
    c3 = c3
    c4 = c4
    N = 3
    Conns = {c1, c2, c3, c4}
    MaxFaults = 1
    MaxExits = 1
SPECIFICATION FairSpec
INVARIANTS TypeOK Balanced
PROPERTIES TransitEnds BacklogDrains
CHECK_DEADLOCK FALSE
