CONSTANTS
    p1 = p1
    p2 = p2
    d1 = d1
    d2 = d2
    NoProc = NoProc
    Procs = {p1, p2}
    Domains = {d1}
    Covered = {}
    MaxRenewals = 1
    MaxFaults = 1
SPECIFICATION Spec
INVARIANT FailedIsRetried
