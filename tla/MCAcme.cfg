CONSTANTS
    p1 = p1
    p2 = p2
    d1 = d1
    d2 = d2
    NoProc = NoProc
    Procs = {p1, p2}
    Domains = {d1, d2}
    Covered = {d2}
    MaxRenewals = 1
    MaxFaults = 1
SPECIFICATION FairSpec
INVARIANTS StoredPairFits NoRedundantOrder OneAccountKey ChallengeAnswered
PROPERTIES LiveNeverOlder EveryDomainServed
