CONSTANTS
    c1 = c1
    c2 = c2
    c3 = c3
    f1 = f1
    f2 = f2
    None = None
    MAX_EVENTS = 2
    Conns = {c1, c2, c3}
    Fds = {f1, f2}
SPECIFICATION FairSpec
INVARIANTS OnlyOwnHangup HookKept
CHECK_DEADLOCK FALSE
PROPERTY HangupDelivered
