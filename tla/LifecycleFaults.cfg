CONSTANTS
    Proxies = {p1, p2}
    Watchdogs = {w1}
    Pids = {s1, s2}
    Nobody = Nobody
    MaxInFlight = 1
    MaxAttempts = 1
    Faults = {"crash", "orphan", "serenaDies", "slowStop", "recycled", "removed", "cloneRemoved"}
    CwdDetaches = TRUE
SPECIFICATION Spec
SYMMETRY Symmetry
INVARIANT TypeOK
INVARIANT SignalsOwnBackend
INVARIANT LiveProxyLeased
CHECK_DEADLOCK FALSE
