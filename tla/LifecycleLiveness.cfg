CONSTANTS
    Proxies = {p1, p2}
    Watchdogs = {w1, w2}
    Pids = {s1}
    Nobody = Nobody
    MaxInFlight = 1
    MaxAttempts = 1
    Faults = {"crash", "serenaDies", "slowStop", "removed"}
    CwdDetaches = FALSE
SPECIFICATION FairSpec
INVARIANT ActiveIsWatched
PROPERTY LockReleased
PROPERTY Reaped
PROPERTY RemovedStops
CHECK_DEADLOCK FALSE
