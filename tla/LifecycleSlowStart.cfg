CONSTANTS
    Proxies = {p1}
    Watchdogs = {w1}
    Pids = {s1}
    Nobody = Nobody
    MaxInFlight = 1
    MaxAttempts = 1
    Faults = {"slowStart"}
    CwdDetaches = FALSE
SPECIFICATION FairSpec
PROPERTY Reaped
