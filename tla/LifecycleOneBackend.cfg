CONSTANTS
    Proxies = {p1, p2}
    Watchdogs = {w1, w2}
    Pids = {s1, s2}
    Nobody = Nobody
    MaxInFlight = 1
    MaxAttempts = 2
    Faults = {"crash", "crashStarting", "watchdogDies", "serenaDies", "slowStart",
              "slowStop", "busy", "lockTimeout"}
    CwdDetaches = FALSE
SPECIFICATION Spec
SYMMETRY Symmetry
INVARIANT LockDiscipline
INVARIANT OneBackend
INVARIANT NoIdleStopUnderLoad
INVARIANT LiveProxyLeased
PROPERTY ImplementsSharedBackend
