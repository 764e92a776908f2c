CONSTANTS
    MaxMessages = 3
    MaxBackends = 2
    ServerIds = {}
    Faults = {}
    NoId = NoId
    Ping = Ping
    None = None
SPECIFICATION Spec
INVARIANT Transparent
CHECK_DEADLOCK FALSE
