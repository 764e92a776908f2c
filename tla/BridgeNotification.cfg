CONSTANTS
    MaxMessages = 3
    MaxBackends = 1
    ServerIds = {}
    Faults = {"notifies"}
    NoId = NoId
    Ping = Ping
    None = None
SPECIFICATION Spec
INVARIANT Transparent
CHECK_DEADLOCK FALSE
