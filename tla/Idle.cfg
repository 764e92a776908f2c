CONSTANTS
    Proxies = {p1, p2}
    Timeouts = {1, 3}
    Poll = 2
    MaxTime = 6
    MaxAdjust = 1
    MaxInFlight = 1
    NoForecast = NoForecast
    Busy = Busy
SPECIFICATION Spec
INVARIANT InTime
PROPERTY NeverEarly
PROPERTY ForecastKept
CHECK_DEADLOCK FALSE
