SPECIFICATION LiveBusSpec
CONSTANTS
    Buses = {b1, b2}
    Subs = {s1, s2}
    Events = {e1, e2}
    Drivers = {"memory", "redis", "nats", "redisstream"}
    MaxLen = 1
    Batch = 2
    Faults = TRUE
CHECK_DEADLOCK FALSE
INVARIANTS
    HandledOnce
PROPERTIES
    ClosedEnds
