SPECIFICATION Spec
CONSTANTS
    Sources = {"http", "redis"}
    Pools = {p1}
    OtherChannels = {other}
    Concurrency = 1
    Buffer = 2
    Body = 2
    ShutdownTimeout = 3
    DrainTimeout = 1
    Grace = 1
    ReconnectMin = 1
    ReconnectMax = 2
    MaxTries = 1
    None = None
CHECK_DEADLOCK FALSE
INVARIANT RequestAllOrNothing
