SPECIFICATION FairSpec
CONSTANTS
    Sources = {"http", "redis"}
    Pools = {p1}
    OtherChannels = {other}
    Concurrency = 1
    Buffer = 1
    Body = 2
    ShutdownTimeout = 3
    DrainTimeout = 1
    Grace = 1
    ReconnectMin = 1
    ReconnectMax = 3
    MaxTries = 2
    None = None
CHECK_DEADLOCK FALSE
INVARIANTS
    TypeOK
    NilMeansClean
    PoolsStopLast
    SourceErrorsReported
    BackoffDoubles
    ConnectedIsConfirmed
PROPERTIES
    SourcesEnd
    RequestAnswered
    RedisRecovers
