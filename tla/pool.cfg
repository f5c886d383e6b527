SPECIFICATION Spec
CONSTANTS
    Threshold = 0
    Window = 1
    Cooldown = 0
    MaxCooldown = 0
    MultNum = 1
    MultDen = 1
    MaxTime = 2
    Workers = {w1, w2, w3, w4}
    Concurrency = 2
    TTL = 1
    Poke = 1
    PokeCount = 2
    Counts = {0, 1, 3}
    Exits <- MCExits
    NoOne = NoOne
SYMMETRY Symmetry
INVARIANTS
    TypeOK
    NeverOversubscribed
    RunningIsExact
    ShutdownLeavesNothing
PROPERTIES
    NoSpawnAfterShutdown
    KeepsContract
