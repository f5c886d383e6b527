SPECIFICATION MSpec
CONSTANTS
    Threshold = 2
    Window = 1
    Cooldown = 1
    MaxCooldown = 2
    MultNum = 2
    MultDen = 1
    MaxTime = 2
    Workers = {w1, w2, w3}
    Concurrency = 2
    TTL = 1
    Poke = 0
    PokeCount = 0
    Counts = {2}
    Exits <- MCExits
    NoOne = NoOne
    MaxHints = 2
    Null = Null
SYMMETRY Symmetry
INVARIANTS
    MTypeOK
    SpawnsBalance
    KillsAreExits
    CompleteAtShutdown
    ShownIsCounted
PROPERTIES
    TripsAreCounted
    NoSpawnWhilePaused
