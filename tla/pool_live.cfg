SPECIFICATION FairSpec
CONSTANTS
    Threshold = 1
    Window = 1
    Cooldown = 1
    MaxCooldown = 1
    MultNum = 1
    MultDen = 1
    MaxTime = 2
    Workers = {w1, w2}
    Concurrency = 1
    TTL = 1
    Poke = 1
    PokeCount = 1
    Counts = {1}
    Exits <- MCExits
    NoOne = NoOne
PROPERTIES
    ShutdownDrains
    TTLEnforced
    HintReturns
    KeepsFairContract
