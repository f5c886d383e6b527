SPECIFICATION Spec
CONSTANTS
    Threshold = 3
    Window = 3
    Cooldown = 2
    MaxCooldown = 3
    MultNum = 3
    MultDen = 2
    MaxTime = 11
    MaxFailures = 9
INVARIANTS
    TypeOK
    PauseBounded
PROPERTIES
    TripsExactlyOnStorm
    PauseEscalates
    LevelFallsOnlyWhenQuiet
