CONSTANTS
    N = 2
    ApiServer = 1
    Sudoed = {}
    Blind = {2}
    MaxTries = 2
    MaxUnhealthy = 2
    HealthCap = 1
    TokenCap = 2
    MaxSignals = 0
    MaxFatal = 4
SPECIFICATION FairSpec
INVARIANT FatalStopsListed
PROPERTIES
    DeathNoticed
    FatalEnds
    StartupAnswered
CHECK_DEADLOCK FALSE
