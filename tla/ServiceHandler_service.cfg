CONSTANTS
    Probes = {p1, p2}
    Stoppers = {s1, s2}
    TokenCap = 2
    MessageCap = 2
    Retries = 1
    MayHang = TRUE
    MaxStarts = 1
    MaxChecks = 3
    MaxStops = 4
SPECIFICATION FairSpec
INVARIANTS
    TypeOK
    OneProbe
    FirstStopsDoNotBlock
PROPERTIES
    StopReturns
    ImplementsService
    EndsChecks
CHECK_DEADLOCK FALSE
