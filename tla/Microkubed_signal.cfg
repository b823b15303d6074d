SPECIFICATION FairSpec
CONSTANTS
  N = 2
  ApiServer = 1
  Sudoed = {2}
  Blind = {}
  MaxTries = 1
  MaxUnhealthy = 1
  HealthCap = 1
  TokenCap = 2
  MaxSignals = 1
  MaxFatal = 1
CHECK_DEADLOCK FALSE
INVARIANT TypeOK
INVARIANT ReturnStopsAll
PROPERTY DrainBeforeStop
PROPERTY ShutdownEnds
PROPERTY ImplementsServices
