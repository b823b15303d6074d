SPECIFICATION Spec
CONSTANTS
  N = 2
  ApiServer = 1
  Sudoed = {}
  Blind = {}
  MaxTries = 1
  MaxUnhealthy = 1
  HealthCap = 1
  TokenCap = 2
  MaxSignals = 0
  MaxFatal = 4
CHECK_DEADLOCK FALSE
INVARIANT StartedMeansRunning
