SPECIFICATION Spec
CONSTANTS
  FirstWait = 100
  Limit = 7000
CHECK_DEADLOCK FALSE
INVARIANT UnhealthyReported
