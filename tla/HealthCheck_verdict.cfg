SPECIFICATION FairSpec
CONSTANTS
  FirstWait = 100
  Limit = 7000
CHECK_DEADLOCK FALSE
INVARIANT TypeOK
INVARIANT HealthyMeansOk
INVARIANT PatientEnough
PROPERTY CheckEnds
