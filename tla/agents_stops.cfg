SPECIFICATION FairSpec
CONSTANTS
  Ids = {i1, i2}
  Topics = {g1, g2}
  Unknown = Unknown
  SubSlots = 1
  MaxActive = 3
  MaxCompleted = 1
  MaxSteps = 2
  Outputs <- WithUserErrors
  Disturbances <- Stops
  MaxRuns = 3
INVARIANTS
  RunningIsAttended
PROPERTIES
  RunningSettles
CHECK_DEADLOCK FALSE
