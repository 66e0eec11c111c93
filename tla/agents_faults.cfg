SPECIFICATION Spec
CONSTANTS
  Ids = {i1}
  Topics = {g1}
  Unknown = Unknown
  SubSlots = 2
  MaxActive = 3
  MaxCompleted = 3
  MaxSteps = 2
  Outputs <- Confused
  Disturbances <- Anything
  MaxRuns = 3
INVARIANTS
  HeldIsUsed
  Stoppable
PROPERTIES
  StopIsFinal
CHECK_DEADLOCK FALSE
