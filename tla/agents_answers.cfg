SPECIFICATION Spec
CONSTANTS
  Ids = {i1, i2, i3}
  Topics = {g1, g2}
  Unknown = Unknown
  SubSlots = 1
  MaxActive = 3
  MaxCompleted = 1
  MaxSteps = 2
  Outputs <- Sensible
  Disturbances <- Answers
  MaxRuns = 3
SYMMETRY Symmetry
INVARIANTS
  TypeOK
  OneRunPerTopic
PROPERTIES
  LifecycleSpec
CHECK_DEADLOCK FALSE
