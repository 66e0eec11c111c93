SPECIFICATION Spec
CONSTANTS
  g1 = g1
  g2 = g2
  Goals = {g1, g2}
  NoGoal = NoGoal
  Outputs <- AllAnswers
INVARIANTS
  TypeOK
  HistoryTellsTheReply
  DelegatesStart
  SpokenInOrder
CHECK_DEADLOCK FALSE
