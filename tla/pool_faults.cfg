SPECIFICATION Spec
CONSTANTS
  ParallelSlots = 3
  MaxJobs = 2
  Chats = {c1}
  Tasks = {t1, t2}
  SubmitPriorities <- MainOnly
  SubmitHints <- Unhinted
  ChatHints <- SummarizerHints
  Disturbances <- Anything
  MaxRuns = 2
  MaxTokens = 1
SYMMETRY Symmetry
INVARIANTS
  TypeOK
  ReservationsExclusive
  MainSlotComesBack
PROPERTIES
  CloseIsFinal
CHECK_DEADLOCK FALSE
