SPECIFICATION FairSpec
CONSTANTS
  ParallelSlots = 3
  MaxJobs = 3
  Chats = {c1}
  Tasks = {t1, t2}
  SubmitPriorities <- MainOnly
  SubmitHints <- Unhinted
  ChatHints <- SummarizerHints
  Disturbances <- HandleCancels
  MaxRuns = 1
  MaxTokens = 0
INVARIANTS
  NoSlotLeak
  OneStreamPerSlot
  FifoWithinPriority
PROPERTIES
  QueuedMainGoesFirst
  RequestsEnd
CHECK_DEADLOCK FALSE
