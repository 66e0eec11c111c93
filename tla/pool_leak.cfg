SPECIFICATION Spec
CONSTANTS
  ParallelSlots = 3
  MaxJobs = 3
  Chats = {c1}
  Tasks = {t1, t2}
  SubmitPriorities <- MainOnly
  SubmitHints <- Unhinted
  ChatHints <- SummarizerHints
  Disturbances <- StopTasks
  MaxRuns = 1
  MaxTokens = 0
INVARIANTS
  NoSlotLeak
CHECK_DEADLOCK FALSE
