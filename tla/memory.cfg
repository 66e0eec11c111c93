SPECIFICATION FairSpec
CONSTANTS
  Passes = {p1, p2}
  Reports = {}
  Replies = {r1}
  Builds = {b1}
  name = name
  topic = topic
  Keys = {name, topic}
  WarmKeys = {name}
  Batches <- TwoFacts
  Keep = 1
  Threshold = 2
  MaxRetries = 1
  Disturbances <- AllFaults
  NoFact = NoFact
  NoBlock = NoBlock
  NoPass = NoPass
  MaxTurns = 3
INVARIANTS
  TypeOK
  NothingForgotten
  RecentKept
  StaleIsExplained
PROPERTIES
  SummaryGrows
  LockIsReleased
CHECK_DEADLOCK FALSE
