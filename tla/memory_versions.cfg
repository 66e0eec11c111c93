SPECIFICATION Spec
CONSTANTS
  Passes = {p1, p2}
  Reports = {}
  Replies = {r1}
  Builds = {b1}
  name = name
  topic = topic
  Keys = {name, topic}
  WarmKeys = {name}
  Batches <- OneFact
  Keep = 1
  Threshold = 2
  MaxRetries = 1
  Disturbances <- Nothing
  NoFact = NoFact
  NoBlock = NoBlock
  NoPass = NoPass
  MaxTurns = 3
PROPERTIES
  NewValueBecomesActive
CHECK_DEADLOCK FALSE
