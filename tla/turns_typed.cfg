SPECIFICATION FairSpec
CONSTANTS
  MaxTurns = 3
  MaxInterrupts = 1
  Channels <- VoiceOnly
  Events <- Typed
INVARIANTS
  TypeOK
  AwaitedWillEnd
PROPERTIES
  TurnsEnd
CHECK_DEADLOCK FALSE
