SPECIFICATION Spec
CONSTANTS
  MaxTurns = 3
  MaxInterrupts = 1
  Channels <- VoiceOnly
  Events <- WithInterrupts
INVARIANTS
  OneUserTurn
  BusyForATurn
  InterruptedUserTurnIsOver
  ToldIsStored
  NoChatLost
CHECK_DEADLOCK FALSE
