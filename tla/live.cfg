SPECIFICATION FairSpec
CONSTANTS
  Sockets = {s1, s2}
  Turns = {t1, t2, t3}
  Meetings = {m1, m2}
  MaxRetries = 1
  NoSocket = NoSocket
  NoTurn = NoTurn
  NoMeeting = NoMeeting
INVARIANTS
  TypeOK
  ModeMatchesMeeting
  RemainingIsFlushed
PROPERTIES
  MeetingNotReplaced
  SummariesEnd
CHECK_DEADLOCK FALSE
