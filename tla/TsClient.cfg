SPECIFICATION FairTsSpec
CONSTANTS
  None = None
  Sockets = {s1, s2}
  MaxAttempts = 2
  MaxTimers = 2
  MaxCommands = 2
  MaxLines = 2
INVARIANTS
  TsTypeOK
  OneSocket
  NoneLeftWaiting
PROPERTIES
  OwnReply
  ReconnectsOrGivesUp
