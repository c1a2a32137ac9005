CONSTANTS
  Cap = 2
  LastLine = 2
  MaxSessions = 1
  MaxBreaks = 1
SPECIFICATION LSSpec
CHECK_DEADLOCK FALSE
INVARIANT DroppedOnceAccepted
