CONSTANTS
  c1 = c1
  c2 = c2
  None = None
  Commands <- TwoCommands
  Reconnects <- OneReconnect
  MaxChunks = 1
  MaxStreams = 5
  MaxBreaks = 2
  PipeSize = 1
  MaxWrites = 2
  Jobs = {1, 2}
  MaxErrors = 1
SPECIFICATION CommandsSpec
CHECK_DEADLOCK FALSE
INVARIANT OneSenderPerStream
INVARIANT OneVerdict
PROPERTY CommandsAnswered
PROPERTY SessionReachable
INVARIANT OutputWhole
INVARIANT ScriptsWork
