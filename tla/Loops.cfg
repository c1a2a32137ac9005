CONSTANTS
  FastTries = 3
  MinBackoff = 5
  MaxBackoff = 30
  MaxFails = 5
  MaxSignals = 3
  Cap = 2
  MaxLines = 3
  LastLine = 3
  MaxSessions = 2
  MaxBreaks = 2
  Containers = {k1}
  Kinds = {"short", "huge"}
  PipeCap = 1
  MaxStops = 2
  MaxRefused = 1
  Nothing = Nothing
  LastGen = 3
  IOMaxFaults = 2
  LastTime = 2
  MaxStreamFails = 1
  Window = 1
SPECIFICATION LoopsSpec
CHECK_DEADLOCK FALSE
INVARIANT SessionSafe
PROPERTY SessionSettles
INVARIANT Delivery
PROPERTY ImplementsChannel
PROPERTY ShipperDrains
INVARIANT FollowedOnce
PROPERTY RestartsAreFollowed
PROPERTY SecretSettles
PROPERTY MetricsArrive
