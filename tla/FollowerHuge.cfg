CONSTANTS
  Containers = {k1}
  Kinds = {"short", "huge"}
  PipeCap = 1
  MaxLines = 3
  MaxStops = 1
  MaxRefused = 1
  Nothing = Nothing
SPECIFICATION LFFairSpec
CHECK_DEADLOCK FALSE
PROPERTY HugeLinesTruncated
