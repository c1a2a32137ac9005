CONSTANTS
  Units = 4
  BlockUnits = 2
  End = End
  PartFrames = 2
  PipeCap = 1
  MaxErrors = 1
  Restores = {r1, r2}
  Nobody = Nobody
  Other = Other
  MaxFaults = 1
SPECIFICATION FairSpec
CHECK_DEADLOCK FALSE
INVARIANT ExportSafe
INVARIANT RestoredIsDump
INVARIANT FailedLeavesNothing
PROPERTY OthersKept
PROPERTY AllEnd
