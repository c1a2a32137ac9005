CONSTANTS
  p1 = p1
  p2 = p2
  p3 = p3
  Absent = Absent
  Empty = Empty
  Procs <- ThreeAgents
  MaxCrashes = 2
  MaxFailures = 1
  MaxKeys = 4
  Lifetime = 2
  Threshold = 1
  MaxTime = 6
  Renews = TRUE
  AKCalls = {c1, c2}
  Users = {u1, u2}
  Keys = {k1, k2}
  Marked = {k1}
  NoFile = NoFile
  LastSecond = 3
  AKMaxFaults = 2
  Unknown = Unknown
  SDCalls = {c1, c2}
  Ports <- ThreePorts
  Requests <- ThreeRequests
  Mains <- ThreeMains
  DropIns <- ThreeDropIns
  NotSet = NotSet
  NoBackup = NoBackup
  Down = Down
  SDLastSecond = 2
  SDMaxFaults = 1
  LastTime = 9
  MaxProbeFails = 1
  Calls = {c1, c2}
  Invocations = {i1, i2}
  Roots = {"tmp", "etc"}
  Files = {"tmp/x", "etc/x"}
  Dir <- InDirectory
  Base <- LastElement
  Links <- LinkedTo
  Named = {"tmp", "tmp/x"}
  Nowhere = Nowhere
  Blocked = {"etc/x"}
  FirstMode = "4755"
  Browser = Browser
  LastTick = 3
  MaxAge = 1
  Cap = 1
  MaxEvents = 1
SPECIFICATION HostSpec
CHECK_DEADLOCK FALSE
SYMMETRY Symmetry
INVARIANT OpenVaultUsable
PROPERTY KeyNeverReplaced
INVARIANT PairMatches
INVARIANT KeysKept
PROPERTY UpdatesSound
INVARIANT MetricsSound
INVARIANT BackupsSound
PROPERTY FreshBackupsKept
PROPERTY BlockedByNameKept
