CONSTANTS
  p1 = p1
  p2 = p2
  p3 = p3
  Absent = Absent
  Empty = Empty
  Procs <- ThreeAgents
  MaxCrashes = 0
  MaxFailures = 0
  MaxKeys = 1
  Lifetime = 2
  Threshold = 1
  MaxTime = 0
  Renews = TRUE
  AKCalls = {c1}
  Users = {u1, u2}
  Keys = {k1, k2}
  Marked = {k1}
  NoFile = NoFile
  LastSecond = 1
  AKMaxFaults = 0
  Unknown = Unknown
  SDCalls = {c1, c2}
  Ports <- ThreePorts
  Requests <- ThreeRequests
  Mains <- ThreeMains
  DropIns <- ThreeDropIns
  NotSet = NotSet
  NoBackup = NoBackup
  Down = Down
  SDLastSecond = 2
  SDMaxFaults = 0
  LastTime = 1
  MaxProbeFails = 0
  Calls = {}
  Invocations = {}
  Roots = {"tmp", "etc"}
  Files = {"tmp/x", "etc/x"}
  Dir <- InDirectory
  Base <- LastElement
  Links <- LinkedTo
  Named = {}
  Nowhere = Nowhere
  Blocked = {"etc/x"}
  FirstMode = "0644"
  Browser = Browser
  LastTick = 1
  MaxAge = 0
  Cap = 0
  MaxEvents = 0
SPECIFICATION HostSpec
CHECK_DEADLOCK FALSE
SYMMETRY Symmetry
PROPERTY FailedValidationRestores
