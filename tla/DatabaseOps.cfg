CONSTANTS
  Calls = {c1, c2}
  Names = {n1, n2}
  Users = {u1}
  NoOwner = NoOwner
  BadOwner = BadOwner
  Nobody = Nobody
  MaxFaults = 2
  MaxDrops = 1
  Provisions = {c1, c2, c3}
  Instances = {i1, i2}
  MaxFails = 2
  IOCalls = {c1, c2}
  IOInstances = {"i1", "i2"}
  IOPostgres = {"i1"}
  IOCommands <- SomeCommands
  IODefault = 1
  IOMax = 2
  MostRows = 2
  LastGen = 2
  IOLastTime = 1
  IOMaxFaults = 1
  IOMaxTokens = 1
  This = this
  Other = other
  SMCalls = {c1, c2, c3}
  Container = TRUE
  SMMaxFaults = 1
  p1 = p1
  Procs = {p1}
  Threads = {c1, c2, c3}
  ProcOf <- OneProcess
  Ids = {d1}
  Creds = {s1, s2}
  NoCred = NoCred
  Inodes = {1, 2, 3}
  Nil = Nil
  MaxCrashes = 1
SPECIFICATION OpsSpec
CHECK_DEADLOCK FALSE
SYMMETRY Symmetry
INVARIANT CreatesAllOrNothing
INVARIANT ProvisionsSound
INVARIANT DestroyedAsMinted
INVARIANT FooterIsWhole
INVARIANT OwnedObjectsKept
INVARIANT MigrationSound
INVARIANT ReadModifyWriteSafe
PROPERTY ImplementsMap
