CONSTANTS
  p1 = p1
  p2 = p2
  t1 = t1
  t2 = t2
  t3 = t3
  Procs = {p1, p2}
  Threads = {t1, t2}
  ProcOf <- OneEach
  Ids = {i1}
  Creds = {c1}
  NoCred = NoCred
  Inodes = {f1, f2, f3}
  Nil = Nil
  MaxCrashes = 1
SPECIFICATION VaultFairSpec
INVARIANT LocksOwned
INVARIANT BlobIsWhole
PROPERTY CallsReturn
