CONSTANTS
  p1 = p1
  p2 = p2
  t1 = t1
  t2 = t2
  t3 = t3
  Procs = {p1, p2}
  Threads = {t1, t2}
  ProcOf <- OneEach
  Ids = {i1, i2}
  Creds = {c1}
  NoCred = NoCred
  Inodes = {f1, f2, f3, f4, f5}
  Nil = Nil
  MaxCrashes = 0
SPECIFICATION VaultSpec
PROPERTY NoLostUpdate
