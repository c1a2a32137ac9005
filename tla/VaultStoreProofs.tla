-------------------------- MODULE VaultStoreProofs --------------------------
(***************************************************************************)
(* Theorems about the vault, for any number of processes, goroutines, ids, *)
(* credentials and files.  The locks are always owned; and in ONE process  *)
(* the vault is the atomic map of VaultMap.                                *)
(***************************************************************************)
EXTENDS VaultStore, TLAPS

(***************************************************************************)
(* The strengthening of LocksOwned that is inductive: the owner of a lock  *)
(* also knows that it owns it, and a goroutine has a descriptor, or a      *)
(* temporary file, exactly where its step says so.                         *)
(***************************************************************************)
Writing == {"fill", "sync", "rename"}    \* with a temporary file

LocksHeld ==
  \A t \in Threads :
    /\ vpc[t] \in Inside => vmu[ProcOf[t]] = t
    /\ vpc[t] \in Holding \cup {"flock"} => fd[t] \in Inodes
    /\ vpc[t] \in Holding => flock[fd[t]] = t
    /\ vpc[t] \in Writing => tmp[t] \in Inodes
    /\ vpc[t] \notin Writing => tmp[t] = Nil

LockInv == VaultTypeOK /\ LocksOwned /\ LocksHeld

(* The maps that operations compute are maps. *)
LEMMA MapTyping ==
  /\ EmptyMap \in Maps
  /\ \A m \in Maps, r \in VaultRequests \cup {Abs!NoReq} : Abs!Apply(r, m) \in Maps
BY DEF EmptyMap, Maps, VaultRequests, Abs!EmptyMap, Abs!Maps, Abs!Requests, Abs!NoReq, Abs!Apply

LEMMA StoreTyping == VaultTypeOK => storeBar \in Maps
BY MapTyping DEF VaultTypeOK, storeBar, EmptyMap, Abs!EmptyMap

LEMMA LockInvInit == VaultInit => LockInv
BY MapTyping, VaultStoreAssumption
  DEF VaultInit, LockInv, VaultTypeOK, LocksOwned, LocksHeld, Holding, Inside, Writing

(* One step of a goroutine keeps the invariant, one lemma per action.      *)
LEMMA LockInvNext == LockInv /\ [VaultNext]_vaultVars => LockInv'
<1> SUFFICES ASSUME LockInv, [VaultNext]_vaultVars PROVE LockInv'
  OBVIOUS
<1> USE VaultStoreAssumption DEF LockInv, VaultGoto, Decide, Holding, Inside, Writing
<1>1. ASSUME NEW t \in Threads, NEW r \in VaultRequests, Call(t, r) PROVE LockInv'
  <2>1. VaultTypeOK'
    BY <1>1 DEF Call, VaultTypeOK, lockVars, fileVars
  <2>2. LocksOwned'
    BY <1>1 DEF Call, VaultTypeOK, LocksOwned, lockVars, fileVars
  <2>3. LocksHeld'
    BY <1>1 DEF Call, VaultTypeOK, LocksHeld, lockVars, fileVars
  <2> QED BY <2>1, <2>2, <2>3
<1>2. ASSUME NEW t \in Threads, LockMu(t) PROVE LockInv'
  <2>1. VaultTypeOK'
    BY <1>2 DEF LockMu, VaultTypeOK, fileVars, callVars
  <2>2. LocksOwned'
    BY <1>2 DEF LockMu, VaultTypeOK, LocksOwned, fileVars, callVars
  <2>3. LocksHeld'
    BY <1>2 DEF LockMu, VaultTypeOK, LocksHeld, fileVars, callVars
  <2> QED BY <2>1, <2>2, <2>3
<1>3. ASSUME NEW t \in Threads, OpenBlob(t) PROVE LockInv'
  <2>1. VaultTypeOK'
    <3>1. CASE blob # Nil
      BY <1>3, <3>1 DEF OpenBlob, VaultTypeOK, callVars
    <3>2. CASE blob = Nil
      <4>1. PICK i \in Inodes : /\ blob' = i
                               /\ Forget({i})
                               /\ fd' = [fd EXCEPT ![t] = i]
        BY <1>3, <3>2 DEF OpenBlob, FreeInodes
      <4> QED BY <1>3, <4>1, MapTyping DEF OpenBlob, VaultTypeOK, Forget, callVars
    <3> QED BY <3>1, <3>2
  <2>0. /\ vpc[t] = "open" /\ vpc' = [vpc EXCEPT ![t] = "flock"]
        /\ \E i \in Inodes : fd' = [fd EXCEPT ![t] = i]
        /\ UNCHANGED <<vmu, flock, tmp>>
    BY <1>3 DEF OpenBlob, VaultTypeOK, FreeInodes
  <2>2. LocksOwned'
    BY <2>0 DEF VaultTypeOK, LocksOwned
  <2>3. LocksHeld'
    BY <2>0 DEF VaultTypeOK, LocksHeld
  <2> QED BY <2>1, <2>2, <2>3
<1>4. ASSUME NEW t \in Threads, Flock(t) PROVE LockInv'
  <2>1. VaultTypeOK'
    BY <1>4 DEF Flock, VaultTypeOK, fileVars, callVars
  <2>2. LocksOwned'
    BY <1>4 DEF Flock, VaultTypeOK, LocksOwned, LocksHeld, fileVars, callVars
  <2>3. LocksHeld'
    BY <1>4 DEF Flock, VaultTypeOK, LocksHeld, fileVars, callVars
  <2> QED BY <2>1, <2>2, <2>3
<1>5. ASSUME NEW t \in Threads, ReadAll(t) PROVE LockInv'
  <2>1. VaultTypeOK'
    BY <1>5, StoreTyping DEF ReadAll, VaultTypeOK, lockVars, fileVars
  <2>2. LocksOwned'
    BY <1>5 DEF ReadAll, VaultTypeOK, LocksOwned, lockVars, fileVars
  <2>3. LocksHeld'
    BY <1>5 DEF ReadAll, VaultTypeOK, LocksHeld, lockVars, fileVars
  <2> QED BY <2>1, <2>2, <2>3
<1>6. ASSUME NEW t \in Threads, CreateTemp(t) PROVE LockInv'
  <2>1. PICK i \in Inodes : /\ tmp' = [tmp EXCEPT ![t] = i]
                            /\ durable' = [durable EXCEPT ![i] = "part"]
    BY <1>6 DEF CreateTemp, FreeInodes
  <2>2. VaultTypeOK'
    BY <1>6, <2>1 DEF CreateTemp, VaultTypeOK, lockVars, callVars
  <2>3. LocksOwned'
    BY <1>6 DEF CreateTemp, VaultTypeOK, LocksOwned, lockVars, callVars
  <2>4. LocksHeld'
    BY <1>6, <2>1 DEF CreateTemp, VaultTypeOK, LocksHeld, lockVars, callVars
  <2> QED BY <2>2, <2>3, <2>4
<1>13. ASSUME NEW t \in Threads, WriteTemp(t) PROVE LockInv'
  <2>1. VaultTypeOK'
    <3>1. Abs!Apply(req[t], mem[t]) \in Maps
      BY <1>13, MapTyping DEF WriteTemp, VaultTypeOK
    <3> QED BY <1>13, <3>1 DEF WriteTemp, VaultTypeOK, lockVars, callVars
  <2>2. LocksOwned'
    BY <1>13 DEF WriteTemp, VaultTypeOK, LocksOwned, lockVars, callVars
  <2>3. LocksHeld'
    BY <1>13 DEF WriteTemp, VaultTypeOK, LocksHeld, lockVars, callVars
  <2> QED BY <2>1, <2>2, <2>3
<1>14. ASSUME NEW t \in Threads, SyncTemp(t) PROVE LockInv'
  <2>1. VaultTypeOK'
    BY <1>14 DEF SyncTemp, VaultTypeOK, lockVars, callVars
  <2>2. LocksOwned'
    BY <1>14 DEF SyncTemp, VaultTypeOK, LocksOwned, lockVars, callVars
  <2>3. LocksHeld'
    BY <1>14 DEF SyncTemp, VaultTypeOK, LocksHeld, lockVars, callVars
  <2> QED BY <2>1, <2>2, <2>3
<1>7. ASSUME NEW t \in Threads, Rename(t) PROVE LockInv'
  <2>1. VaultTypeOK'
    BY <1>7, MapTyping DEF Rename, VaultTypeOK, LocksHeld, lockVars, Forget
  <2>2. LocksOwned'
    BY <1>7 DEF Rename, VaultTypeOK, LocksOwned, lockVars
  <2>3. LocksHeld'
    BY <1>7 DEF Rename, VaultTypeOK, LocksHeld, lockVars
  <2> QED BY <2>1, <2>2, <2>3
<1>8. ASSUME NEW t \in Threads, SyscallFails(t) PROVE LockInv'
  <2>1. VaultTypeOK'
    BY <1>8, MapTyping DEF SyscallFails, VaultTypeOK, Forget
  <2>2. LocksOwned'
    BY <1>8 DEF SyscallFails, VaultTypeOK, LocksOwned
  <2>3. LocksHeld'
    BY <1>8 DEF SyscallFails, VaultTypeOK, LocksHeld
  <2> QED BY <2>1, <2>2, <2>3
<1>9. ASSUME NEW t \in Threads, FUnlock(t) PROVE LockInv'
  <2>1. VaultTypeOK'
    BY <1>9 DEF FUnlock, VaultTypeOK, fileVars, callVars
  <2>2. LocksOwned'
    BY <1>9 DEF FUnlock, VaultTypeOK, LocksOwned, LocksHeld, fileVars, callVars
  <2>3. LocksHeld'
    BY <1>9 DEF FUnlock, VaultTypeOK, LocksOwned, LocksHeld, fileVars, callVars
  <2> QED BY <2>1, <2>2, <2>3
<1>10. ASSUME NEW t \in Threads, UnlockMu(t) PROVE LockInv'
  <2>1. VaultTypeOK'
    BY <1>10, MapTyping DEF UnlockMu, VaultTypeOK, fileVars
  <2>2. LocksOwned'
    BY <1>10 DEF UnlockMu, VaultTypeOK, LocksOwned, LocksHeld, fileVars
  <2>3. LocksHeld'
    BY <1>10 DEF UnlockMu, VaultTypeOK, LocksHeld, fileVars
  <2> QED BY <2>1, <2>2, <2>3
<1>11. ASSUME NEW p \in Procs, Crash(p) PROVE LockInv'
  <2>1. VaultTypeOK'
    BY <1>11, MapTyping DEF Crash, Die, VaultTypeOK, Forget
  <2>2. LocksOwned'
    BY <1>11 DEF Crash, Die, VaultTypeOK, LocksOwned
  <2>3. LocksHeld'
    BY <1>11 DEF Crash, Die, VaultTypeOK, LocksOwned, LocksHeld
  <2> QED BY <2>1, <2>2, <2>3
<1>15. ASSUME PowerFail PROVE LockInv'
  <2>1. VaultTypeOK'
    BY <1>15, MapTyping DEF PowerFail, Die, VaultTypeOK
  <2>2. LocksOwned'
    BY <1>15 DEF PowerFail, Die, VaultTypeOK, LocksOwned
  <2>3. LocksHeld'
    BY <1>15 DEF PowerFail, Die, VaultTypeOK, LocksOwned, LocksHeld
  <2> QED BY <2>1, <2>2, <2>3
<1>12. ASSUME UNCHANGED vaultVars PROVE LockInv'
  BY <1>12 DEF vaultVars, VaultTypeOK, LocksOwned, LocksHeld
<1> QED
  BY <1>1, <1>2, <1>3, <1>4, <1>5, <1>6, <1>7, <1>8, <1>9, <1>10, <1>11, <1>12,
     <1>13, <1>14, <1>15
  DEF VaultNext, VaultStep

(***************************************************************************)
(* For any processes and goroutines, every lock of vault.go and            *)
(* lockfile_unix.go that is held has a live owner inside an operation.     *)
(***************************************************************************)
THEOREM LocksAlwaysOwned == VaultSpec => [](VaultTypeOK /\ LocksOwned)
<1>1. VaultSpec => []LockInv
  BY LockInvInit, LockInvNext, PTL DEF VaultSpec
<1> QED
  BY <1>1, PTL DEF LockInv

-----------------------------------------------------------------------------
(***************************************************************************)
(* Temporary files are private: no other goroutine's, no dead process's,   *)
(* and never the blob before the rename; and each holds what its writer    *)
(* computed, on the disk once it is about to be renamed.                   *)
(***************************************************************************)
BlobIsCommitted ==
  blob # Nil => /\ blob \notin orphans
                /\ \A t \in Threads : tmp[t] # blob
                /\ durable[blob] = "disk"

TempsPrivate ==
  \A t \in Threads : tmp[t] # Nil =>
    /\ tmp[t] \notin orphans
    /\ \A u \in Threads : tmp[u] = tmp[t] => u = t

TempsWritten ==
  \A t \in Threads :
    /\ vpc[t] \in {"sync", "rename"} => content[tmp[t]] = Abs!Apply(req[t], mem[t])
    /\ vpc[t] = "rename" => durable[tmp[t]] = "disk"

FileInv == BlobIsCommitted /\ TempsPrivate /\ TempsWritten

LEMMA FileInvInit == VaultInit => FileInv
BY VaultStoreAssumption DEF VaultInit, FileInv, BlobIsCommitted, TempsPrivate, TempsWritten

LEMMA FileInvNext == LockInv /\ FileInv /\ [VaultNext]_vaultVars => FileInv'
<1> SUFFICES ASSUME LockInv, FileInv, [VaultNext]_vaultVars PROVE FileInv'
  OBVIOUS
<1> USE VaultStoreAssumption DEF LockInv, LocksHeld, VaultTypeOK, VaultGoto, Decide, Writing
<1>1. ASSUME NEW t \in Threads, NEW r \in VaultRequests, Call(t, r) PROVE FileInv'
  BY <1>1 DEF Call, FileInv, BlobIsCommitted, TempsPrivate, TempsWritten, fileVars
<1>2. ASSUME NEW t \in Threads, LockMu(t) PROVE FileInv'
  BY <1>2 DEF LockMu, FileInv, BlobIsCommitted, TempsPrivate, TempsWritten,
              fileVars, callVars
<1>3. ASSUME NEW t \in Threads, OpenBlob(t) PROVE FileInv'
  <2>1. CASE blob # Nil
    BY <1>3, <2>1 DEF OpenBlob, FileInv, BlobIsCommitted, TempsPrivate,
                      TempsWritten, callVars
  <2>2. CASE blob = Nil
    <3>1. PICK i \in FreeInodes : blob' = i /\ Forget({i})
      BY <1>3, <2>2 DEF OpenBlob
    <3>2. i \in Inodes /\ i \notin orphans /\ \A u \in Threads : tmp[u] # i
      BY DEF FreeInodes
    <3>3. BlobIsCommitted'
      BY <1>3, <3>1, <3>2 DEF OpenBlob, BlobIsCommitted, Forget
    <3>4. TempsPrivate'
      BY <1>3 DEF OpenBlob, FileInv, TempsPrivate
    <3>5. TempsWritten'
      BY <1>3, <3>1, <3>2 DEF OpenBlob, FileInv, TempsWritten, Forget, callVars
    <3> QED BY <3>3, <3>4, <3>5 DEF FileInv
  <2> QED BY <2>1, <2>2
<1>4. ASSUME NEW t \in Threads, Flock(t) PROVE FileInv'
  BY <1>4 DEF Flock, FileInv, BlobIsCommitted, TempsPrivate, TempsWritten,
              fileVars, callVars
<1>5. ASSUME NEW t \in Threads, ReadAll(t) PROVE FileInv'
  BY <1>5 DEF ReadAll, FileInv, BlobIsCommitted, TempsPrivate, TempsWritten,
              fileVars
<1>6. ASSUME NEW t \in Threads, CreateTemp(t) PROVE FileInv'
  <2>1. PICK i \in FreeInodes : /\ tmp' = [tmp EXCEPT ![t] = i]
                                /\ durable' = [durable EXCEPT ![i] = "part"]
    BY <1>6 DEF CreateTemp
  <2>2. i \in Inodes /\ i # blob /\ i \notin orphans /\ \A u \in Threads : tmp[u] # i
    BY DEF FreeInodes
  <2>3. BlobIsCommitted'
    BY <1>6, <2>1, <2>2 DEF CreateTemp, FileInv, BlobIsCommitted
  <2>4. TempsPrivate'
    BY <1>6, <2>1, <2>2 DEF CreateTemp, FileInv, TempsPrivate
  <2>5. TempsWritten'
    BY <1>6, <2>1, <2>2 DEF CreateTemp, FileInv, TempsWritten, callVars
  <2> QED BY <2>3, <2>4, <2>5 DEF FileInv
<1>13. ASSUME NEW t \in Threads, WriteTemp(t) PROVE FileInv'
  <2>1. BlobIsCommitted'
    BY <1>13 DEF WriteTemp, FileInv, BlobIsCommitted
  <2>2. TempsPrivate'
    BY <1>13 DEF WriteTemp, FileInv, TempsPrivate
  <2>3. TempsWritten'
    BY <1>13 DEF WriteTemp, FileInv, TempsPrivate, TempsWritten, callVars
  <2> QED BY <2>1, <2>2, <2>3 DEF FileInv
<1>14. ASSUME NEW t \in Threads, SyncTemp(t) PROVE FileInv'
  <2>1. BlobIsCommitted'
    BY <1>14 DEF SyncTemp, FileInv, BlobIsCommitted
  <2>2. TempsPrivate'
    BY <1>14 DEF SyncTemp, FileInv, TempsPrivate
  <2>3. TempsWritten'
    BY <1>14 DEF SyncTemp, FileInv, TempsPrivate, TempsWritten, callVars
  <2> QED BY <2>1, <2>2, <2>3 DEF FileInv
<1>7. ASSUME NEW t \in Threads, Rename(t) PROVE FileInv'
  <2>1. BlobIsCommitted' /\ TempsPrivate'
    BY <1>7 DEF Rename, Forget, FileInv, BlobIsCommitted, TempsPrivate, TempsWritten
  <2>2. TempsWritten'
    BY <1>7 DEF Rename, Forget, FileInv, BlobIsCommitted, TempsWritten
  <2> QED BY <2>1, <2>2 DEF FileInv
<1>8. ASSUME NEW t \in Threads, SyscallFails(t) PROVE FileInv'
  <2>1. BlobIsCommitted' /\ TempsPrivate'
    BY <1>8 DEF SyscallFails, Forget, FileInv, BlobIsCommitted, TempsPrivate
  <2>2. TempsWritten'
    BY <1>8 DEF SyscallFails, Forget, FileInv, TempsPrivate, TempsWritten
  <2> QED BY <2>1, <2>2 DEF FileInv
<1>9. ASSUME NEW t \in Threads, FUnlock(t) PROVE FileInv'
  BY <1>9 DEF FUnlock, FileInv, BlobIsCommitted, TempsPrivate, TempsWritten,
              fileVars, callVars
<1>10. ASSUME NEW t \in Threads, UnlockMu(t) PROVE FileInv'
  BY <1>10 DEF UnlockMu, FileInv, BlobIsCommitted, TempsPrivate, TempsWritten,
               fileVars
<1>11. ASSUME NEW p \in Procs, Crash(p) PROVE FileInv'
  <2>1. BlobIsCommitted'
    BY <1>11 DEF Crash, Die, Forget, FileInv, BlobIsCommitted
  <2>2. TempsPrivate'
    BY <1>11 DEF Crash, Die, FileInv, TempsPrivate
  <2>3. TempsWritten'
    BY <1>11 DEF Crash, Die, Forget, FileInv, TempsPrivate, TempsWritten
  <2> QED BY <2>1, <2>2, <2>3 DEF FileInv
<1>15. ASSUME PowerFail PROVE FileInv'
  <2>1. BlobIsCommitted'
    BY <1>15 DEF PowerFail, Die, FileInv, BlobIsCommitted
  <2>2. TempsPrivate'
    BY <1>15 DEF PowerFail, Die, FileInv, TempsPrivate
  <2>3. TempsWritten'
    BY <1>15 DEF PowerFail, Die, TempsWritten
  <2> QED BY <2>1, <2>2, <2>3 DEF FileInv
<1>12. ASSUME UNCHANGED vaultVars PROVE FileInv'
  BY <1>12 DEF vaultVars, FileInv, BlobIsCommitted, TempsPrivate, TempsWritten
<1> QED
  BY <1>1, <1>2, <1>3, <1>4, <1>5, <1>6, <1>7, <1>8, <1>9, <1>10, <1>11, <1>12,
     <1>13, <1>14, <1>15
  DEF VaultNext, VaultStep

(***************************************************************************)
(* For any processes, and wherever they die or the power goes: the file at *)
(* the blob's path is whole (vault.go writeAll: write, Sync, rename).      *)
(***************************************************************************)
THEOREM BlobAlwaysWhole == VaultSpec => []BlobIsWhole
<1>1. VaultSpec => [](LockInv /\ FileInv)
  BY LockInvInit, LockInvNext, FileInvInit, FileInvNext, PTL DEF VaultSpec
<1>2. FileInv => BlobIsWhole
  BY DEF FileInv, BlobIsCommitted, BlobIsWhole
<1> QED
  BY <1>1, <1>2, PTL

-----------------------------------------------------------------------------
(***************************************************************************)
(* One process: v.mu alone keeps everybody else out, so that the file an   *)
(* operation locked stays the blob, and what it read stays current.        *)
(***************************************************************************)
OneProcess == \A t, u \in Threads : ProcOf[t] = ProcOf[u]

SoloInv ==
  \A t \in Threads :
    /\ vpc[t] \in {"flock", "read", "write"} \cup Writing => blob # Nil /\ fd[t] = blob
    /\ vpc[t] \in {"write"} \cup Writing => mem[t] = storeBar

LEMMA OneInside ==
  ASSUME OneProcess, LockInv,
         NEW t \in Threads, NEW u \in Threads, vpc[t] \in Inside, vpc[u] \in Inside
  PROVE  t = u
BY DEF OneProcess, LockInv, LocksHeld

LEMMA SoloInvInit == VaultInit => SoloInv
BY DEF VaultInit, SoloInv, Writing

LEMMA SoloInvNext ==
  OneProcess /\ LockInv /\ FileInv /\ SoloInv /\ [VaultNext]_vaultVars => SoloInv'
<1> SUFFICES ASSUME OneProcess, LockInv, FileInv, SoloInv, [VaultNext]_vaultVars
             PROVE  SoloInv'
  OBVIOUS
<1>type. VaultTypeOK /\ LocksHeld
  BY DEF LockInv
<1>alone. ASSUME NEW t \in Threads, NEW u \in Threads, vpc[t] \in Inside, vpc[u] \in Inside
          PROVE  t = u
  BY <1>alone, OneInside
<1> USE VaultStoreAssumption DEF VaultTypeOK, VaultGoto, Decide, Inside, Holding, Writing
<1>1. ASSUME NEW t \in Threads, NEW r \in VaultRequests, Call(t, r) PROVE SoloInv'
  BY <1>1, <1>type DEF Call, SoloInv, storeBar, lockVars, fileVars
<1>2. ASSUME NEW t \in Threads, LockMu(t) PROVE SoloInv'
  BY <1>2, <1>type DEF LockMu, SoloInv, storeBar, fileVars, callVars
<1>3. ASSUME NEW t \in Threads, OpenBlob(t) PROVE SoloInv'
  <2>1. vpc[t] = "open" /\ vpc' = [vpc EXCEPT ![t] = "flock"]
    BY <1>3 DEF OpenBlob
  <2>2. \A u \in Threads \ {t} : vpc'[u] = vpc[u] /\ vpc[u] \notin Inside
    BY <2>1, <1>alone, <1>type
  <2>3. blob' # Nil /\ fd'[t] = blob'
    BY <1>3, <1>type DEF OpenBlob, FreeInodes
  <2> QED BY <2>1, <2>2, <2>3, <1>type DEF SoloInv
<1>4. ASSUME NEW t \in Threads, Flock(t) PROVE SoloInv'
  BY <1>4, <1>type DEF Flock, SoloInv, storeBar, fileVars, callVars
<1>5. ASSUME NEW t \in Threads, ReadAll(t) PROVE SoloInv'
  BY <1>5, <1>type DEF ReadAll, SoloInv, storeBar, lockVars, fileVars
<1>6. ASSUME NEW t \in Threads, CreateTemp(t) PROVE SoloInv'
  <2>1. blob' = blob /\ storeBar' = storeBar
    BY <1>6, <1>type DEF CreateTemp, storeBar
  <2> QED BY <1>6, <2>1, <1>type DEF CreateTemp, SoloInv, lockVars
<1>13. ASSUME NEW t \in Threads, WriteTemp(t) PROVE SoloInv'
  <2>1. blob' = blob /\ storeBar' = storeBar
    BY <1>13, <1>type DEF WriteTemp, storeBar, LocksHeld, FileInv, BlobIsCommitted
  <2> QED BY <1>13, <2>1, <1>type DEF WriteTemp, SoloInv, lockVars
<1>14. ASSUME NEW t \in Threads, SyncTemp(t) PROVE SoloInv'
  <2>1. blob' = blob /\ storeBar' = storeBar
    BY <1>14, <1>type DEF SyncTemp, storeBar
  <2> QED BY <1>14, <2>1, <1>type DEF SyncTemp, SoloInv, lockVars
<1>7. ASSUME NEW t \in Threads, Rename(t) PROVE SoloInv'
  <2>1. vpc[t] = "rename" /\ vpc' = [vpc EXCEPT ![t] = "funlock"]
    BY <1>7 DEF Rename
  <2>2. \A u \in Threads \ {t} : vpc'[u] = vpc[u] /\ vpc[u] \notin Inside
    BY <2>1, <1>alone, <1>type
  <2> QED BY <2>1, <2>2, <1>type DEF SoloInv
<1>8. ASSUME NEW t \in Threads, SyscallFails(t) PROVE SoloInv'
  <2>1. blob' = blob /\ storeBar' = storeBar
    BY <1>8, <1>type DEF SyscallFails, Forget, storeBar, FileInv, BlobIsCommitted
  <2> QED BY <1>8, <2>1, <1>type DEF SyscallFails, SoloInv
<1>9. ASSUME NEW t \in Threads, FUnlock(t) PROVE SoloInv'
  BY <1>9, <1>type DEF FUnlock, SoloInv, storeBar, fileVars, callVars
<1>10. ASSUME NEW t \in Threads, UnlockMu(t) PROVE SoloInv'
  BY <1>10, <1>type DEF UnlockMu, SoloInv, storeBar, fileVars
<1>11. ASSUME NEW p \in Procs, Crash(p) PROVE SoloInv'
  <2>1. blob' = blob /\ storeBar' = storeBar
    BY <1>11, <1>type DEF Crash, Die, Forget, storeBar, FileInv, BlobIsCommitted
  <2> QED BY <1>11, <2>1, <1>type DEF Crash, Die, SoloInv
<1>15. ASSUME PowerFail PROVE SoloInv'
  BY <1>15, <1>type DEF PowerFail, Die, SoloInv
<1>12. ASSUME UNCHANGED vaultVars PROVE SoloInv'
  BY <1>12 DEF vaultVars, SoloInv, storeBar
<1> QED
  BY <1>1, <1>2, <1>3, <1>4, <1>5, <1>6, <1>7, <1>8, <1>9, <1>10, <1>11, <1>12,
     <1>13, <1>14, <1>15
  DEF VaultNext, VaultStep

SoloIInv == LockInv /\ FileInv /\ SoloInv

LEMMA SoloIInvAlways == ASSUME OneProcess PROVE VaultSpec => []SoloIInv
<1>1. VaultInit => SoloIInv
  BY LockInvInit, FileInvInit, SoloInvInit DEF SoloIInv
<1>2. SoloIInv /\ [VaultNext]_vaultVars => SoloIInv'
  BY LockInvNext, FileInvNext, SoloInvNext DEF SoloIInv
<1> QED
  BY <1>1, <1>2, PTL DEF VaultSpec

(***************************************************************************)
(* Any goroutines of one process: what an operation writes back is its     *)
(* change applied to the current map, on a file that is still the blob.    *)
(***************************************************************************)
THEOREM ReadModifyWriteAlwaysSafe ==
  ASSUME OneProcess PROVE VaultSpec => []ReadModifyWriteSafe
<1>1. SoloIInv => ReadModifyWriteSafe
  BY DEF SoloIInv, SoloInv, ReadModifyWriteSafe, Writing
<1> QED
  BY <1>1, SoloIInvAlways, PTL

-----------------------------------------------------------------------------
(***************************************************************************)
(* The refinement.  ReadAll (for Get, List and a Delete of nothing) and    *)
(* Rename are the points where an operation takes effect; SyscallFails and    *)
(* UnlockMu end it, Crash and PowerFail drop it; every other step changes  *)
(* nothing a caller can see.                                               *)
(***************************************************************************)
Visible == <<storeBar, statusBar, req, res>>

LEMMA RefinesInit == VaultInit => Abs!AbsInit
BY DEF VaultInit, Abs!AbsInit, storeBar, statusBar, StatusOf, Abs!EmptyMap

(* The steps that take nothing to the map's surface. *)
LEMMA RefinesStutter ==
  ASSUME LockInv, FileInv, NEW t \in Threads,
         \/ LockMu(t) \/ OpenBlob(t) \/ Flock(t)
         \/ CreateTemp(t) \/ WriteTemp(t) \/ SyncTemp(t) \/ FUnlock(t)
  PROVE  UNCHANGED Visible
<1>type. VaultTypeOK
  BY DEF LockInv
<1>1. req' = req /\ res' = res
  BY DEF LockMu, OpenBlob, Flock, CreateTemp, WriteTemp, SyncTemp, FUnlock, callVars
<1>2. statusBar' = statusBar
  BY <1>type DEF LockMu, OpenBlob, Flock, CreateTemp, WriteTemp, SyncTemp, FUnlock,
                 VaultGoto, statusBar, StatusOf, VaultTypeOK
<1>3. storeBar' = storeBar
  <2>1. CASE LockMu(t) \/ Flock(t) \/ FUnlock(t) \/ CreateTemp(t) \/ SyncTemp(t)
    BY <2>1 DEF LockMu, Flock, FUnlock, CreateTemp, SyncTemp, fileVars, storeBar
  <2>2. CASE OpenBlob(t)
    BY <2>2, <1>type, VaultStoreAssumption
    DEF OpenBlob, storeBar, FreeInodes, Forget, VaultTypeOK, EmptyMap, Abs!EmptyMap
  <2>3. CASE WriteTemp(t)
    BY <2>3, <1>type, VaultStoreAssumption
    DEF WriteTemp, storeBar, VaultTypeOK, LockInv, LocksHeld, Writing, FileInv, BlobIsCommitted
  <2> QED BY <2>1, <2>2, <2>3
<1> QED BY <1>1, <1>2, <1>3 DEF Visible

LEMMA RefinesRead ==
  ASSUME LockInv, NEW t \in Threads, ReadAll(t)
  PROVE  Abs!AbsCommit(t) \/ UNCHANGED Visible
<1>type. VaultTypeOK /\ storeBar \in Maps
  BY StoreTyping DEF LockInv
<1> DEFINE r == req[t]
           readOnly == r.kind \in {"get", "list"}
                         \/ (r.kind = "delete" /\ storeBar[r.id] = NoCred)
<1>1. storeBar' = storeBar /\ req' = req /\ vpc[t] = "read"
  BY DEF ReadAll, fileVars, storeBar
<1>2. CASE readOnly
  <2>1. res' = [res EXCEPT ![t] = Abs!Result(req[t], storeBar)]
    BY <1>2 DEF ReadAll, Decide
  <2>2. statusBar' = [statusBar EXCEPT ![t] = "done"] /\ statusBar[t] = "pending"
    BY <1>1, <1>2, <1>type DEF ReadAll, VaultGoto, statusBar, StatusOf, VaultTypeOK
  <2>3. Abs!Apply(req[t], storeBar) = storeBar
    BY <1>2, <1>type DEF Abs!Apply, Maps, Abs!Maps
  <2> QED BY <1>1, <2>1, <2>2, <2>3 DEF Abs!AbsCommit
<1>3. CASE ~readOnly
  <2>1. res' = res
    BY <1>3 DEF ReadAll
  <2>2. statusBar' = statusBar
    BY <1>1, <1>3, <1>type DEF ReadAll, VaultGoto, statusBar, StatusOf, VaultTypeOK
  <2> QED BY <1>1, <2>1, <2>2 DEF Visible
<1> QED BY <1>2, <1>3

LEMMA RefinesRename ==
  ASSUME SoloIInv, NEW t \in Threads, Rename(t)
  PROVE  Abs!AbsCommit(t)
<1>type. VaultTypeOK /\ LocksHeld
  BY DEF SoloIInv, LockInv
<1>1. vpc[t] = "rename" /\ tmp[t] \in Inodes /\ tmp[t] # blob /\ mem[t] = storeBar
  BY <1>type, VaultStoreAssumption
  DEF Rename, SoloIInv, FileInv, BlobIsCommitted, SoloInv, LocksHeld, Writing
<1>2. storeBar' = content[tmp[t]]
  BY <1>1, VaultStoreAssumption DEF Rename, Forget, storeBar
<1>3. content[tmp[t]] = Abs!Apply(req[t], storeBar)
  BY <1>1 DEF SoloIInv, FileInv, TempsWritten
<1>4. res' = [res EXCEPT ![t] = Abs!Result(req[t], storeBar)] /\ req' = req
  BY <1>1 DEF Rename, Decide
<1>5. statusBar' = [statusBar EXCEPT ![t] = "done"] /\ statusBar[t] = "pending"
  BY <1>1, <1>type DEF Rename, VaultGoto, statusBar, StatusOf, VaultTypeOK
<1> QED BY <1>2, <1>3, <1>4, <1>5 DEF Abs!AbsCommit

LEMMA RefinesFail ==
  ASSUME LockInv, FileInv, NEW t \in Threads, SyscallFails(t)
  PROVE  Abs!AbsFail(t)
<1>type. VaultTypeOK
  BY DEF LockInv
<1>1. storeBar' = storeBar
  BY <1>type, VaultStoreAssumption
  DEF SyscallFails, Forget, storeBar, VaultTypeOK, FileInv, BlobIsCommitted
<1>2. statusBar' = [statusBar EXCEPT ![t] = "done"] /\ statusBar[t] = "pending"
  BY <1>type DEF SyscallFails, VaultGoto, statusBar, StatusOf, VaultTypeOK
<1> QED BY <1>1, <1>2 DEF SyscallFails, Decide, Abs!AbsFail

LEMMA RefinesReturn ==
  ASSUME LockInv, NEW t \in Threads, UnlockMu(t)
  PROVE  Abs!AbsReturn(t)
<1>type. VaultTypeOK
  BY DEF LockInv
<1>1. storeBar' = storeBar
  BY DEF UnlockMu, fileVars, storeBar
<1>2. statusBar' = [statusBar EXCEPT ![t] = "idle"] /\ statusBar[t] = "done"
  BY <1>type DEF UnlockMu, VaultGoto, statusBar, StatusOf, VaultTypeOK
<1> QED BY <1>1, <1>2 DEF UnlockMu, Decide, Abs!AbsReturn

LEMMA RefinesCall ==
  ASSUME LockInv, NEW t \in Threads, NEW r \in VaultRequests, Call(t, r)
  PROVE  Abs!AbsCall(t, r)
<1>type. VaultTypeOK
  BY DEF LockInv
<1>1. storeBar' = storeBar
  BY DEF Call, fileVars, storeBar
<1>2. statusBar' = [statusBar EXCEPT ![t] = "pending"] /\ statusBar[t] = "idle"
  BY <1>type DEF Call, VaultGoto, statusBar, StatusOf, VaultTypeOK
<1> QED BY <1>1, <1>2 DEF Call, Abs!AbsCall

LEMMA RefinesCrash ==
  ASSUME LockInv, FileInv, NEW p \in Procs, Crash(p)
  PROVE  Abs!AbsCrash({t \in Threads : ProcOf[t] = p})
<1>type. VaultTypeOK
  BY DEF LockInv
<1>1. storeBar' = storeBar
  BY <1>type, VaultStoreAssumption
  DEF Crash, Die, Forget, storeBar, VaultTypeOK, FileInv, BlobIsCommitted
<1>2. statusBar' = [t \in Threads |-> IF t \in {u \in Threads : ProcOf[u] = p}
                                       THEN "idle" ELSE statusBar[t]]
  BY <1>type DEF Crash, Die, statusBar, StatusOf, VaultTypeOK
<1> QED BY <1>1, <1>2 DEF Crash, Die, Abs!AbsCrash

LEMMA RefinesPowerFail ==
  ASSUME LockInv, PowerFail
  PROVE  Abs!AbsCrash(Threads)
<1>type. VaultTypeOK
  BY DEF LockInv
<1>1. storeBar' = storeBar
  BY <1>type, VaultStoreAssumption DEF PowerFail, Die, storeBar, VaultTypeOK
<1>2. statusBar' = [t \in Threads |-> IF t \in Threads THEN "idle" ELSE statusBar[t]]
  BY <1>type DEF PowerFail, Die, statusBar, StatusOf, VaultTypeOK
<1> QED BY <1>1, <1>2 DEF PowerFail, Die, Abs!AbsCrash

(***************************************************************************)
(* Within one process the vault of vault.go IS the atomic map: each Get,   *)
(* Put, Delete and List takes effect at one point between its call and its *)
(* return, an error means no effect, and a crash leaves whole operations.  *)
(***************************************************************************)
THEOREM VaultImplementsMap == ASSUME OneProcess PROVE VaultSpec => ImplementsMap
<1>1. SoloIInv /\ [VaultNext]_vaultVars => [Abs!AbsNext]_Visible
  <2> SUFFICES ASSUME SoloIInv, [VaultNext]_vaultVars PROVE [Abs!AbsNext]_Visible
    OBVIOUS
  <2>inv. LockInv /\ FileInv
    BY DEF SoloIInv
  <2>1. ASSUME NEW t \in Threads, NEW r \in VaultRequests, Call(t, r)
        PROVE  Abs!AbsNext
    BY <2>1, <2>inv, RefinesCall DEF Abs!AbsNext, VaultRequests
  <2>2. ASSUME NEW t \in Threads, VaultStep(t)
        PROVE  [Abs!AbsNext]_Visible
    <3>1. CASE \/ LockMu(t) \/ OpenBlob(t) \/ Flock(t)
               \/ CreateTemp(t) \/ WriteTemp(t) \/ SyncTemp(t) \/ FUnlock(t)
      BY <3>1, <2>inv, RefinesStutter
    <3>2. CASE ReadAll(t)
      BY <3>2, <2>inv, RefinesRead DEF Abs!AbsNext
    <3>3. CASE Rename(t)
      BY <3>3, RefinesRename DEF Abs!AbsNext
    <3>4. CASE SyscallFails(t)
      BY <3>4, <2>inv, RefinesFail DEF Abs!AbsNext
    <3>5. CASE UnlockMu(t)
      BY <3>5, <2>inv, RefinesReturn DEF Abs!AbsNext
    <3> QED BY <2>2, <3>1, <3>2, <3>3, <3>4, <3>5 DEF VaultStep
  <2>3. ASSUME NEW p \in Procs, Crash(p)
        PROVE  Abs!AbsNext
    <3>1. {t \in Threads : ProcOf[t] = p} \in SUBSET Threads
      OBVIOUS
    <3> QED BY <2>3, <2>inv, <3>1, RefinesCrash DEF Abs!AbsNext
  <2>4. ASSUME UNCHANGED vaultVars PROVE UNCHANGED Visible
    BY <2>4 DEF vaultVars, Visible, storeBar, statusBar
  <2>5. ASSUME PowerFail PROVE Abs!AbsNext
    BY <2>5, <2>inv, RefinesPowerFail DEF Abs!AbsNext
  <2> QED BY <2>1, <2>2, <2>3, <2>4, <2>5 DEF VaultNext
<1> QED
  BY <1>1, SoloIInvAlways, RefinesInit, PTL
  DEF VaultSpec, ImplementsMap, Abs!AbsSpec, Abs!absVars, Visible
=============================================================================
