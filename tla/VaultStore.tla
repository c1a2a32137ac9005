----------------------------- MODULE VaultStore -----------------------------
(***************************************************************************)
(* The credential vault as internal/database/vault.go and lockfile_unix.go *)
(* implement it: every operation takes the in-process mutex v.mu, opens    *)
(* the blob file (creating it when absent), flocks the open file, reads    *)
(* the blob BY PATH, and, when it changes the map, writes a temporary file *)
(* and renames it over the blob's path, before it releases both locks.     *)
(*                                                                         *)
(* Files are inodes, because that is what flock locks and what rename      *)
(* replaces: after a rename the descriptor a waiter holds refers to a file *)
(* that is no longer at the blob's path.                                   *)
(*                                                                         *)
(* Encryption is abstracted: a blob decrypts to the map it was written     *)
(* from, and an empty file reads as the empty map.  What is written is in  *)
(* the page cache until it is synced.  Every system call may fail; a       *)
(* process may die between any two steps, which releases its locks and     *)
(* leaves its temporary file behind; and the host may lose its power, and  *)
(* with it what was not synced.                                            *)
(***************************************************************************)
EXTENDS Naturals, FiniteSets

CONSTANTS
  Procs,      \* agent processes that share the vault directory
  Threads,    \* their goroutines
  ProcOf,     \* ProcOf[t]: the process goroutine t belongs to
  Ids, Creds, NoCred,
  Inodes,     \* files the directory can hold or a descriptor can refer to
  Nil,       \* no thread, no file
  MaxCrashes  \* bound: how often a process dies or the host loses its power

ASSUME VaultStoreAssumption ==
  /\ ProcOf \in [Threads -> Procs]
  /\ NoCred \notin Creds
  /\ Nil \notin Threads
  /\ Nil \notin Inodes
  /\ MaxCrashes \in Nat

VARIABLES
  vmu,        \* vmu[p]: the goroutine that holds p's v.mu
  blob,      \* the inode at db-vault.enc, or Nil
  content,   \* content[i]: the map inode i decrypts to
  durable,   \* durable[i]: "part" of it, all of it but only "cached", or on "disk"
  flock,     \* flock[i]: the goroutine whose descriptor holds LOCK_EX on i
  orphans,   \* temporary files that dead processes left in the directory
  vpc,        \* vpc[t]: the step goroutine t takes next
  fd,        \* fd[t]: the inode of the descriptor t locks with
  mem,       \* mem[t]: the entries t read
  tmp,       \* tmp[t]: the temporary file t wrote
  req, res,  \* the operation and its result, as in VaultMap
  crashes

lockVars == <<vmu, flock, fd>>
fileVars == <<blob, content, durable, orphans>>
callVars == <<req, res>>
vaultVars == <<vmu, blob, content, durable, flock, orphans, vpc, fd, mem, tmp, req, res, crashes>>

(***************************************************************************)
(* The abstract vault this one is meant to implement.  A call is pending   *)
(* until the step that decides its result, and done from there on.         *)
(***************************************************************************)
storeBar == IF blob = Nil THEN [i \in Ids |-> NoCred] ELSE content[blob]
StatusOf(step) ==
  CASE step = "idle"                  -> "idle"
    [] step \in {"funlock", "unlock"} -> "done"
    [] OTHER                          -> "pending"
statusBar == [t \in Threads |-> StatusOf(vpc[t])]

Abs == INSTANCE VaultMap WITH store <- storeBar, status <- statusBar

VaultRequests == Abs!Requests
Maps == Abs!Maps
EmptyMap == Abs!EmptyMap

FreeInodes ==
  {i \in Inodes : /\ i # blob
                  /\ i \notin orphans
                  /\ \A t \in Threads : fd[t] # i /\ tmp[t] # i}

(* A file without a name is read by nobody: what it holds is dropped.  An  *)
(* empty file is nothing that could be lost.                               *)
Forget(files) ==
  /\ content' = [i \in Inodes |-> IF i \in files THEN EmptyMap ELSE content[i]]
  /\ durable' = [i \in Inodes |-> IF i \in files THEN "disk" ELSE durable[i]]

VaultGoto(t, step) == vpc' = [vpc EXCEPT ![t] = step]
Decide(t, result) == res' = [res EXCEPT ![t] = result]

VaultInit ==
  /\ vmu = [p \in Procs |-> Nil]
  /\ blob = Nil
  /\ content = [i \in Inodes |-> EmptyMap]
  /\ durable = [i \in Inodes |-> "disk"]
  /\ flock = [i \in Inodes |-> Nil]
  /\ orphans = {}
  /\ vpc = [t \in Threads |-> "idle"]
  /\ fd = [t \in Threads |-> Nil]
  /\ mem = [t \in Threads |-> EmptyMap]
  /\ tmp = [t \in Threads |-> Nil]
  /\ req = [t \in Threads |-> Abs!NoReq]
  /\ res = [t \in Threads |-> Abs!NoResult]
  /\ crashes = 0

(* A handler calls Get, Put, Delete or List.                               *)
Call(t, r) ==
  /\ vpc[t] = "idle"
  /\ VaultGoto(t, "lock")
  /\ req' = [req EXCEPT ![t] = r]
  /\ UNCHANGED <<lockVars, fileVars, mem, tmp, res, crashes>>

(* Mutant: an operation without v.mu. *)
LockMuNot(t) ==
  /\ vpc[t] = "lock"
  /\ VaultGoto(t, "open")
  /\ UNCHANGED <<lockVars, fileVars, mem, tmp, callVars, crashes>>

(* v.mu.Lock() *)
LockMu(t) ==
  /\ vpc[t] = "lock"
  /\ vmu[ProcOf[t]] = Nil
  /\ vmu' = [vmu EXCEPT ![ProcOf[t]] = t]
  /\ VaultGoto(t, "open")
  /\ UNCHANGED <<fileVars, flock, fd, mem, tmp, callVars, crashes>>

(* Mutant: the file that is only opened for its lock is opened O_TRUNC. *)
OpenBlobTruncates(t) ==
  /\ vpc[t] = "open"
  /\ VaultGoto(t, "flock")
  /\ \E i \in IF blob = Nil THEN FreeInodes ELSE {blob} :
       /\ blob' = i
       /\ Forget({i})
       /\ fd' = [fd EXCEPT ![t] = i]
  /\ UNCHANGED <<vmu, flock, orphans, mem, tmp, callVars, crashes>>

(* os.OpenFile(blobPath, O_RDWR|O_CREATE) and the chmod of the path. *)
OpenBlob(t) ==
  /\ vpc[t] = "open"
  /\ VaultGoto(t, "flock")
  /\ \/ /\ blob # Nil
        /\ fd' = [fd EXCEPT ![t] = blob]
        /\ UNCHANGED <<blob, content, durable>>
     \/ /\ blob = Nil
        /\ \E i \in FreeInodes :
             /\ blob' = i
             /\ Forget({i})
             /\ fd' = [fd EXCEPT ![t] = i]
  /\ UNCHANGED <<vmu, flock, orphans, mem, tmp, callVars, crashes>>

(* flock(fd, LOCK_EX) returns: the lock is on the OPEN FILE. *)
Flock(t) ==
  /\ vpc[t] = "flock"
  /\ flock[fd[t]] = Nil
  /\ flock' = [flock EXCEPT ![fd[t]] = t]
  /\ VaultGoto(t, "read")
  /\ UNCHANGED <<fileVars, vmu, fd, mem, tmp, callVars, crashes>>

(* readAll opens the blob's path, whatever file is there by now; a part of *)
(* a blob does not decrypt.  Get and List answer from what they read;      *)
(* Delete of an absent id is done too.                                     *)
ReadAll(t) ==
  LET entries == storeBar
      r == req[t]
      readOnly == r.kind \in {"get", "list"}
                    \/ (r.kind = "delete" /\ entries[r.id] = NoCred)
  IN /\ vpc[t] = "read"
     /\ blob # Nil => durable[blob] # "part"
     /\ mem' = [mem EXCEPT ![t] = entries]
     /\ \/ /\ readOnly
           /\ Decide(t, Abs!Result(r, entries))
           /\ VaultGoto(t, "funlock")
        \/ /\ ~readOnly
           /\ VaultGoto(t, "write")
           /\ UNCHANGED res
     /\ UNCHANGED <<lockVars, fileVars, tmp, req, crashes>>

(* writeAll: os.CreateTemp, Write, Sync and Close, and the rename.         *)
CreateTemp(t) ==
  /\ vpc[t] = "write"
  /\ \E i \in FreeInodes :
       /\ tmp' = [tmp EXCEPT ![t] = i]
       /\ durable' = [durable EXCEPT ![i] = "part"]
  /\ VaultGoto(t, "fill")
  /\ UNCHANGED <<lockVars, blob, content, orphans, mem, callVars, crashes>>

WriteTemp(t) ==
  /\ vpc[t] = "fill"
  /\ content' = [content EXCEPT ![tmp[t]] = Abs!Apply(req[t], mem[t])]
  /\ durable' = [durable EXCEPT ![tmp[t]] = "cached"]
  /\ VaultGoto(t, "sync")
  /\ UNCHANGED <<lockVars, blob, orphans, mem, tmp, callVars, crashes>>

(* Mutant: closed without the Sync. *)
SyncTempNot(t) ==
  /\ vpc[t] = "sync"
  /\ VaultGoto(t, "rename")
  /\ UNCHANGED <<lockVars, fileVars, mem, tmp, callVars, crashes>>

SyncTemp(t) ==
  /\ vpc[t] = "sync"
  /\ durable' = [durable EXCEPT ![tmp[t]] = "disk"]
  /\ VaultGoto(t, "rename")
  /\ UNCHANGED <<lockVars, blob, content, orphans, mem, tmp, callVars, crashes>>

(* os.Rename(tmp, blobPath): the file that was there loses its name.       *)
Rename(t) ==
  /\ vpc[t] = "rename"
  /\ blob' = tmp[t]
  /\ Forget({blob})
  /\ tmp' = [tmp EXCEPT ![t] = Nil]
  /\ Decide(t, Abs!Result(req[t], mem[t]))
  /\ VaultGoto(t, "funlock")
  /\ UNCHANGED <<lockVars, orphans, mem, req, crashes>>

(* A system call fails: the deferred cleanup removes the temporary file    *)
(* and the deferred unlocks run.  Without a flock there is only v.mu.      *)
SyscallFails(t) ==
  /\ vpc[t] \in {"open", "flock", "read", "write", "fill", "sync", "rename"}
  /\ tmp' = [tmp EXCEPT ![t] = Nil]
  /\ Forget({tmp[t]})
  /\ Decide(t, Abs!Failed)
  /\ \/ /\ vpc[t] \in {"open", "flock"}
        /\ fd' = [fd EXCEPT ![t] = Nil]
        /\ VaultGoto(t, "unlock")
     \/ /\ vpc[t] \in {"read", "write", "fill", "sync", "rename"}
        /\ VaultGoto(t, "funlock")
        /\ UNCHANGED fd
  /\ UNCHANGED <<vmu, flock, blob, orphans, mem, req, crashes>>

(* Mutant: the unlock opens the path again instead of using its file. *)
FUnlockByPath(t) ==
  /\ vpc[t] = "funlock"
  /\ flock' = [i \in Inodes |-> IF i = blob THEN Nil ELSE flock[i]]
  /\ fd' = [fd EXCEPT ![t] = Nil]
  /\ VaultGoto(t, "unlock")
  /\ UNCHANGED <<vmu, fileVars, mem, tmp, callVars, crashes>>

(* The deferred calls, last first: unlock() of the file, v.mu.Unlock(). *)
FUnlock(t) ==
  /\ vpc[t] = "funlock"
  /\ flock' = [flock EXCEPT ![fd[t]] = Nil]
  /\ fd' = [fd EXCEPT ![t] = Nil]
  /\ VaultGoto(t, "unlock")
  /\ UNCHANGED <<vmu, fileVars, mem, tmp, callVars, crashes>>

(* Mutant: a return without v.mu.Unlock(). *)
UnlockMuForgotten(t) ==
  /\ vpc[t] = "unlock"
  /\ mem' = [mem EXCEPT ![t] = EmptyMap]
  /\ req' = [req EXCEPT ![t] = Abs!NoReq]
  /\ Decide(t, Abs!NoResult)
  /\ VaultGoto(t, "idle")
  /\ UNCHANGED <<lockVars, fileVars, tmp, crashes>>

UnlockMu(t) ==
  /\ vpc[t] = "unlock"
  /\ vmu' = [vmu EXCEPT ![ProcOf[t]] = Nil]
  /\ mem' = [mem EXCEPT ![t] = EmptyMap]
  /\ req' = [req EXCEPT ![t] = Abs!NoReq]
  /\ Decide(t, Abs!NoResult)
  /\ VaultGoto(t, "idle")
  /\ UNCHANGED <<flock, fd, fileVars, tmp, crashes>>

(* What the death of the goroutines `dead` takes with it: the kernel       *)
(* closes their descriptors and so drops their flocks.  The temporary      *)
(* files they wrote keep their names.                                      *)
Die(dead) ==
  LET Reset(f, v) == [t \in Threads |-> IF t \in dead THEN v ELSE f[t]]
  IN /\ crashes < MaxCrashes
     /\ crashes' = crashes + 1
     /\ vmu' = [p \in Procs |-> IF vmu[p] \in dead THEN Nil ELSE vmu[p]]
     /\ flock' = [i \in Inodes |-> IF flock[i] \in dead THEN Nil ELSE flock[i]]
     /\ orphans' = orphans \cup ({tmp[t] : t \in dead} \ {Nil})
     /\ vpc' = Reset(vpc, "idle")
     /\ fd' = Reset(fd, Nil)
     /\ mem' = Reset(mem, EmptyMap)
     /\ tmp' = Reset(tmp, Nil)
     /\ req' = Reset(req, Abs!NoReq)
     /\ res' = Reset(res, Abs!NoResult)
     /\ UNCHANGED blob

(* Process p dies: what it has written is still in the page cache.         *)
Crash(p) ==
  LET dead == {t \in Threads : ProcOf[t] = p}
  IN Die(dead) /\ Forget({tmp[t] : t \in dead})

(* The host loses its power: every process dies, and of the file at the    *)
(* blob's path only a part is left when it was not synced.                 *)
(* Renames are taken to last: no directory is synced, so that the previous *)
(* blob, as whole as this one, may be what is found instead.               *)
PowerFail ==
  /\ Die(Threads)
  /\ content' = [i \in Inodes |-> IF i = blob THEN content[i] ELSE EmptyMap]
  /\ durable' = [i \in Inodes |->
                    IF i = blob /\ durable[i] = "cached" THEN "part"
                    ELSE IF i = blob THEN durable[i] ELSE "disk"]

VaultStep(t) ==
  \/ LockMu(t) \/ OpenBlob(t) \/ Flock(t) \/ ReadAll(t)
  \/ CreateTemp(t) \/ WriteTemp(t) \/ SyncTemp(t) \/ Rename(t)
  \/ SyscallFails(t) \/ FUnlock(t) \/ UnlockMu(t)

VaultNext ==
  \/ \E t \in Threads : (\E r \in VaultRequests : Call(t, r)) \/ VaultStep(t)
  \/ \E p \in Procs : Crash(p)
  \/ PowerFail

VaultSpec == VaultInit /\ [][VaultNext]_vaultVars

(***************************************************************************)
(* Fairness: a runnable goroutine is scheduled, neither lock starves a     *)
(* waiter (a Go mutex hands over after 1ms of waiting, flock queues), and  *)
(* a call that needs a file on a full disk fails, as does the read of a    *)
(* part of a blob.                                                         *)
(***************************************************************************)
Hopeless(t) ==
  /\ SyscallFails(t)
  /\ \/ FreeInodes = {}
     \/ vpc[t] = "read" /\ blob # Nil /\ durable[blob] = "part"

Runs(t) ==
  \/ OpenBlob(t) \/ ReadAll(t) \/ CreateTemp(t) \/ WriteTemp(t)
  \/ SyncTemp(t) \/ Rename(t) \/ Hopeless(t) \/ FUnlock(t) \/ UnlockMu(t)

VaultFairness ==
  \A t \in Threads :
    /\ SF_vaultVars(LockMu(t)) /\ SF_vaultVars(Flock(t)) /\ WF_vaultVars(Runs(t))

VaultFairSpec == VaultSpec /\ VaultFairness

-----------------------------------------------------------------------------
Holding == {"read", "write", "fill", "sync", "rename", "funlock"}    \* flock held
Inside == Holding \cup {"open", "flock", "unlock"}     \* v.mu held

VaultTypeOK ==
  /\ vmu \in [Procs -> Threads \cup {Nil}]
  /\ blob \in Inodes \cup {Nil}
  /\ content \in [Inodes -> Maps]
  /\ durable \in [Inodes -> {"part", "cached", "disk"}]
  /\ flock \in [Inodes -> Threads \cup {Nil}]
  /\ orphans \subseteq Inodes
  /\ vpc \in [Threads -> Inside \cup {"idle", "lock"}]
  /\ fd \in [Threads -> Inodes \cup {Nil}]
  /\ mem \in [Threads -> Maps]
  /\ tmp \in [Threads -> Inodes \cup {Nil}]
  /\ req \in [Threads -> VaultRequests \cup {Abs!NoReq}]
  /\ crashes \in 0..MaxCrashes

(***************************************************************************)
(* Every lock has a live owner that will release it: a held flock belongs  *)
(* to a goroutine between its Flock and its FUnlock on that very file, and *)
(* v.mu to one inside an operation.  A path out of an operation that       *)
(* forgets a lock, or releases the wrong file's, breaks it.  (vault.go     *)
(* Get/Put/Delete/List defers, lockfile_unix.go's unlock function.)        *)
(***************************************************************************)
LocksOwned ==
  /\ \A i \in Inodes : flock[i] # Nil =>
       /\ fd[flock[i]] = i
       /\ vpc[flock[i]] \in Holding
  /\ \A p \in Procs : vmu[p] # Nil =>
       /\ ProcOf[vmu[p]] = p
       /\ vpc[vmu[p]] \in Inside

(***************************************************************************)
(* The read-modify-write is safe: the entries an operation is about to     *)
(* write back are still the ones in the blob, and the file it has locked   *)
(* is the file at the blob's path.                                         *)
(***************************************************************************)
ReadModifyWriteSafe ==
  \A t \in Threads :
    /\ vpc[t] \in {"write", "fill", "sync", "rename"} => mem[t] = storeBar
    /\ vpc[t] \in {"read", "write", "fill", "sync", "rename"} => fd[t] = blob

(***************************************************************************)
(* vault.go:17-19 and :62-64: the flock on the blob serialises             *)
(* read-modify-write sequences of different processes, so that a step      *)
(* changes no entry but the one its own operation names.                   *)
(***************************************************************************)
NoLostUpdate ==
  [][\A i \in Ids : storeBar'[i] # storeBar[i] =>
       \E t \in Threads : /\ vpc[t] = "rename" /\ vpc'[t] = "funlock"
                          /\ req[t].id = i]_<<blob, content, vpc, req>>

(* The vault implements the atomic map of VaultMap. *)
ImplementsMap == Abs!AbsSpec

(***************************************************************************)
(* Wherever a process dies or the power goes, the file at the blob's path  *)
(* is whole, so that the next agent can decrypt it: a temporary file takes *)
(* its place only once all of it is on the disk.  (vault.go writeAll,      *)
(* :327 "atomically replaces the blob file".)                              *)
(***************************************************************************)
BlobIsWhole == blob # Nil => durable[blob] # "part"

(* Every operation returns (or its process dies): mutex before flock, in   *)
(* every process, cannot deadlock, whatever fails or crashes.              *)
CallsReturn == \A t \in Threads : (vpc[t] # "idle") ~> (vpc[t] = "idle")

=============================================================================
