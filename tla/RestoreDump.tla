---------------------------- MODULE RestoreDump -----------------------------
(***************************************************************************)
(* opRestoreDump of internal/database/ops_restore.go: it creates a target  *)
(* database, feeds the decrypted and unzipped object to a restore tool,    *)
(* and drops the target when that fails.  All restores here have the same  *)
(* target: the panel makes fresh names, the code must not rely on it.      *)
(*                                                                         *)
(* The server is external: it has a database of the target's name or not,  *)
(* and the model keeps who made it.  A statement takes effect or fails; a  *)
(* CREATE may lose its reply.  pg_restore does not accept the start of an  *)
(* archive for a whole one, the mysql client executes what it gets.        *)
(* rexcused is a history variable.                                         *)
(***************************************************************************)
EXTENDS CipherStream

CONSTANTS
  Restores,    \* restore_dump commands
  Nobody,      \* no database has the target's name
  Other,       \* it was made by another command
  MaxFaults    \* bound: statements, reads and tools that fail

ASSUME RestoreDumpAssumption ==
  Nobody # Other /\ Restores \cap {Nobody, Other} = {} /\ MaxFaults \in Nat

VARIABLES
  engine,     \* of the server: "mysql" or "postgresql"
  maker,      \* who made the database, or Nobody
  data,       \* the units it holds
  rpc,        \* rpc[r]: where the goroutine of restore r is
  rctx,       \* rctx[r]: its context
  source,     \* source[r]: frames it will read
  unzip,      \* unzip[r]: the request says the dump is compressed
  opened,     \* opened[r]: frames it has opened
  restorer,   \* restorer[r]: the tool: "none", "running", "ok" or "dead"
  applied,    \* applied[r]: frames the tool has executed
  feedErr,    \* feedErr[r]: io.CopyBuffer returned an error
  rexcused,   \* restores that a fault hit where nothing compensates for it
  faults

server == <<maker, data>>
restoreVars == <<engine, server, rpc, rctx, source, unzip, opened, restorer,
                 applied, feedErr, rexcused, faults>>
input == <<source, unzip>>
feed == <<opened, restorer, applied, feedErr>>

RestoreInit ==
  /\ engine \in {"mysql", "postgresql"}
  /\ maker = Nobody
  /\ data = <<>>
  /\ rpc = [r \in Restores |-> "check"]
  /\ rctx = [r \in Restores |-> "live"]
  /\ source = [r \in Restores |-> <<>>]
  /\ unzip = [r \in Restores |-> FALSE]
  /\ opened = [r \in Restores |-> 0]
  /\ restorer = [r \in Restores |-> "none"]
  /\ applied = [r \in Restores |-> 0]
  /\ feedErr = [r \in Restores |-> FALSE]
  /\ rexcused = {}
  /\ faults = 0

To(r, step) == rpc' = [rpc EXCEPT ![r] = step]
Excuse(r) == rexcused' = rexcused \cup {r}
Create(m) == maker' = m /\ data' = <<>>
Drop == maker' = Nobody /\ data' = <<>>

(* What a restore calls with its context succeeds unless that is over.     *)
RChance == faults < MaxFaults /\ faults' = faults + 1
Fault(r) == RChance \/ (rctx[r] = "over" /\ UNCHANGED faults)
Fine(r) == rctx[r] = "live" /\ UNCHANGED faults

(* Validation, the token, openInstance. *)
CheckRestore(r) ==
  /\ rpc[r] = "check"
  /\ \/ Fine(r) /\ To(r, "exists")
     \/ Fault(r) /\ To(r, "failed")
  /\ UNCHANGED <<engine, server, rctx, input, feed, rexcused>>

(* databaseExists: a target that exists is refused. *)
CheckTarget(r) ==
  /\ rpc[r] = "exists"
  /\ \/ Fine(r) /\ To(r, IF maker = Nobody THEN "create" ELSE "failed")
     \/ Fault(r) /\ To(r, "failed")
  /\ UNCHANGED <<engine, server, rctx, input, feed, rexcused>>

(* Mutant: the rollback is deferred before the target is created. *)
CreateTargetRollsBack(r) ==
  /\ rpc[r] = "create"
  /\ \/ /\ Fine(r) /\ maker = Nobody
        /\ Create(r)
        /\ To(r, "grant") \/ To(r, "source")
        /\ UNCHANGED rexcused
     \/ /\ (Fine(r) /\ maker # Nobody) \/ Fault(r)
        /\ To(r, "rollback")
        /\ UNCHANGED <<server, rexcused>>
  /\ UNCHANGED <<engine, rctx, input, feed>>

(* CREATE DATABASE; the request may name an owner.                         *)
CreateTarget(r) ==
  /\ rpc[r] = "create"
  /\ \/ /\ Fine(r) /\ maker = Nobody
        /\ Create(r)
        /\ To(r, "grant") \/ To(r, "source")
        /\ UNCHANGED rexcused
     \/ /\ (Fine(r) /\ maker # Nobody) \/ Fault(r)
        /\ To(r, "failed")
        /\ UNCHANGED <<server, rexcused>>
     \/ /\ Fault(r) /\ maker = Nobody
        /\ Create(r)
        /\ To(r, "failed")
        /\ Excuse(r)
  /\ UNCHANGED <<engine, rctx, input, feed>>

(* GRANT, and on MySQL FLUSH PRIVILEGES; or ALTER DATABASE ... OWNER TO.   *)
GrantOwner(r) ==
  /\ rpc[r] = "grant"
  /\ \/ Fine(r) /\ To(r, IF engine = "mysql" THEN "flush" ELSE "source")
     \/ Fault(r) /\ To(r, "undo")
  /\ UNCHANGED <<engine, server, rctx, input, feed, rexcused>>

(* An error returns at once: the rollback is not deferred yet.             *)
FlushPrivileges(r) ==
  /\ rpc[r] = "flush"
  /\ \/ Fine(r) /\ To(r, "source") /\ UNCHANGED rexcused
     \/ Fault(r) /\ To(r, "failed") /\ Excuse(r)
  /\ UNCHANGED <<engine, server, rctx, input, feed>>

(* The DROP that compensates for a failed GRANT, with the same context.    *)
UndoCreate(r) ==
  /\ rpc[r] = "undo"
  /\ \/ Fine(r) /\ Drop /\ UNCHANGED rexcused
     \/ Fault(r) /\ Excuse(r) /\ UNCHANGED server
  /\ To(r, "failed")
  /\ UNCHANGED <<engine, rctx, input, feed>>

(* The source holds frames; gzip.NewReader reads its header from the first. *)
Begin(r, frames, zipped) ==
  /\ source' = [source EXCEPT ![r] = frames]
  /\ unzip' = [unzip EXCEPT ![r] = zipped]
  /\ To(r, IF zipped /\ (frames = <<>> \/ ~Opens(frames[1], 0))
             THEN "rollback" ELSE "start")

(* NewLocalFileSource: the file the panel has sent. *)
OpenLocal(r, frames, zipped) ==
  /\ rpc[r] = "source"
  /\ \/ Begin(r, frames, zipped) /\ UNCHANGED faults
     \/ RChance /\ To(r, "rollback") /\ UNCHANGED input
  /\ UNCHANGED <<engine, server, rctx, feed, rexcused>>

(* NewChunkDownloader: HeadObject and GetObject. *)
OpenObject(r, frames, zipped) ==
  /\ rpc[r] = "source"
  /\ \/ Fine(r) /\ Begin(r, frames, zipped)
     \/ Fault(r) /\ To(r, "rollback") /\ UNCHANGED input
  /\ UNCHANGED <<engine, server, rctx, feed, rexcused>>

StartRestorer(r) ==
  /\ rpc[r] = "start"
  /\ \/ /\ Fine(r)
        /\ restorer' = [restorer EXCEPT ![r] = "running"]
        /\ To(r, "feed")
     \/ Fault(r) /\ To(r, "rollback") /\ UNCHANGED restorer
  /\ UNCHANGED <<engine, server, rctx, input, opened, applied, feedErr, rexcused>>

Plaintext(r, n) == Opened(SubSeq(source[r], 1, n))
AtEnd(r) == opened[r] = Len(source[r])

(* A zipped dump is complete when its trailer has been read.               *)
Unzipped(r) ==
  unzip[r] => Plaintext(r, opened[r]) # <<>> /\ Last(Plaintext(r, opened[r])) = End

(* One turn of io.CopyBuffer: the next frame opens and goes to the tool.   *)
FeedFrame(r) ==
  /\ rpc[r] = "feed" /\ ~AtEnd(r)
  /\ restorer[r] = "running"
  /\ Opens(source[r][opened[r] + 1], opened[r])
  /\ opened' = [opened EXCEPT ![r] = @ + 1]
  /\ UNCHANGED <<engine, server, rpc, rctx, input, restorer, applied, feedErr,
                 rexcused, faults>>

(* The frame does not open, the tool is gone, or the source breaks.        *)
FeedFails(r) ==
  /\ rpc[r] = "feed"
  /\ \/ ~AtEnd(r) /\ ~Opens(source[r][opened[r] + 1], opened[r]) /\ UNCHANGED faults
     \/ ~AtEnd(r) /\ restorer[r] # "running" /\ UNCHANGED faults
     \/ AtEnd(r) /\ ~Unzipped(r) /\ UNCHANGED faults
     \/ Fault(r)
  /\ feedErr' = [feedErr EXCEPT ![r] = TRUE]
  /\ To(r, "wait")
  /\ UNCHANGED <<engine, server, rctx, input, opened, restorer, applied, rexcused>>

(* The source ends at a frame; the tool's input is closed.                 *)
FeedEnds(r) ==
  /\ rpc[r] = "feed" /\ AtEnd(r) /\ Unzipped(r)
  /\ To(r, "wait")
  /\ UNCHANGED <<engine, server, rctx, input, feed, rexcused, faults>>

(* cmd.Wait. *)
WaitRestorer(r) ==
  /\ rpc[r] = "wait" /\ restorer[r] # "running"
  /\ To(r, IF feedErr[r] \/ restorer[r] = "dead" THEN "rollback" ELSE "done")
  /\ UNCHANGED <<engine, server, rctx, input, feed, rexcused, faults>>

(* Mutant: the target is dropped with the command's context. *)
RollbackWithContext(r) ==
  /\ rpc[r] = "rollback"
  /\ \/ rctx[r] = "live" /\ Drop
     \/ rctx[r] = "over" /\ UNCHANGED server
  /\ To(r, "failed")
  /\ UNCHANGED <<engine, rctx, input, feed, rexcused, faults>>

(* dropRestoreTarget, with a context of its own; its error is ignored.     *)
Rollback(r) ==
  /\ rpc[r] = "rollback"
  /\ \/ /\ Drop
        /\ UNCHANGED <<rexcused, faults>>
     \/ /\ RChance
        /\ Excuse(r)
        /\ UNCHANGED server
  /\ To(r, "failed")
  /\ UNCHANGED <<engine, rctx, input, feed>>

(* What the tool gets of a plaintext: gzip's trailer is no part of it.     *)
Unzip(units) == IF units # <<>> /\ Last(units) = End THEN Front(units) ELSE units

(* The tool executes what it has read, and exits when its input is closed. *)
RestorerApplies(r) ==
  /\ restorer[r] = "running" /\ applied[r] < opened[r]
  /\ applied' = [applied EXCEPT ![r] = @ + 1]
  /\ data' = Unzip(Plaintext(r, applied[r] + 1))
  /\ UNCHANGED <<engine, maker, rpc, rctx, input, opened, restorer, feedErr,
                 rexcused, faults>>

RestorerExits(r) ==
  /\ restorer[r] = "running" /\ rpc[r] = "wait" /\ applied[r] = opened[r]
  /\ restorer' = [restorer EXCEPT ![r] =
                    IF engine = "mysql" \/ data = Dump THEN "ok" ELSE "dead"]
  /\ UNCHANGED <<engine, server, rpc, rctx, input, opened, applied, feedErr,
                 rexcused, faults>>

RestorerDies(r) ==
  /\ restorer[r] = "running"
  /\ RChance
  /\ restorer' = [restorer EXCEPT ![r] = "dead"]
  /\ UNCHANGED <<engine, server, rpc, rctx, input, opened, applied, feedErr, rexcused>>

(* exec.CommandContext kills the tool. *)
RestorerKilled(r) ==
  /\ rctx[r] = "over" /\ restorer[r] = "running"
  /\ restorer' = [restorer EXCEPT ![r] = "dead"]
  /\ UNCHANGED <<engine, server, rpc, rctx, input, opened, applied, feedErr,
                 rexcused, faults>>

(* The command times out, or its session ends. *)
RestoreCancelled(r) ==
  /\ rctx[r] = "live" /\ rpc[r] \notin {"done", "failed"}
  /\ rctx' = [rctx EXCEPT ![r] = "over"]
  /\ UNCHANGED <<engine, server, rpc, input, feed, rexcused, faults>>

(* A database of this name is created by another command.                  *)
OtherCreates ==
  /\ maker = Nobody
  /\ Create(Other)
  /\ UNCHANGED <<engine, rpc, rctx, input, feed, rexcused, faults>>

RestoreStep(r) ==
  \/ CheckRestore(r) \/ CheckTarget(r) \/ CreateTarget(r) \/ GrantOwner(r)
  \/ FlushPrivileges(r) \/ UndoCreate(r) \/ StartRestorer(r)
  \/ FeedFrame(r) \/ FeedFails(r) \/ FeedEnds(r)
  \/ WaitRestorer(r) \/ Rollback(r)

RestoreNext ==
  \/ \E r \in Restores :
       \/ RestoreStep(r)
       \/ RestorerApplies(r) \/ RestorerExits(r) \/ RestorerDies(r)
       \/ RestorerKilled(r) \/ RestoreCancelled(r)
  \/ OtherCreates
=============================================================================
