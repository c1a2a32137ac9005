------------------------------- MODULE Backup -------------------------------
(***************************************************************************)
(* An export_dump, and the restore_dump commands that the panel gives when *)
(* the export has reported COMPLETED.  An object in a bucket is read as it *)
(* was written.  A local file goes to the panel and comes back in chunks   *)
(* (source.go), of which some may be missing.                              *)
(***************************************************************************)
EXTENDS ExportDump, RestoreDump

VARIABLES
  pushed,  \* the panel has given the restore commands
  copy     \* the frames at the source of the restores

vars == <<exportVars, restoreVars, pushed, copy>>

Init == ExportInit /\ RestoreInit /\ pushed = FALSE /\ copy = <<>>

ByExport(Action) == Action /\ UNCHANGED <<restoreVars, pushed, copy>>
ByRestore(Action) == pushed /\ Action /\ UNCHANGED <<exportVars, pushed, copy>>

(* The panel sends a local file back before it gives the commands. *)
Push ==
  /\ xpc = "done" /\ ~pushed
  /\ pushed' = TRUE
  /\ copy' \in IF local THEN Damaged(object) ELSE {object}
  /\ UNCHANGED <<exportVars, restoreVars>>

Open(r) ==
  \/ local /\ OpenLocal(r, copy, compress)
  \/ ~local /\ OpenObject(r, copy, compress)

Next ==
  \/ ByExport(ExportNext)
  \/ Push
  \/ ByRestore(RestoreNext \/ \E r \in Restores : Open(r))

Spec == Init /\ [][Next]_vars

(***************************************************************************)
(* Fairness: the goroutines run, a command times out in the end, and a     *)
(* tool that is killed dies.  Nothing is assumed of what the tools do.     *)
(***************************************************************************)
Fairness ==
  /\ WF_vars(ByExport(ExportStep))
  /\ WF_vars(ByExport(ExportCancelled \/ DumperKilled))
  /\ \A r \in Restores :
       /\ WF_vars(ByRestore(RestoreStep(r) \/ Open(r)))
       /\ WF_vars(ByRestore(RestoreCancelled(r) \/ RestorerKilled(r)))

FairSpec == Spec /\ Fairness

-----------------------------------------------------------------------------
ExportEnded == xpc \in {"done", "failed"}
RestoreEnded(r) == rpc[r] \in {"done", "failed"}

TypeOK ==
  /\ xpc \in {"check", "open", "start", "pump", "wait", "gzip", "seal",
              "close", "complete", "abort", "done", "failed"}
  /\ dumper \in {"none", "running", "ok", "dead"}
  /\ copied <= written /\ written - copied <= PipeCap /\ written <= Units
  /\ Len(block) < BlockUnits /\ Len(part) < PartFrames
  /\ maker \in Restores \cup {Nobody, Other}
  /\ \A r \in Restores :
       /\ restorer[r] \in {"none", "running", "ok", "dead"}
       /\ applied[r] <= opened[r] /\ opened[r] <= Len(source[r])

(***************************************************************************)
(* ops_export.go: an object that is there to be restored is the whole      *)
(* output of a tool that ended well, every frame in its place: always in a *)
(* bucket, and in a local file once the export has reported COMPLETED.     *)
(***************************************************************************)
ObjectsAreWhole ==
  /\ xpc = "done" => there
  /\ there /\ (xpc = "done" \/ ~local) =>
       /\ dumper = "ok"
       /\ \A k \in 1..Len(object) : Opens(object[k], k - 1)
       /\ Opened(object) = Plain(compress)

(***************************************************************************)
(* ops_export.go:28-29, "The uploader is unconditionally aborted on any    *)
(* error path so orphan parts never linger on the destination": a failed   *)
(* export leaves no parts and no file, also when its context is over,      *)
(* unless the abort itself failed or fsync of a local file did.            *)
(***************************************************************************)
NothingLingers ==
  xpc = "failed" /\ ~excused => staged = <<>> /\ (local => ~there)

(* An export leaves a whole object or nothing. *)
ExportSafe == TypeOK /\ ObjectsAreWhole /\ NothingLingers

(***************************************************************************)
(* A restore that reports completed has restored the dump, and all of it   *)
(* unless the copy of a local file was cut at a frame and neither gzip nor *)
(* pg_restore checks where it ends.                                        *)
(***************************************************************************)
RestoredIsDump ==
  \A r \in Restores : rpc[r] = "done" =>
    /\ maker = r
    /\ IsPrefix(data, Dump)
    /\ ~local \/ compress \/ engine = "postgresql" => data = Dump

(***************************************************************************)
(* ops_restore.go:38, "The agent refuses to restore on top of an existing  *)
(* database": no step of a restore drops, replaces or fills a database     *)
(* that another command or another restore has made.                       *)
(***************************************************************************)
OthersKept ==
  [][maker # Nobody /\ <<maker, data>>' # <<maker, data>> =>
       \E r \in Restores : maker = r /\ (rpc[r]' # rpc[r] \/ applied[r]' # applied[r])]_vars

(***************************************************************************)
(* ops_restore.go:247-250: a failed restore does not leave a half-loaded   *)
(* database behind, also when its context is over, unless the rollback     *)
(* failed, or the last statement before it was deferred.                   *)
(***************************************************************************)
FailedLeavesNothing ==
  \A r \in Restores \ rexcused : rpc[r] = "failed" => maker # r

(***************************************************************************)
(* Every export and every restore ends, whatever fails: a tool that blocks *)
(* on a pipe nobody reads any more is killed with the command's context.   *)
(***************************************************************************)
AllEnd ==
  /\ <>ExportEnded
  /\ \A r \in Restores : pushed ~> RestoreEnded(r)
=============================================================================
