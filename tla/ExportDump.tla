----------------------------- MODULE ExportDump -----------------------------
(***************************************************************************)
(* opExportDump of internal/database/ops_export.go: a dump tool's output   *)
(* goes through gzip and the encrypter into a multipart upload             *)
(* (uploader.go) or a local file that the panel fetches (sink.go).         *)
(*                                                                         *)
(* The actors are the export's goroutine, the tool, and the context, which *)
(* ends with the command's timeout or the session.  Parts are cut at       *)
(* frames, and gzip keeps back no more than its trailer.  The bucket is    *)
(* external: a call takes effect or fails, Complete may also lose its      *)
(* reply.  excused is a history variable.                                  *)
(***************************************************************************)
EXTENDS CipherStream

CONSTANTS
  PartFrames,  \* frames of a full part (uploaderPartSize)
  PipeCap,     \* units that the pipe from the tool holds
  MaxErrors    \* bound: calls and tools that fail

ASSUME ExportDumpAssumption ==
  PartFrames \in Nat \ {0} /\ PipeCap \in Nat \ {0} /\ MaxErrors \in Nat

VARIABLES
  local, compress,  \* the request: a local file or a bucket, gzip or not
  xpc,              \* where the export's goroutine is
  xctx,             \* its context: "live" or "over"
  dumper,           \* the tool: "none", "running", "ok" or "dead"
  written, copied,  \* units the tool has written, and the export has read
  copyErr,          \* io.CopyBuffer returned an error
  block, sealed,    \* the encrypter's buffer and its next block number
  part,             \* the uploader's buffer
  staged,           \* frames in uploaded parts
  object,           \* frames at the object's key, or in the file
  there,            \* the object or the file exists
  excused,          \* the clean-up itself failed, or was left out
  errors

exportVars == <<local, compress, xpc, xctx, dumper, written, copied, copyErr,
                block, sealed, part, staged, object, there, excused, errors>>
asked == <<local, compress>>
tool == <<dumper, written>>
stream == <<copied, copyErr, block, sealed, part, staged, object>>

ExportInit ==
  /\ local \in BOOLEAN /\ compress \in BOOLEAN
  /\ xpc = "check"
  /\ xctx = "live"
  /\ dumper = "none"
  /\ written = 0 /\ copied = 0
  /\ copyErr = FALSE
  /\ block = <<>> /\ sealed = 0
  /\ part = <<>> /\ staged = <<>> /\ object = <<>>
  /\ there = FALSE
  /\ excused = FALSE
  /\ errors = 0

(* A call on the bucket succeeds unless the context is over; it may fail,  *)
(* and so may one on a local file.                                         *)
Reachable == local \/ xctx = "live"
Chance == errors < MaxErrors /\ errors' = errors + 1
Error == Chance \/ (~Reachable /\ UNCHANGED errors)

(* The envelope, validation, token, credentials and object key.            *)
CheckRequest ==
  /\ xpc = "check"
  /\ \/ Chance /\ xpc' = "failed"
     \/ xpc' = "open" /\ UNCHANGED errors
  /\ UNCHANGED <<asked, xctx, tool, stream, there, excused>>

(* NewLocalFileSink creates the file. *)
OpenFile ==
  /\ xpc = "open" /\ local
  /\ \/ Chance /\ xpc' = "failed" /\ UNCHANGED there
     \/ xpc' = "start" /\ there' = TRUE /\ UNCHANGED errors
  /\ UNCHANGED <<asked, xctx, tool, stream, excused>>

(* NewChunkUploader: CreateMultipartUpload.  Until a part is uploaded      *)
(* there is nothing to clean up.                                           *)
CreateUpload ==
  /\ xpc = "open" /\ ~local
  /\ \/ Error /\ xpc' = "failed"
     \/ Reachable /\ xpc' = "start" /\ UNCHANGED errors
  /\ UNCHANGED <<asked, xctx, tool, stream, there, excused>>

(* cmd.Start refuses a context that is over.  An error here and below      *)
(* leads to sink.Abort, deferred or called.                                *)
StartTool ==
  /\ xpc = "start"
  /\ \/ /\ Chance \/ (xctx = "over" /\ UNCHANGED errors)
        /\ xpc' = "abort"
        /\ UNCHANGED dumper
     \/ /\ xctx = "live"
        /\ xpc' = "pump" /\ dumper' = "running"
        /\ UNCHANGED errors
  /\ UNCHANGED <<asked, xctx, written, stream, there, excused>>

(* LocalFileSink.Write *)
WriteFile(frame) ==
  /\ local
  /\ object' = Append(object, frame)
  /\ UNCHANGED <<part, staged>>

PartFills == ~local /\ Len(part) + 1 = PartFrames

(* ChunkUploader.Write: the frame joins the part. *)
BufferFrame(frame) ==
  /\ ~local /\ ~PartFills
  /\ part' = Append(part, frame)
  /\ UNCHANGED <<staged, object>>

(* uploadCurrentPartLocked, when the frame fills the part. *)
UploadPart(frame) ==
  /\ PartFills /\ Reachable
  /\ staged' = staged \o Append(part, frame)
  /\ part' = <<>>
  /\ UNCHANGED object

WriteSink(frame) == WriteFile(frame) \/ BufferFrame(frame) \/ UploadPart(frame)
WriteFails == (local \/ PartFills) /\ Error

(* Write of the encrypter: a full block is sealed and written.             *)
WriteUnit(unit) ==
  LET full == Append(block, unit)
  IN \/ /\ Len(full) < BlockUnits
        /\ block' = full
        /\ UNCHANGED <<sealed, part, staged, object>>
     \/ /\ Len(full) = BlockUnits
        /\ block' = <<>>
        /\ sealed' = sealed + 1
        /\ WriteSink(Seal(sealed, full))

Writing == Len(block) + 1 = BlockUnits   \* a unit more reaches the sink

(* One turn of io.CopyBuffer: a unit of the tool's output.                 *)
Copy ==
  /\ xpc = "pump" /\ copied < written
  /\ copied' = copied + 1
  /\ \/ /\ WriteUnit(copied + 1)
        /\ UNCHANGED <<xpc, copyErr, errors>>
     \/ /\ Writing /\ WriteFails
        /\ copyErr' = TRUE
        /\ xpc' = "wait"
        /\ UNCHANGED <<block, sealed, part, staged, object>>
  /\ UNCHANGED <<asked, xctx, tool, there, excused>>

(* The tool's end of the pipe is closed and the pipe is empty.             *)
CopyEOF ==
  /\ xpc = "pump" /\ copied = written /\ dumper # "running"
  /\ xpc' = "wait"
  /\ UNCHANGED <<asked, xctx, tool, stream, there, excused, errors>>

(* Mutant: only the error of the copy counts. *)
WaitIgnoresExit ==
  /\ xpc = "wait" /\ dumper # "running"
  /\ xpc' = IF copyErr THEN "abort" ELSE IF compress THEN "gzip" ELSE "seal"
  /\ UNCHANGED <<asked, xctx, tool, stream, there, excused, errors>>

(* cmd.Wait: after a failed copy nobody reads the pipe any more.           *)
Wait ==
  /\ xpc = "wait" /\ dumper # "running"
  /\ xpc' = IF copyErr \/ dumper = "dead" THEN "abort"
            ELSE IF compress THEN "gzip" ELSE "seal"
  /\ UNCHANGED <<asked, xctx, tool, stream, there, excused, errors>>

(* gzipWriter.Close writes the trailer. *)
CloseGzip ==
  /\ xpc = "gzip"
  /\ \/ /\ WriteUnit(End)
        /\ xpc' = "seal"
        /\ UNCHANGED errors
     \/ /\ Writing /\ WriteFails
        /\ xpc' = "abort"
        /\ UNCHANGED <<block, sealed, part, staged, object>>
  /\ UNCHANGED <<asked, xctx, tool, copied, copyErr, there, excused>>

(* encrypter.Close seals the block that is not full.                       *)
CloseEncrypter ==
  /\ xpc = "seal"
  /\ \/ /\ block = <<>>
        /\ xpc' = "close"
        /\ UNCHANGED <<sealed, block, part, staged, object, errors>>
     \/ /\ block # <<>>
        /\ WriteSink(Seal(sealed, block))
        /\ sealed' = sealed + 1
        /\ block' = <<>>
        /\ xpc' = "close"
        /\ UNCHANGED errors
     \/ /\ block # <<>> /\ WriteFails
        /\ xpc' = "abort"
        /\ UNCHANGED <<sealed, block, part, staged, object>>
  /\ UNCHANGED <<asked, xctx, tool, copied, copyErr, there, excused>>

(* LocalFileSink.Close: fsync and close.  On an error the file stays: the  *)
(* caller believes that Close has aborted, as the uploader's does.         *)
CloseFile ==
  /\ xpc = "close" /\ local
  /\ \/ xpc' = "done" /\ UNCHANGED <<excused, errors>>
     \/ Chance /\ xpc' = "failed" /\ excused' = TRUE
  /\ UNCHANGED <<asked, xctx, tool, stream, there>>

TailDue == part # <<>> \/ staged = <<>>

(* ChunkUploader.Close uploads what is left; an upload has at least one    *)
(* part.                                                                   *)
UploadTail ==
  /\ xpc = "close" /\ ~local
  /\ \/ /\ TailDue => Reachable
        /\ staged' = staged \o part
        /\ part' = <<>>
        /\ xpc' = "complete"
        /\ UNCHANGED errors
     \/ /\ TailDue /\ Error
        /\ xpc' = "abort"
        /\ UNCHANGED <<staged, part>>
  /\ UNCHANGED <<asked, xctx, tool, copied, copyErr, block, sealed, object,
                 there, excused>>

(* CompleteMultipartUpload: the parts become the object.                   *)
Complete ==
  /\ xpc = "complete"
  /\ \/ /\ object' = staged /\ staged' = <<>> /\ there' = TRUE
        /\ \/ Reachable /\ xpc' = "done" /\ UNCHANGED errors
           \/ Error /\ xpc' = "abort"
     \/ Error /\ xpc' = "abort" /\ UNCHANGED <<object, staged, there>>
  /\ UNCHANGED <<asked, xctx, tool, copied, copyErr, block, sealed, part, excused>>

(* AbortMultipartUpload, with a context of its own: the parts go.          *)
AbortUpload ==
  /\ xpc = "abort" /\ ~local
  /\ xpc' = "failed"
  /\ \/ staged' = <<>> /\ UNCHANGED <<excused, errors>>
     \/ Chance /\ excused' = TRUE /\ UNCHANGED staged
  /\ UNCHANGED <<asked, xctx, tool, copied, copyErr, block, sealed, part,
                 object, there>>

(* LocalFileSink.Abort removes the file. *)
RemoveFile ==
  /\ xpc = "abort" /\ local
  /\ xpc' = "failed"
  /\ \/ there' = FALSE /\ object' = <<>> /\ UNCHANGED <<excused, errors>>
     \/ Chance /\ excused' = TRUE /\ UNCHANGED <<there, object>>
  /\ UNCHANGED <<asked, xctx, tool, copied, copyErr, block, sealed, part, staged>>

(* The tool writes as long as the pipe has room, and exits when done.      *)
DumperWrites ==
  /\ dumper = "running" /\ written < Units /\ written - copied < PipeCap
  /\ written' = written + 1
  /\ UNCHANGED <<asked, xpc, xctx, dumper, stream, there, excused, errors>>

DumperExits ==
  /\ dumper = "running" /\ written = Units
  /\ dumper' = "ok"
  /\ UNCHANGED <<asked, xpc, xctx, written, stream, there, excused, errors>>

DumperDies ==
  /\ dumper = "running"
  /\ Chance
  /\ dumper' = "dead"
  /\ UNCHANGED <<asked, xpc, xctx, written, stream, there, excused>>

(* The command times out, or its session ends. *)
ExportCancelled ==
  /\ xctx = "live" /\ xpc \notin {"done", "failed"}
  /\ xctx' = "over"
  /\ UNCHANGED <<asked, xpc, tool, stream, there, excused, errors>>

(* Mutant: the tool is started without the context. *)
DumperSurvives == FALSE /\ UNCHANGED exportVars

(* exec.CommandContext kills the tool. *)
DumperKilled ==
  /\ xctx = "over" /\ dumper = "running"
  /\ dumper' = "dead"
  /\ UNCHANGED <<asked, xpc, xctx, written, stream, there, excused, errors>>

ExportStep ==
  \/ CheckRequest \/ OpenFile \/ CreateUpload \/ StartTool
  \/ Copy \/ CopyEOF \/ Wait \/ CloseGzip \/ CloseEncrypter
  \/ CloseFile \/ UploadTail \/ Complete \/ AbortUpload \/ RemoveFile

ExportNext ==
  \/ ExportStep
  \/ DumperWrites \/ DumperExits \/ DumperDies \/ DumperKilled
  \/ ExportCancelled
=============================================================================
