------------------------------- MODULE Executor -------------------------------
(***************************************************************************)
(* One shell command of the agent: the guards of internal/executor, the    *)
(* shell with its output pipes, what it leaves running in the background,  *)
(* the deadline, and the order in which the agent waits for all of them.   *)
(*                                                                         *)
(* exec.Cmd is external.  At the deadline it kills the shell and nothing   *)
(* else, and its Wait returns when the shell is over and every goroutine   *)
(* that copies output has read to the end of its pipe; the end comes when  *)
(* no process holds the pipe any more.                                     *)
(***************************************************************************)
EXTENDS Integers

CONSTANTS
  PipeSize,   \* writes that a pipe holds
  MaxWrites   \* bound: writes to each output

ASSUME ExecutorAssumption == PipeSize \in Nat

VARIABLES
  mode,      \* the function that is called
  command,   \* the patterns that the command matches
  place,     \* where the call is
  shell,     \* "none", "alive", "exited" or "killed"
  child,     \* a background child holds the pipes: "none", "holds", "gone"
  written,   \* output -> writes that were made
  read,       \* output -> writes that were read
  copied,    \* the outputs read to the end
  exit       \* the exit code: 0, 1, -1, or NoExit
exVars == <<mode, command, place, shell, child, written, read, copied, exit>>

Modes == {"Execute", "ExecuteInstall", "ExecuteStream", "runShellInternal"}
CommandLines == [hard : BOOLEAN, pipesToShell : BOOLEAN, configured : BOOLEAN, allowed : BOOLEAN]
NoExit == 99

(* runShellInternal reads both outputs from one pipe. *)
Outputs == IF mode = "runShellInternal" THEN {"out"} ELSE {"out", "err"}

ExInit ==
  /\ mode \in Modes /\ command \in CommandLines
  /\ place = "check" /\ shell = "none" /\ child = "none"
  /\ written = [f \in {"out", "err"} |-> 0] /\ read = [f \in {"out", "err"} |-> 0]
  /\ copied = {} /\ exit = NoExit

(* The configured block list is kept and not looked at. *)
isHardBlocked == command.hard
isBlocked == isHardBlocked \/ command.pipesToShell
isAllowed == command.allowed

Refuses ==
  CASE mode = "ExecuteInstall" -> isHardBlocked
    [] mode = "runShellInternal" -> FALSE
    [] mode = "ExecuteStream" -> isBlocked
    [] OTHER -> isBlocked \/ ~isAllowed

Refuse ==
  /\ place = "check" /\ Refuses
  /\ place' = "refused"
  /\ UNCHANGED <<mode, command, shell, child, written, read, copied, exit>>

(* Most answer -1; ExecuteStream returns the error. *)
StartFails ==
  /\ place = "check" /\ ~Refuses
  /\ place' = "done" /\ exit' = -1
  /\ UNCHANGED <<mode, command, shell, child, written, read, copied>>

(* Mutant: the stream waits for the shell before its readers. *)
WaitsFirst == "shell"

(* ExecuteStream waits for its readers and then for the shell; Run, in the *)
(* others, for the shell and then for what copies.                         *)
FirstWait == IF mode = "ExecuteStream" THEN "readers" ELSE "shell"

Start ==
  /\ place = "check" /\ ~Refuses
  /\ shell' = "alive" /\ place' = FirstWait
  /\ UNCHANGED <<mode, command, child, written, read, copied, exit>>

-----------------------------------------------------------------------------
(* The processes. *)

(* A pipe that is full makes the writer wait. *)
Writes ==
  /\ shell = "alive" \/ child = "holds"
  /\ \E f \in Outputs :
       /\ written[f] < MaxWrites /\ written[f] - read[f] < PipeSize
       /\ written' = [written EXCEPT ![f] = @ + 1]
  /\ UNCHANGED <<mode, command, place, shell, child, read, copied, exit>>

StartsChild ==
  /\ shell = "alive" /\ child = "none"
  /\ child' = "holds"
  /\ UNCHANGED <<mode, command, place, shell, written, read, copied, exit>>

ChildEnds ==
  /\ child = "holds" /\ child' = "gone"
  /\ UNCHANGED <<mode, command, place, shell, written, read, copied, exit>>

ShellExits ==
  /\ shell = "alive" /\ shell' = "exited"
  /\ exit' \in {0, 1}
  /\ UNCHANGED <<mode, command, place, child, written, read, copied>>

(* The context ends, by the timeout or with the session. *)
Deadline ==
  /\ shell = "alive" /\ shell' = "killed" /\ exit' = -1
  /\ UNCHANGED <<mode, command, place, child, written, read, copied>>

-----------------------------------------------------------------------------
(* The goroutines of the agent. *)

Read(f) ==
  /\ f \in Outputs \ copied /\ read[f] < written[f]
  /\ place \in {"shell", "readers"}
  /\ read' = [read EXCEPT ![f] = @ + 1]
  /\ UNCHANGED <<mode, command, place, shell, child, written, copied, exit>>

ReadEOF(f) ==
  /\ f \in Outputs \ copied /\ read[f] = written[f]
  /\ shell \in {"exited", "killed"} /\ child # "holds"
  /\ place \in {"shell", "readers"}
  /\ copied' = copied \cup {f}
  /\ UNCHANGED <<mode, command, place, shell, child, written, read, exit>>

(* The pipes of a stream are closed by the Wait that sees the shell end;   *)
(* that of Run then waits for what copies.                                 *)
WaitShell ==
  /\ place = "shell" /\ shell \in {"exited", "killed"}
  /\ place' = IF mode = "ExecuteStream" THEN "done" ELSE "readers"
  /\ UNCHANGED <<mode, command, shell, child, written, read, copied, exit>>

WaitReaders ==
  /\ place = "readers" /\ copied = Outputs
  /\ place' = IF mode = "ExecuteStream" THEN "shell" ELSE "done"
  /\ UNCHANGED <<mode, command, shell, child, written, read, copied, exit>>

Agent == \E f \in {"out", "err"} : Read(f) \/ ReadEOF(f)
Waits == WaitShell \/ WaitReaders

ExNext ==
  \/ Refuse \/ StartFails \/ Start
  \/ Writes \/ StartsChild \/ ChildEnds \/ ShellExits \/ Deadline
  \/ Agent \/ Waits

(* Every command has a deadline; nothing is assumed of what it leaves in   *)
(* the background.                                                         *)
ExFairness ==
  /\ WF_exVars(Refuse \/ Start) /\ WF_exVars(Deadline)
  /\ \A f \in {"out", "err"} : WF_exVars(Read(f) \/ ReadEOF(f))
  /\ WF_exVars(Waits)
ExSpec == ExInit /\ [][ExNext]_exVars /\ ExFairness

-----------------------------------------------------------------------------
ExTypeOK ==
  /\ mode \in Modes /\ command \in CommandLines
  /\ place \in {"check", "refused", "shell", "readers", "done"}
  /\ shell \in {"none", "alive", "exited", "killed"} /\ child \in {"none", "holds", "gone"}
  /\ copied \subseteq Outputs /\ exit \in {0, 1, -1, NoExit}
  /\ \A f \in {"out", "err"} : read[f] \in 0..written[f] /\ written[f] - read[f] <= PipeSize

(* An answer has all that the command and its background children have     *)
(* written to the outputs, and the code of a shell that is over, also when *)
(* the deadline came; and no way around the patterns starts a shell with   *)
(* what is refused by all of them.                                         *)
OutputWhole ==
  /\ ExTypeOK
  /\ place = "done" => exit # NoExit /\ shell # "alive" /\ child # "holds" /\ read = written
  /\ shell # "none" /\ command.hard => mode = "runShellInternal"

(* A call ends, at its deadline if not before, however full its pipes are; *)
(* unless something in the background keeps one open.                      *)
Returns == []<>(place \in {"refused", "done"} \/ child = "holds")
=============================================================================
