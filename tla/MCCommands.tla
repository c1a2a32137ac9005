------------------------------ MODULE MCCommands ------------------------------
(***************************************************************************)
(* Instances for TLC of what a command goes through: the stream that       *)
(* brings it and takes its answer, the shell that it runs in, and the      *)
(* scripts that manage the agent itself.  They share no variable, so that  *)
(* a behaviour is one of any of them: the variables of the others stay as  *)
(* they are.                                                               *)
(***************************************************************************)
EXTENDS CommandStream, Executor, SelfManage

CONSTANTS c1, c2

VARIABLE part  \* "stream", "shell" or "scripts"

TwoCommands == {c1, c2}
OneReconnect == {c2}

all == <<part, vars, exVars, scriptVars>>

(* One command and one state of the host stand for all where they do not   *)
(* matter.                                                                 *)
CommandsInit ==
  /\ part \in {"stream", "shell", "scripts"}
  /\ Init /\ ExInit /\ ScriptsInit
  /\ part # "shell" =>
       /\ mode = "Execute"
       /\ command = [hard |-> FALSE, pipesToShell |-> FALSE, configured |-> FALSE, allowed |-> TRUE]
  /\ part # "scripts" => service = "old"

OfStream(Step) == part = "stream" /\ Step /\ UNCHANGED <<part, exVars, scriptVars>>
OfShell(Step) == part = "shell" /\ Step /\ UNCHANGED <<part, vars, scriptVars>>
OfScripts(Step) == part = "scripts" /\ Step /\ UNCHANGED <<part, vars, exVars>>

CommandsNext == OfStream(Next) \/ OfShell(ExNext) \/ OfScripts(ScriptsNext)

(* The fairness of CommandStream, of which less is needed here, and of     *)
(* Executor.  Only one part runs, so that fairness of a disjunction of two *)
(* parts' actions is fairness of either.                                   *)
CommandsFairness ==
  /\ WF_all(OfStream(Reader) \/ OfShell(Refuse \/ Start))
  /\ WF_all(OfStream(\E c \in Commands : Execute(c)) \/ OfShell(Deadline))
  /\ SF_all(OfStream(\E c \in Commands : LockSend(c)))
  /\ WF_all(OfStream(\E s \in Streams : PanelReads(s)) \/ OfShell(Waits))
  /\ \A f \in {"out", "err"} : WF_all(OfShell(Read(f) \/ ReadEOF(f)))

CommandsSpec == CommandsInit /\ [][CommandsNext]_all /\ CommandsFairness

(* Every command is answered, and the shell that it runs in lets it be:    *)
(* see CommandStream and Executor.                                         *)
CommandsAnswered ==
  /\ part = "stream" => Answered
  /\ part = "shell" => Returns
SessionReachable == part = "stream" => Reachable
===============================================================================
