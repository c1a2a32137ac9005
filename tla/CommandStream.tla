---------------------------- MODULE CommandStream ---------------------------
(***************************************************************************)
(* The command stream of one session (internal/agent/agent.go):            *)
(* runCommandStream opens a stream, identifies the agent on it, receives   *)
(* commands and starts a goroutine of executeCommand for each, which       *)
(* reports RUNNING, works, reports what a streaming operation emits, and   *)
(* answers, always on the stream the command came from.  Send on a stream  *)
(* is not reentrant: sendCmd serializes the goroutines with cmdSendMu.     *)
(*                                                                         *)
(* The panel (the control plane) is external: it answers a stream of an    *)
(* agent it does not know with "agent not registered", may forget the      *)
(* agent, and sends commands on a stream that identified itself.           *)
(***************************************************************************)
EXTENDS Naturals, Sequences

CONSTANTS
  Commands,    \* the commands the panel may send
  Reconnects,  \* those of type COMMAND_TYPE_RECONNECT
  MaxChunks,   \* bound: chunks one command emits
  MaxStreams,  \* bound: streams the session opens
  MaxBreaks,   \* bound: streams that fail to open, break or are refused
  None         \* cmdSendMu is free

ASSUME CommandStreamAssumption ==
  /\ Reconnects \subseteq Commands
  /\ None \notin Commands
  /\ MaxChunks \in Nat /\ MaxStreams \in Nat /\ MaxBreaks \in Nat

Streams == 1..MaxStreams
Verdicts == {"COMPLETED", "FAILED"}

(* A message on a stream: a command and its status.  The first one names   *)
(* the agent in place of a command.                                        *)
Identification == <<None, "PENDING">>

VARIABLES
  reader,     \* place of runCommandStream: see TypeOK
  current,    \* its latest stream, 0 before the first
  stream,     \* stream[s]: "none", "up", "refused" (not registered), "broken"
  cancelled,  \* the session's context is done
  mu,         \* holder of cmdSendMu
  pc,         \* pc[c]: place of the goroutine of command c
  msg,        \* msg[c]: the status it is about to send
  on,         \* on[c]: the stream it came from, 0 before that
  chunks,     \* chunks[c]: what it has emitted
  down,       \* down[s]: commands on their way to the agent
  up,         \* up[s]: messages on their way to the panel
  known,      \* known[s]: the panel has the identification of stream s
  got,        \* got[c]: the statuses the panel has received
  registered, \* the panel knows the agent
  breaks

readerVars == <<reader, current>>
cmdVars == <<mu, pc, msg, on, chunks>>
panelVars == <<known, got, registered>>
netVars == <<stream, down, up>>
vars == <<reader, current, stream, cancelled, mu, pc, msg, on, chunks,
          down, up, known, got, registered, breaks>>

Init ==
  /\ reader = "open"
  /\ current = 0
  /\ stream = [s \in Streams |-> "none"]
  /\ cancelled = FALSE
  /\ mu = None
  /\ pc = [c \in Commands |-> "unsent"]
  /\ msg = [c \in Commands |-> "RUNNING"]
  /\ on = [c \in Commands |-> 0]
  /\ chunks = [c \in Commands |-> 0]
  /\ down = [s \in Streams |-> <<>>]
  /\ up = [s \in Streams |-> <<>>]
  /\ known = [s \in Streams |-> FALSE]
  /\ got = [c \in Commands |-> <<>>]
  /\ registered = TRUE   \* connect registered before it started the stream
  /\ breaks = 0

(* Streams that end take along what they carry. *)
Fail(ended, how) ==
  /\ stream' = [s \in Streams |->
                  IF s \in ended /\ stream[s] # "none" THEN how ELSE stream[s]]
  /\ down' = [s \in Streams |-> IF s \in ended THEN <<>> ELSE down[s]]
  /\ up' = [s \in Streams |-> IF s \in ended THEN <<>> ELSE up[s]]

-----------------------------------------------------------------------------
(* runCommandStream *)

Open ==
  /\ reader = "open"
  /\ \/ /\ cancelled
        /\ reader' = "done"
        /\ UNCHANGED <<current, stream>>
     \/ /\ ~cancelled
        /\ current < MaxStreams
        /\ current' = current + 1
        /\ stream' = [stream EXCEPT ![current + 1] = "up"]
        /\ reader' = "identify"
  /\ UNCHANGED <<cancelled, cmdVars, down, up, panelVars, breaks>>

OpenFails ==
  /\ reader = "open"
  /\ ~cancelled
  /\ breaks < MaxBreaks
  /\ breaks' = breaks + 1
  /\ reader' = "backoff"
  /\ UNCHANGED <<current, cancelled, cmdVars, netVars, panelVars>>

(* stream.Send of the identification returns: on an error the loop goes on *)
(* to the next stream at once.                                             *)
Identify ==
  /\ reader = "identify"
  /\ \/ /\ stream[current] = "up"
        /\ up' = [up EXCEPT ![current] = Append(@, Identification)]
        /\ reader' = "recv"
     \/ /\ stream[current] # "up"
        /\ reader' = "open"
        /\ UNCHANGED up
  /\ UNCHANGED <<current, stream, cancelled, cmdVars, down, panelVars, breaks>>

(* stream.Recv returns a command: go a.executeCommand. *)
Recv ==
  /\ reader = "recv"
  /\ down[current] # <<>>
  /\ LET c == Head(down[current]) IN
       /\ pc' = [pc EXCEPT ![c] = "tosend"]
       /\ on' = [on EXCEPT ![c] = current]
  /\ down' = [down EXCEPT ![current] = Tail(@)]
  /\ UNCHANGED <<readerVars, stream, cancelled, mu, msg, chunks, up, panelVars, breaks>>

(* Mutant: "agent not registered" is an error like any other. *)
RecvFailsPlainly ==
  /\ reader = "recv"
  /\ stream[current] # "up"
  /\ reader' = "backoff"
  /\ UNCHANGED <<current, cancelled, cmdVars, netVars, panelVars, breaks>>

(* stream.Recv fails: if the panel does not know the agent, reRegister. *)
RecvFails ==
  /\ reader = "recv"
  /\ stream[current] # "up"
  /\ reader' = IF stream[current] = "refused" THEN "reregister" ELSE "backoff"
  /\ UNCHANGED <<current, cancelled, cmdVars, netVars, panelVars, breaks>>

(* reRegister: a failure is only logged. *)
ReRegister ==
  /\ reader = "reregister"
  /\ reader' = "backoff"
  /\ \/ /\ ~cancelled
        /\ registered' = TRUE
        /\ UNCHANGED breaks
     \/ /\ cancelled
        /\ UNCHANGED <<registered, breaks>>
     \/ /\ breaks < MaxBreaks
        /\ breaks' = breaks + 1
        /\ UNCHANGED registered
  /\ UNCHANGED <<current, cancelled, cmdVars, netVars, known, got>>

Backoff ==
  /\ reader = "backoff"
  /\ reader' = IF cancelled THEN "done" ELSE "open"
  /\ UNCHANGED <<current, cancelled, cmdVars, netVars, panelVars, breaks>>

-----------------------------------------------------------------------------
(* executeCommand *)

(* Mutant: Send without cmdSendMu. *)
LockSendNot(c) ==
  /\ pc[c] = "tosend"
  /\ pc' = [pc EXCEPT ![c] = "sending"]
  /\ UNCHANGED <<readerVars, cancelled, mu, msg, on, chunks, netVars, panelVars, breaks>>

(* sendCmd takes cmdSendMu ... *)
LockSend(c) ==
  /\ pc[c] = "tosend"
  /\ mu = None
  /\ mu' = c
  /\ pc' = [pc EXCEPT ![c] = "sending"]
  /\ UNCHANGED <<readerVars, cancelled, msg, on, chunks, netVars, panelVars, breaks>>

(* Mutant: a failed command is run again after its answer. *)
AfterRetries(c) ==
  CASE msg[c] \notin Verdicts /\ c \in Reconnects -> "acknowledge"
    [] msg[c] = "COMPLETED" /\ c \in Reconnects -> "signal"
    [] msg[c] = "COMPLETED" /\ c \notin Reconnects -> "done"
    [] OTHER -> "exec"

(* Where a command goes on after it sent a status. *)
After(c) ==
  CASE msg[c] \notin Verdicts /\ c \in Reconnects -> "acknowledge"
    [] msg[c] \notin Verdicts /\ c \notin Reconnects -> "exec"
    [] msg[c] \in Verdicts /\ c \in Reconnects -> "signal"
    [] OTHER -> "done"

(* Mutant: an error of Send returns before the unlock. *)
SendReturnsLocked(c) ==
  /\ pc[c] = "sending"
  /\ up' = IF stream[on[c]] = "up"
             THEN [up EXCEPT ![on[c]] = Append(@, <<c, msg[c]>>)] ELSE up
  /\ mu' = IF stream[on[c]] = "up" THEN None ELSE mu
  /\ pc' = [pc EXCEPT ![c] = After(c)]
  /\ UNCHANGED <<readerVars, cancelled, msg, on, chunks, stream, down, panelVars, breaks>>

(* ... and Send returns: an error is ignored or logged. *)
SendReturns(c) ==
  /\ pc[c] = "sending"
  /\ up' = IF stream[on[c]] = "up"
             THEN [up EXCEPT ![on[c]] = Append(@, <<c, msg[c]>>)] ELSE up
  /\ mu' = None
  /\ pc' = [pc EXCEPT ![c] = After(c)]
  /\ UNCHANGED <<readerVars, cancelled, msg, on, chunks, stream, down, panelVars, breaks>>

(* A streaming operation emits a chunk. *)
Emit(c) ==
  /\ pc[c] = "exec"
  /\ chunks[c] < MaxChunks
  /\ chunks' = [chunks EXCEPT ![c] = @ + 1]
  /\ msg' = [msg EXCEPT ![c] = "RUNNING"]
  /\ pc' = [pc EXCEPT ![c] = "tosend"]
  /\ UNCHANGED <<readerVars, cancelled, mu, on, netVars, panelVars, breaks>>

(* The work ends: by itself, by the timeout, or because ctx is cancelled. *)
Finish(c) ==
  /\ pc[c] = "exec"
  /\ \E v \in Verdicts :
       /\ cancelled => v = "FAILED"
       /\ msg' = [msg EXCEPT ![c] = v]
  /\ pc' = [pc EXCEPT ![c] = "tosend"]
  /\ UNCHANGED <<readerVars, cancelled, mu, on, chunks, netVars, panelVars, breaks>>

(* RECONNECT is answered before it is acted on. *)
Acknowledge(c) ==
  /\ pc[c] = "acknowledge"
  /\ msg' = [msg EXCEPT ![c] = "COMPLETED"]
  /\ pc' = [pc EXCEPT ![c] = "tosend"]
  /\ UNCHANGED <<readerVars, cancelled, mu, on, chunks, netVars, panelVars, breaks>>

(* The signal on reconnectCh, which makes connect return (AgentSession):   *)
(* its deferred cancelCommands ends the session's streams and commands.    *)
SignalReconnect(c) ==
  /\ pc[c] = "signal"
  /\ pc' = [pc EXCEPT ![c] = "done"]
  /\ IF cancelled
       THEN UNCHANGED <<cancelled, netVars>>
       ELSE /\ cancelled' = TRUE
            /\ Fail(Streams, "broken")
  /\ UNCHANGED <<readerVars, mu, msg, on, chunks, panelVars, breaks>>

-----------------------------------------------------------------------------
(* The session, the panel and the network *)

(* connect returns for another reason. *)
SessionLost ==
  /\ ~cancelled
  /\ breaks < MaxBreaks
  /\ breaks' = breaks + 1
  /\ cancelled' = TRUE
  /\ Fail(Streams, "broken")
  /\ UNCHANGED <<readerVars, cmdVars, panelVars>>

Break(s) ==
  /\ stream[s] = "up"
  /\ breaks < MaxBreaks
  /\ breaks' = breaks + 1
  /\ Fail({s}, "broken")
  /\ UNCHANGED <<readerVars, cancelled, cmdVars, panelVars>>

(* The panel restarts without its memory of the agent. *)
PanelForgets ==
  /\ registered
  /\ breaks < MaxBreaks
  /\ breaks' = breaks + 1
  /\ registered' = FALSE
  /\ Fail({s \in Streams : stream[s] = "up"}, "broken")
  /\ UNCHANGED <<readerVars, cancelled, cmdVars, known, got>>

(* The panel reads the next message of a stream. *)
PanelReads(s) ==
  /\ up[s] # <<>>
  /\ LET m == Head(up[s]) IN
       \/ /\ m = Identification /\ ~registered
          /\ Fail({s}, "refused")
          /\ UNCHANGED <<known, got>>
       \/ /\ m = Identification /\ registered
          /\ known' = [known EXCEPT ![s] = TRUE]
          /\ up' = [up EXCEPT ![s] = Tail(@)]
          /\ UNCHANGED <<stream, down, got>>
       \/ /\ m # Identification
          /\ got' = [got EXCEPT ![m[1]] = Append(@, m[2])]
          /\ up' = [up EXCEPT ![s] = Tail(@)]
          /\ UNCHANGED <<stream, down, known>>
  /\ UNCHANGED <<readerVars, cancelled, cmdVars, registered, breaks>>

PanelSends(c, s) ==
  /\ pc[c] = "unsent"
  /\ known[s] /\ stream[s] = "up"
  /\ pc' = [pc EXCEPT ![c] = "sent"]
  /\ down' = [down EXCEPT ![s] = Append(@, c)]
  /\ UNCHANGED <<readerVars, stream, cancelled, mu, msg, on, chunks, up, panelVars, breaks>>

Reader == Open \/ Identify \/ Recv \/ RecvFails \/ ReRegister \/ Backoff
Execute(c) ==
  \/ LockSend(c) \/ SendReturns(c) \/ Emit(c) \/ Finish(c)
  \/ Acknowledge(c) \/ SignalReconnect(c)
Next ==
  \/ Reader \/ OpenFails \/ SessionLost \/ PanelForgets
  \/ \E c \in Commands : Execute(c) \/ (\E s \in Streams : PanelSends(c, s))
  \/ \E s \in Streams : Break(s) \/ PanelReads(s)

Spec == Init /\ [][Next]_vars

(***************************************************************************)
(* Fairness: goroutines run, sync.Mutex is not starved (a waiter of more   *)
(* than a millisecond is handed the lock), a command ends (execCtx has a   *)
(* timeout), a connected panel reads.  Failures and commands are not fair. *)
(***************************************************************************)
Fairness ==
  /\ WF_vars(Reader)
  /\ \A c \in Commands : WF_vars(Execute(c)) /\ SF_vars(LockSend(c))
  /\ \A s \in Streams : WF_vars(PanelReads(s))

FairSpec == Spec /\ Fairness

-----------------------------------------------------------------------------
Steps == {"unsent", "sent", "tosend", "sending", "exec", "acknowledge",
          "signal", "done"}
Messages == {Identification} \cup (Commands \X ({"RUNNING"} \cup Verdicts))

TypeOK ==
  /\ reader \in {"open", "identify", "recv", "reregister", "backoff", "done"}
  /\ current \in 0..MaxStreams
  /\ stream \in [Streams -> {"none", "up", "refused", "broken"}]
  /\ cancelled \in BOOLEAN
  /\ mu \in Commands \cup {None}
  /\ pc \in [Commands -> Steps]
  /\ msg \in [Commands -> {"RUNNING"} \cup Verdicts]
  /\ on \in [Commands -> 0..MaxStreams]
  /\ chunks \in [Commands -> 0..MaxChunks]
  /\ down \in [Streams -> Seq(Commands)]
  /\ up \in [Streams -> Seq(Messages)]
  /\ known \in [Streams -> BOOLEAN] /\ registered \in BOOLEAN
  /\ got \in [Commands -> Seq({"RUNNING"} \cup Verdicts)]
  /\ breaks \in 0..MaxBreaks

(***************************************************************************)
(* gRPC forbids concurrent Send on one stream: the goroutines of commands  *)
(* and the reader, which identifies itself without cmdSendMu, are never    *)
(* inside Send of the same stream.                                         *)
(***************************************************************************)
Senders(s) ==
  {c \in Commands : pc[c] = "sending" /\ on[c] = s}
    \cup {x \in {None} : reader = "identify" /\ current = s}

OneSenderPerStream == \A s \in Streams : \A a, b \in Senders(s) : a = b

(***************************************************************************)
(* What the panel has of a command is a run of RUNNING and then at most    *)
(* one verdict, and a verdict means that the command's work is over,       *)
(* whichever streams came and went.                                        *)
(***************************************************************************)
HasVerdict(c) == \E i \in 1..Len(got[c]) : got[c][i] \in Verdicts

OneVerdict ==
  /\ TypeOK
  /\ \A c \in Commands :
       /\ \A i \in 1..Len(got[c]) : got[c][i] \in Verdicts => i = Len(got[c]) /\ i > 1
       /\ HasVerdict(c) => pc[c] \in {"signal", "done"}

(***************************************************************************)
(* Every command the agent receives is finished, and answered at the panel *)
(* unless its stream failed: no goroutine is stuck behind cmdSendMu, not   *)
(* even behind a command of a dead stream.                                 *)
(***************************************************************************)
Answered ==
  \A c \in Commands :
    (on[c] # 0) ~>
      (pc[c] = "done" /\ (HasVerdict(c) \/ stream[on[c]] # "up"))

(***************************************************************************)
(* Unless the session ends, the panel can reach the agent again: also      *)
(* after it forgot the agent while the heartbeats went on.                 *)
(***************************************************************************)
Reachable ==
  <>[](cancelled \/ (current > 0 /\ known[current] /\ stream[current] = "up"))
=============================================================================
