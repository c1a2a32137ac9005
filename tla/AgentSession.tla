---------------------------- MODULE AgentSession ----------------------------
(***************************************************************************)
(* The connection loop of internal/agent/agent.go: Run, connect and        *)
(* tickHeartbeat, with the goroutines of RECONNECT commands that signal it *)
(* through reconnectCh.                                                    *)
(*                                                                         *)
(* One goroutine dials, registers, sends the bootstrap heartbeat and then  *)
(* waits for a heartbeat tick, a reconnect signal or the end of the agent. *)
(* When connect returns, Run either tries again quickly (the control plane *)
(* asked for a handoff) or waits for a backoff that doubles.  Run calls    *)
(* connect from two places, its main loop and the fast loop inside it,     *)
(* which treat its result differently: mode says which call is running.    *)
(*                                                                         *)
(* The control plane and the network are nondeterministic: a call fails    *)
(* (the budget MaxFails), a heartbeat asks for a reconnect or a RECONNECT  *)
(* command arrives (the budget MaxSignals).  A heartbeat that changes      *)
(* nothing is a stuttering step.                                           *)
(*                                                                         *)
(* fails, signals, handoffs, owed and rush are history variables.          *)
(***************************************************************************)
EXTENDS Naturals

CONSTANTS
  FastTries,   \* attempts of the fast loop: 30 in the code
  MinBackoff,  \* seconds of the first wait: 5
  MaxBackoff,  \* seconds of the longest wait: 30
  MaxFails,    \* bound: calls to the control plane that fail
  MaxSignals   \* bound: reconnects the control plane asks for

ASSUME AgentSessionAssumption ==
  /\ FastTries \in Nat \ {0}
  /\ MinBackoff \in Nat \ {0}
  /\ MaxBackoff \in Nat /\ MinBackoff <= MaxBackoff
  /\ MaxFails \in Nat /\ MaxSignals \in Nat

VARIABLES
  pc,        \* where Run and connect are: see Steps
  mode,      \* "run" or "fast": which call of connect
  tries,     \* i of the fast loop
  failed,    \* connect returned an error
  fast,      \* a.fastReconnect
  token,     \* signals reconnectCh holds: its capacity is 1
  pending,   \* RECONNECT commands whose goroutine has not signalled yet
  conn,      \* a.conn is not nil
  open,      \* grpc.ClientConns that were not closed
  backoff,   \* Run's backoff, in seconds
  stopped,   \* the root context is done
  fails, signals,
  handoffs,  \* how often the agent gave up a session for a reconnect
  owed,      \* fast attempts the last reconnect request is still owed
  rush       \* dials since the last wait

loopVars == <<mode, tries, backoff>>
signalVars == <<token, pending, signals>>
handoffVars == <<fast, handoffs>>
connVars == <<conn, open>>
vars == <<pc, mode, tries, failed, fast, token, pending, conn, open, backoff,
          stopped, fails, signals, handoffs, owed, rush>>

Steps == {"top", "dial", "register", "bootstrap", "loop", "returned",
          "fastwait", "wait", "done"}
InSession == pc \in {"bootstrap", "loop"}

Init ==
  /\ pc = "top"
  /\ mode = "run"
  /\ tries = 0
  /\ failed = FALSE
  /\ fast = FALSE
  /\ token = 0
  /\ pending = 0
  /\ conn = FALSE
  /\ open = 0
  /\ backoff = MinBackoff
  /\ stopped = FALSE
  /\ fails = 0
  /\ signals = 0
  /\ handoffs = 0
  /\ owed = 0
  /\ rush = 0

(* connect returns, which cancels the context of the session's streams. *)
Return(err) == pc' = "returned" /\ failed' = err

(* a.fastReconnect.Store(true), and connect returns nil. *)
Handoff ==
  /\ Return(FALSE)
  /\ fast' = TRUE
  /\ handoffs' = handoffs + 1
  /\ owed' = FastTries

(* A call of the control plane fails: by itself, or because of the stop. *)
CallFails ==
  /\ \/ stopped /\ UNCHANGED fails
     \/ fails < MaxFails /\ fails' = fails + 1
  /\ Return(TRUE)

(* The head of Run's loop. *)
Top ==
  /\ pc = "top"
  /\ pc' = IF stopped THEN "done" ELSE "dial"
  /\ UNCHANGED <<loopVars, failed, handoffVars, signalVars, connVars, stopped,
                 fails, owed, rush>>

(* connect: a new ClientConn, stored over whatever a.conn was. *)
Dial ==
  /\ pc = "dial"
  /\ pc' = "register"
  /\ conn' = TRUE
  /\ open' = open + 1
  /\ rush' = rush + 1
  /\ UNCHANGED <<loopVars, failed, handoffVars, signalVars, stopped, fails, owed>>

(* loadTLSConfig or NewClient fails: a.conn is left as it was. *)
DialFails ==
  /\ pc = "dial"
  /\ CallFails
  /\ rush' = rush + 1
  /\ UNCHANGED <<loopVars, handoffVars, signalVars, connVars, stopped, owed>>

Register ==
  /\ pc = "register"
  /\ ~stopped
  /\ pc' = "bootstrap"
  /\ owed' = 0
  /\ UNCHANGED <<loopVars, failed, handoffVars, signalVars, connVars, stopped,
                 fails, rush>>

RegisterFails ==
  /\ pc = "register"
  /\ CallFails
  /\ UNCHANGED <<loopVars, handoffVars, signalVars, connVars, stopped, owed, rush>>

(* The heartbeat at the start of a session; a failure is only logged. *)
Bootstrap ==
  /\ pc = "bootstrap"
  /\ pc' = "loop"
  /\ \/ UNCHANGED fails
     \/ fails < MaxFails /\ fails' = fails + 1
  /\ UNCHANGED <<loopVars, failed, handoffVars, signalVars, connVars, stopped,
                 owed, rush>>

(* A heartbeat, of the bootstrap or of a tick, is answered with "reconnect". *)
HeartbeatReconnect ==
  /\ InSession
  /\ ~stopped
  /\ signals < MaxSignals
  /\ signals' = signals + 1
  /\ Handoff
  /\ UNCHANGED <<loopVars, token, pending, connVars, stopped, fails, rush>>

HeartbeatFails ==
  /\ pc = "loop"
  /\ CallFails
  /\ UNCHANGED <<loopVars, handoffVars, signalVars, connVars, stopped, owed, rush>>

(* The select receives from reconnectCh. *)
TakeSignal ==
  /\ pc = "loop"
  /\ token > 0
  /\ token' = token - 1
  /\ Handoff
  /\ UNCHANGED <<loopVars, pending, signals, connVars, stopped, fails, rush>>

(* ctx.Done in the select of connect. *)
LeaveLoop ==
  /\ pc = "loop"
  /\ stopped
  /\ Return(FALSE)
  /\ UNCHANGED <<loopVars, handoffVars, signalVars, connVars, stopped, fails,
                 owed, rush>>

CloseConn ==
  /\ conn' = FALSE
  /\ open' = IF conn THEN open - 1 ELSE open

(* Run after the connect of its own loop: close, then fast loop or wait. *)
RunReturned ==
  /\ pc = "returned"
  /\ mode = "run"
  /\ CloseConn
  /\ \/ /\ stopped
        /\ pc' = "done"
        /\ UNCHANGED <<mode, tries, fast>>
     \/ /\ ~stopped /\ fast
        /\ fast' = FALSE
        /\ mode' = "fast"
        /\ tries' = 0
        /\ pc' = "fastwait"
     \/ /\ ~stopped /\ ~fast
        /\ pc' = "wait"
        /\ UNCHANGED <<mode, tries, fast>>
  /\ UNCHANGED <<backoff, failed, signalVars, handoffs, stopped, fails, owed, rush>>

(* connect returned nil to the fast loop: break, continue; nothing closed. *)
FastSucceeded ==
  /\ pc = "returned"
  /\ mode = "fast" /\ ~failed
  /\ backoff' = MinBackoff
  /\ mode' = "run"
  /\ pc' = "top"
  /\ UNCHANGED <<tries, failed, handoffVars, signalVars, connVars, stopped,
                 fails, owed, rush>>

(* Mutant: the fast loop leaves closing to Run. *)
FastFailedKeepsConn ==
  /\ pc = "returned"
  /\ mode = "fast" /\ failed
  /\ tries' = tries + 1
  /\ owed' = IF owed > 0 THEN owed - 1 ELSE 0
  /\ \/ /\ tries + 1 < FastTries
        /\ pc' = "fastwait"
        /\ UNCHANGED <<mode, backoff>>
     \/ /\ tries + 1 >= FastTries
        /\ backoff' = MinBackoff
        /\ mode' = "run"
        /\ pc' = "wait"
  /\ UNCHANGED <<failed, handoffVars, signalVars, connVars, stopped, fails, rush>>

(* Mutant: Run returns when the fast tries are used up. *)
FastFailedReturns ==
  /\ pc = "returned"
  /\ mode = "fast" /\ failed
  /\ CloseConn
  /\ tries' = tries + 1
  /\ owed' = IF owed > 0 THEN owed - 1 ELSE 0
  /\ pc' = IF tries + 1 < FastTries THEN "fastwait" ELSE "done"
  /\ UNCHANGED <<mode, backoff, failed, handoffVars, signalVars, stopped, fails, rush>>

(* connect failed in the fast loop: close, then the next try, if any. *)
FastFailed ==
  /\ pc = "returned"
  /\ mode = "fast" /\ failed
  /\ CloseConn
  /\ tries' = tries + 1
  /\ owed' = IF owed > 0 THEN owed - 1 ELSE 0
  /\ \/ /\ tries + 1 < FastTries
        /\ pc' = "fastwait"
        /\ UNCHANGED <<mode, backoff>>
     \/ /\ tries + 1 >= FastTries
        /\ backoff' = MinBackoff
        /\ mode' = "run"
        /\ pc' = "wait"
  /\ UNCHANGED <<failed, handoffVars, signalVars, stopped, fails, rush>>

(* One second, or the backoff, is over. *)
FastWaited ==
  /\ pc = "fastwait"
  /\ pc' = "dial"
  /\ rush' = 0
  /\ UNCHANGED <<loopVars, failed, handoffVars, signalVars, connVars, stopped,
                 fails, owed>>

Waited ==
  /\ pc = "wait"
  /\ pc' = "top"
  /\ rush' = 0
  /\ backoff' = IF backoff * 2 < MaxBackoff THEN backoff * 2 ELSE MaxBackoff
  /\ UNCHANGED <<mode, tries, failed, handoffVars, signalVars, connVars,
                 stopped, fails, owed>>

(* ctx.Done in a select of Run. *)
LeaveWait ==
  /\ pc \in {"fastwait", "wait"}
  /\ stopped
  /\ pc' = "done"
  /\ UNCHANGED <<loopVars, failed, handoffVars, signalVars, connVars, stopped,
                 fails, owed, rush>>

(* The command stream of the session receives RECONNECT and starts the     *)
(* goroutine of executeCommand, which may outlive the session.             *)
ReconnectArrives ==
  /\ InSession
  /\ ~stopped
  /\ signals < MaxSignals
  /\ signals' = signals + 1
  /\ pending' = pending + 1
  /\ UNCHANGED <<pc, loopVars, failed, handoffVars, token, connVars, stopped,
                 fails, owed, rush>>

(* Its non-blocking send: a signal that finds the channel full is dropped. *)
Signal ==
  /\ pending > 0
  /\ pending' = pending - 1
  /\ token' = 1
  /\ UNCHANGED <<pc, loopVars, failed, handoffVars, signals, connVars, stopped,
                 fails, owed, rush>>

(* main.go: SIGINT or SIGTERM cancels the root context. *)
Stop ==
  /\ ~stopped
  /\ stopped' = TRUE
  /\ UNCHANGED <<pc, loopVars, failed, handoffVars, signalVars, connVars,
                 fails, owed, rush>>

(* The steps the goroutine of Run takes by itself. *)
Advance ==
  \/ Top \/ Dial \/ Register \/ Bootstrap
  \/ TakeSignal \/ LeaveLoop
  \/ RunReturned \/ FastSucceeded \/ FastFailed
  \/ FastWaited \/ Waited \/ LeaveWait

(* What the control plane or the network does to it. *)
Disturb ==
  DialFails \/ RegisterFails \/ HeartbeatFails \/ HeartbeatReconnect

Next == Advance \/ Disturb \/ ReconnectArrives \/ Signal \/ Stop

Spec == Init /\ [][Next]_vars

(***************************************************************************)
(* Fairness: timers fire, and a call of the control plane returns, with an *)
(* answer or with an error (keepalive breaks a dead transport after 40     *)
(* seconds; the root context is a parent of every call's).  Of a select    *)
(* with several ready cases none is favoured, and the heartbeat ticks are  *)
(* far apart, so a stored signal is taken.  Nothing makes a signal, a      *)
(* failure or the stop happen.                                             *)
(***************************************************************************)
Fairness == WF_vars(Advance \/ RegisterFails) /\ WF_vars(Signal)

FairSpec == Spec /\ Fairness

-----------------------------------------------------------------------------
Places == pc \in Steps /\ mode \in {"run", "fast"}
Flags ==
  /\ failed \in BOOLEAN /\ fast \in BOOLEAN
  /\ conn \in BOOLEAN /\ stopped \in BOOLEAN
Numbers ==
  /\ tries \in 0..FastTries /\ (mode = "fast" => tries < FastTries)
  /\ token \in 0..1 /\ pending \in Nat
  /\ open \in Nat /\ (conn => open > 0)
  /\ backoff \in MinBackoff..MaxBackoff
  /\ fails \in 0..MaxFails /\ signals \in 0..MaxSignals
  /\ handoffs \in Nat /\ rush \in Nat
  /\ owed \in 0..FastTries
TypeOK == Places /\ Flags /\ Numbers

(***************************************************************************)
(* Every handoff is earned: the agent gives up a session for a reconnect   *)
(* at most once per request of the control plane.  A signal left in        *)
(* reconnectCh by an earlier session may end a later one, but the requests *)
(* of heartbeats and commands never multiply into a storm.                 *)
(***************************************************************************)
HandoffsEarned ==
  handoffs + pending + token <= signals

(***************************************************************************)
(* The agent never dials more than twice without a wait in between, even   *)
(* if every session is ended by a reconnect as soon as it starts: the      *)
(* `continue` after the fast loop skips one wait, never two in a row.      *)
(***************************************************************************)
DialsPaced == rush <= 2

(***************************************************************************)
(* agent.go:59-61: after a reconnect request the loop makes its fast       *)
(* attempts before it falls back to the backoff.  Whichever call of        *)
(* connect the request ended, Run waits for a backoff only when the agent  *)
(* has registered since, or after FastTries failed fast attempts.          *)
(***************************************************************************)
FastBeforeSlow == pc = "wait" => owed = 0

(***************************************************************************)
(* Connections do not pile up: a session of the fast loop that ends in a   *)
(* handoff leaves its connection open, overwritten by the next dial (the   *)
(* main loop is where "Close old connection before potentially             *)
(* reconnecting", agent.go:178, happens); apart from the current one there *)
(* is never more than one for each handoff, whatever calls fail.           *)
(***************************************************************************)
ConnectionsBounded == open <= handoffs + (IF conn THEN 1 ELSE 0)

(* What the session loop never does: the above, with its types.            *)
SessionSafe ==
  TypeOK /\ HandoffsEarned /\ DialsPaced /\ FastBeforeSlow /\ ConnectionsBounded

(***************************************************************************)
(* When the control plane stops failing and asking, the agent comes to     *)
(* rest in a session, or has stopped, with no signal left over.            *)
(***************************************************************************)
Settles == <>[]((pc = "done" /\ stopped) \/ (pc = "loop" /\ token = 0 /\ pending = 0))

(* A stopped agent leaves Run, wherever the stop finds it. *)
Stops == stopped ~> pc = "done"
=============================================================================
