---------------------------- MODULE MetricsStream ----------------------------
(***************************************************************************)
(* The metrics of the host: the collector (Collector), which publishes a   *)
(* snapshot, and the sender of every session, which only ships what is     *)
(* published.  The agent ends with its last session.                       *)
(***************************************************************************)
EXTENDS Collector

CONSTANTS
  MaxStreams,      \* sessions; the end of the last is the end of the agent
  MaxStreamFails,  \* streams that do not open or that break
  Window           \* messages that one direction of a stream holds

VARIABLES
  sender,      \* session -> what its runMetricsStream does
  cancelled,   \* the context of the sessions up to this one is cancelled
  wire,        \* session -> snapshots on their way to the panel, by their times
  acks,        \* session -> the panel's acknowledgements not received yet
  panel,       \* the time of the last snapshot that the panel received
  streamFails

senderVars == <<sender, cancelled, wire, acks, panel, streamFails>>
vars == <<meVars, senderVars>>

Sessions == 1..MaxStreams

Init ==
  /\ CollectorInit
  /\ sender = [s \in Sessions |-> IF s = 1 THEN "open" ELSE "none"] /\ cancelled = 0
  /\ wire = [s \in Sessions |-> <<>>] /\ acks = [s \in Sessions |-> 0]
  /\ panel = 0 /\ streamFails = 0

-----------------------------------------------------------------------------
(* The sessions and the senders. *)

(* The session ends, however it does; the last one with the agent. *)
Cancel ==
  /\ cancelled < MaxStreams /\ sender[cancelled + 1] # "none"
  /\ cancelled' = cancelled + 1 /\ over' = (cancelled' = MaxStreams)
  /\ UNCHANGED <<clock, stalled, collectorVars, sender, wire, acks, panel, streamFails>>

StartSession(s) ==
  /\ s = cancelled + 1 /\ sender[s] = "none"
  /\ sender' = [sender EXCEPT ![s] = "open"]
  /\ UNCHANGED <<meVars, cancelled, wire, acks, panel, streamFails>>

Moves(s, from, to) ==
  /\ sender[s] = from
  /\ sender' = [sender EXCEPT ![s] = to]
  /\ UNCHANGED <<meVars, cancelled, panel>>

Open(s) == cancelled < s /\ Moves(s, "open", "active") /\ UNCHANGED <<wire, acks, streamFails>>

OpenFails(s) ==
  /\ streamFails < MaxStreamFails /\ streamFails' = streamFails + 1
  /\ Moves(s, "open", "backoff") /\ UNCHANGED <<wire, acks>>

BackedOff(s) == Moves(s, "backoff", "open") /\ UNCHANGED <<wire, acks, streamFails>>

(* Mutant: the loop that sends waits for the collection. *)
SendBetween(s) ==
  /\ sender[s] = "active" /\ cancelled < s /\ collector = "wait"
  /\ latest # None /\ Len(wire[s]) < Window
  /\ wire' = [wire EXCEPT ![s] = Append(@, latest.at)]
  /\ UNCHANGED <<meVars, sender, cancelled, acks, panel, streamFails>>

(* Whatever the collector is at, the snapshot that is published goes out. *)
Send(s) ==
  /\ sender[s] = "active" /\ cancelled < s
  /\ latest # None /\ Len(wire[s]) < Window
  /\ wire' = [wire EXCEPT ![s] = Append(@, latest.at)]
  /\ UNCHANGED <<meVars, sender, cancelled, acks, panel, streamFails>>

(* The stream fails with all that is on it. *)
Break(s) ==
  /\ streamFails < MaxStreamFails /\ streamFails' = streamFails + 1
  /\ wire' = [wire EXCEPT ![s] = <<>>] /\ acks' = [acks EXCEPT ![s] = 0]
  /\ Moves(s, "active", "broken")

(* By streamBroken or by an error of Send. *)
NoticeBroken(s) == Moves(s, "broken", "backoff") /\ UNCHANGED <<wire, acks, streamFails>>

SenderReturns(s) ==
  /\ cancelled >= s
  /\ \E at \in {"open", "active", "broken", "backoff"} : Moves(s, at, "done")
  /\ UNCHANGED <<wire, acks, streamFails>>

(* The panel takes no message while its acknowledgements back up. *)
Deliver(s) ==
  /\ wire[s] # <<>> /\ acks[s] < Window
  /\ panel' = Head(wire[s])
  /\ wire' = [wire EXCEPT ![s] = Tail(@)] /\ acks' = [acks EXCEPT ![s] = @ + 1]
  /\ UNCHANGED <<meVars, sender, cancelled, streamFails>>

(* The goroutine that receives what the panel answers. *)
DrainAcks(s) ==
  /\ acks[s] > 0
  /\ acks' = [acks EXCEPT ![s] = @ - 1]
  /\ UNCHANGED <<meVars, sender, cancelled, wire, panel, streamFails>>

Sender(s) == Open(s) \/ BackedOff(s) \/ Send(s) \/ NoticeBroken(s) \/ SenderReturns(s)

SendNext ==
  \/ Cancel
  \/ \E s \in Sessions :
       \/ StartSession(s) \/ Sender(s) \/ OpenFails(s) \/ Break(s)
       \/ Deliver(s) \/ DrainAcks(s)

Next == ((Tick \/ Collect) /\ UNCHANGED <<over, senderVars>>) \/ SendNext

(* A goroutine that can run does, and the panel reads what it is sent.     *)
(* Nothing is assumed of the collector: a probe may take forever.          *)
Fairness ==
  \A s \in Sessions :
    /\ WF_vars(StartSession(s)) /\ WF_vars(Sender(s))
    /\ WF_vars(Deliver(s)) /\ WF_vars(DrainAcks(s))

Spec == Init /\ [][Next]_vars /\ Fairness

-----------------------------------------------------------------------------
(* The panel always gets to hold what is published last, even if the       *)
(* collector never moves again: streams fail, sessions are replaced, and   *)
(* acknowledgements fill their window meanwhile.                           *)
MetricsArrive == []<>(panel = latest.at \/ over)
=============================================================================
