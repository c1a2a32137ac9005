----------------------------- MODULE LogShipper -----------------------------
(***************************************************************************)
(* The log shipper of internal/agent/logshipper.go: collectors push lines  *)
(* into the ring for the agent's whole life; every connection to the       *)
(* control plane (a session, agent.go connect) starts a runLogStream       *)
(* goroutine, which opens StreamLogs, pops lines, sends them, puts a line  *)
(* back when its Send fails, and re-opens a broken stream.  A session ends *)
(* by cancelling its context; its sender notices later, so that the sender *)
(* of the next session may already be at work on the same ring.            *)
(*                                                                         *)
(* Send returning nil means that gRPC took the message, not that the       *)
(* server has it: what is in flight when a stream breaks is lost.  A Send  *)
(* on a stream that broke unnoticed fails, or still takes the message.     *)
(*                                                                         *)
(* evicted and lost are history variables: where dropped lines went.       *)
(***************************************************************************)
EXTENDS LogRing

CONSTANTS
  LastLine,     \* bound: lines the collectors produce
  MaxSessions,  \* bound: sessions the agent has
  MaxBreaks     \* bound: streams that fail to open or break

ASSUME LogShipperAssumption ==
  LastLine \in Nat /\ MaxSessions \in Nat /\ MaxBreaks \in Nat

Lines == 1..LastLine
Sessions == 1..MaxSessions

VARIABLES
  ring,       \* a.logRing
  collected,  \* how many lines were pushed; line n is the n-th
  session,    \* the latest session, 0 before the first
  cancelled,  \* cancelled[s]: commandCtx of session s is done
  step,       \* step[s]: the sender's place in runLogStream
  hold,       \* hold[s]: the line it popped and has not sent, or 0
  stream,     \* stream[s]: "none", "up", "broken" (by the network), "noticed"
              \*   (the ack drainer has closed streamBroken)
  flight,     \* flight[s]: lines gRPC took and the server has not received
  received,   \* what the server received, in order
  evicted, lost, breaks

ringVars == <<ring, collected, evicted>>
netVars == <<stream, flight, received, lost, breaks>>
sessionVars == <<session, cancelled>>
lsVars == <<ring, collected, session, cancelled, step, hold, stream, flight,
          received, evicted, lost, breaks>>

StepTo(s, place) == step' = [step EXCEPT ![s] = place]

LSInit ==
  /\ ring = <<>>
  /\ collected = 0
  /\ session = 0
  /\ cancelled = [s \in Sessions |-> FALSE]
  /\ step = [s \in Sessions |-> "none"]
  /\ hold = [s \in Sessions |-> 0]
  /\ stream = [s \in Sessions |-> "none"]
  /\ flight = [s \in Sessions |-> <<>>]
  /\ received = <<>>
  /\ evicted = {}
  /\ lost = {}
  /\ breaks = 0

(* A follower or the agent-log tap pushes its next line. *)
CollectLine ==
  /\ collected < LastLine
  /\ collected' = collected + 1
  /\ ring' = Push(ring, collected + 1)
  /\ evicted' = evicted \cup PushEvicts(ring)
  /\ UNCHANGED <<sessionVars, step, hold, netVars>>

(* connect: the new session launches its sender. *)
StartSession ==
  /\ session < MaxSessions
  /\ session > 0 => cancelled[session]
  /\ session' = session + 1
  /\ StepTo(session + 1, "open")
  /\ UNCHANGED <<cancelled, ringVars, hold, netVars>>

(* connect returns: commandCtx is cancelled, which ends its streams. *)
EndSession ==
  /\ session \in Sessions
  /\ session < MaxSessions
  /\ ~cancelled[session]
  /\ cancelled' = [cancelled EXCEPT ![session] = TRUE]
  /\ stream' = [stream EXCEPT ![session] = IF @ = "up" THEN "broken" ELSE @]
  /\ lost' = lost \cup Held(flight[session])
  /\ flight' = [flight EXCEPT ![session] = <<>>]
  /\ UNCHANGED <<session, ringVars, step, hold, received, breaks>>

(* The top of the loop, and client.StreamLogs: done, open, or back off. *)
Open(s) ==
  /\ step[s] = "open"
  /\ \/ /\ cancelled[s]
        /\ StepTo(s, "done")
        /\ UNCHANGED stream
     \/ /\ ~cancelled[s]
        /\ StepTo(s, "select")
        /\ stream' = [stream EXCEPT ![s] = "up"]
  /\ UNCHANGED <<ringVars, sessionVars, hold, flight, received, lost, breaks>>

OpenFails(s) ==
  /\ step[s] = "open"
  /\ breaks < MaxBreaks
  /\ breaks' = breaks + 1
  /\ StepTo(s, "backoff")
  /\ UNCHANGED <<ringVars, sessionVars, hold, stream, flight, received, lost>>

(* The network drops the stream with what it carried. *)
Break(s) ==
  /\ stream[s] = "up"
  /\ breaks < MaxBreaks
  /\ breaks' = breaks + 1
  /\ stream' = [stream EXCEPT ![s] = "broken"]
  /\ lost' = lost \cup Held(flight[s])
  /\ flight' = [flight EXCEPT ![s] = <<>>]
  /\ UNCHANGED <<ringVars, sessionVars, step, hold, received>>

(* The ack drainer's Recv fails: close(streamBroken). *)
Notice(s) ==
  /\ stream[s] = "broken"
  /\ stream' = [stream EXCEPT ![s] = "noticed"]
  /\ UNCHANGED <<ringVars, sessionVars, step, hold, flight, received, lost, breaks>>

(* The inner select: leave when the context is done or the stream is known *)
(* to be broken (either, when both are), else pop a line if there is one.  *)
Select(s) ==
  /\ step[s] = "select"
  /\ \/ /\ cancelled[s]
        /\ StepTo(s, "done")
        /\ UNCHANGED <<ring, hold>>
     \/ /\ stream[s] = "noticed"
        /\ StepTo(s, "backoff")
        /\ UNCHANGED <<ring, hold>>
     \/ /\ ~cancelled[s] /\ stream[s] # "noticed"
        /\ ring # <<>>
        /\ hold' = [hold EXCEPT ![s] = Head(ring)]
        /\ ring' = Tail(ring)
        /\ StepTo(s, "send")
  /\ UNCHANGED <<collected, evicted, sessionVars, netVars>>

(* stream.Send returns nil: gRPC has the line. *)
SendTaken(s) ==
  /\ step[s] = "send"
  /\ \/ /\ stream[s] = "up"
        /\ flight' = [flight EXCEPT ![s] = Append(@, hold[s])]
        /\ UNCHANGED lost
     \/ /\ stream[s] = "broken"
        /\ lost' = lost \cup {hold[s]}
        /\ UNCHANGED flight
  /\ hold' = [hold EXCEPT ![s] = 0]
  /\ StepTo(s, "select")
  /\ UNCHANGED <<ringVars, sessionVars, stream, received, breaks>>

(* Mutant: a line whose Send failed is not put back. *)
SendFailsForgets(s) ==
  /\ step[s] = "send"
  /\ stream[s] \in {"broken", "noticed"}
  /\ hold' = [hold EXCEPT ![s] = 0]
  /\ StepTo(s, "backoff")
  /\ UNCHANGED <<ringVars, sessionVars, netVars>>

(* stream.Send fails: the line goes back to the head of the ring. *)
SendFails(s) ==
  /\ step[s] = "send"
  /\ stream[s] \in {"broken", "noticed"}
  /\ ring' = PushFront(ring, hold[s])
  /\ evicted' = evicted \cup PushFrontEvicts(ring)
  /\ hold' = [hold EXCEPT ![s] = 0]
  /\ StepTo(s, "backoff")
  /\ UNCHANGED <<collected, sessionVars, netVars>>

(* Mutant: the sender returns where it should open the stream again. *)
BackoffReturns(s) ==
  /\ step[s] = "backoff"
  /\ StepTo(s, "done")
  /\ UNCHANGED <<ringVars, sessionVars, hold, netVars>>

(* The wait before the stream is opened again. *)
Backoff(s) ==
  /\ step[s] = "backoff"
  /\ StepTo(s, IF cancelled[s] THEN "done" ELSE "open")
  /\ UNCHANGED <<ringVars, sessionVars, hold, netVars>>

(* The server receives the next line of a stream. *)
Receive(s) ==
  /\ flight[s] # <<>>
  /\ received' = Append(received, Head(flight[s]))
  /\ flight' = [flight EXCEPT ![s] = Tail(@)]
  /\ UNCHANGED <<ringVars, sessionVars, step, hold, stream, lost, breaks>>

Sender(s) ==
  Open(s) \/ Select(s) \/ SendTaken(s) \/ SendFails(s) \/ Backoff(s)
LSNext ==
  \/ CollectLine \/ StartSession \/ EndSession
  \/ \E s \in Sessions :
       Sender(s) \/ OpenFails(s) \/ Break(s) \/ Notice(s) \/ Receive(s)

LSSpec == LSInit /\ [][LSNext]_lsVars

(***************************************************************************)
(* Fairness: goroutines run, the agent starts a session after each ended   *)
(* one (Run's loop), a broken stream is noticed (the ack drainer's Recv    *)
(* returns), a connected server reads.  Nothing is fair about the network  *)
(* failing, about sessions ending or about lines being logged.             *)
(***************************************************************************)
LSFairness ==
  /\ WF_lsVars(StartSession)
  /\ \A s \in Sessions :
       WF_lsVars(Sender(s)) /\ WF_lsVars(Notice(s)) /\ WF_lsVars(Receive(s))

LSFairSpec == LSSpec /\ LSFairness

-----------------------------------------------------------------------------
LSTypeOK ==
  /\ ring \in Seq(Lines) /\ Len(ring) <= Cap
  /\ collected \in 0..LastLine
  /\ session \in 0..MaxSessions
  /\ cancelled \in [Sessions -> BOOLEAN]
  /\ step \in [Sessions -> {"none", "open", "select", "send", "backoff", "done"}]
  /\ hold \in [Sessions -> 0..LastLine]
  /\ stream \in [Sessions -> {"none", "up", "broken", "noticed"}]
  /\ flight \in [Sessions -> Seq(Lines)]
  /\ received \in Seq(Lines)
  /\ evicted \subseteq Lines /\ lost \subseteq Lines
  /\ breaks \in 0..MaxBreaks

(* The lines the shipper still has: queued, popped, or on the wire. *)
InHand ==
  Held(ring) \cup ({hold[s] : s \in Sessions} \ {0})
    \cup UNION {Held(flight[s]) : s \in Sessions}

(***************************************************************************)
(* No line vanishes: every collected line is in hand, was received, was    *)
(* evicted by a full ring, or was on a stream that broke.  A sender that   *)
(* returns, or a failed Send, never takes a line with it.                  *)
(***************************************************************************)
NothingVanishes ==
  1..collected = InHand \cup Held(received) \cup evicted \cup lost

(***************************************************************************)
(* At most once: no line is received twice, and one that is still in hand, *)
(* evicted or lost was not received; this although a line may go back to   *)
(* the ring many times, by senders of several sessions.                    *)
(***************************************************************************)
AtMostOnce ==
  /\ \A i, j \in 1..Len(received) : received[i] = received[j] => i = j
  /\ Held(received) \cap (InHand \cup evicted \cup lost) = {}
  /\ InHand \cap (evicted \cup lost) = {}

(***************************************************************************)
(* While there was one session the server sees the lines in the order they *)
(* were collected, across re-opened streams and lines put back.  (Senders  *)
(* of two sessions may overlap and put a line back behind a newer one.)    *)
(***************************************************************************)
InOrder == session <= 1 => Ascending(received) /\ Ascending(ring)

(* What the shipper makes of the lines: the above, with its types.  (Of    *)
(* `lost` see DroppedOnceAccepted.)                                        *)
Delivery == LSTypeOK /\ NothingVanishes /\ AtMostOnce /\ InOrder

(***************************************************************************)
(* logshipper.go:25-27, "The sender peeks the oldest line and only drops it *)
(* once the server accepts it, so a send failure loses nothing but the     *)
(* tail during a long outage", and :423-424, "no data loss on a failed     *)
(* send": every collected line is in hand, or the server has it, or a full *)
(* ring has evicted it.                                                    *)
(***************************************************************************)
DroppedOnceAccepted == 1..collected = InHand \cup Held(received) \cup evicted

(* Every collected line is received, evicted or lost in the end: the ring  *)
(* is drained whatever sessions and streams it takes.                      *)
Drains ==
  \A l \in Lines :
    (l <= collected) ~> (l \in Held(received) \cup evicted \cup lost)

(* The shipper implements the channel of LogChannel. *)
fateBar ==
  [l \in Lines |->
     IF l \in Held(received) THEN "delivered"
     ELSE IF l \in evicted \cup lost THEN "dropped"
     ELSE IF l <= collected THEN "pending" ELSE "new"]

Channel == INSTANCE LogChannel WITH fate <- fateBar
ImplementsChannel == Channel!ChSpec
=============================================================================
