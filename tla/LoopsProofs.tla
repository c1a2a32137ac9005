----------------------------- MODULE LoopsProofs ------------------------------
(***************************************************************************)
(* The agent's background loops, for every bound on what fails: the        *)
(* session loop, the followers of containers, and the log shipper.         *)
(***************************************************************************)
EXTENDS AgentSession, LogFollower, LogShipper, TLAPS

-----------------------------------------------------------------------------
(* AgentSession *)

(* How many dials may lie behind each place of the loop: the fast loop     *)
(* dials right after a wait, the main loop possibly right after the fast   *)
(* loop's last dial.                                                       *)
Paced ==
  /\ rush <= 2
  /\ pc \in {"top", "dial"} => rush <= 1
  /\ mode = "fast" /\ pc = "dial" => rush = 0
  /\ mode = "fast" => (pc # "top" /\ (pc \in Steps \ {"fastwait", "done"} => rush <= 1))
  /\ pc = "fastwait" => mode = "fast"
  /\ pc = "wait" => mode = "run"

(* Where the attempts owed to a reconnect request are remembered: in       *)
(* fastReconnect, or in the tries the fast loop has left.                  *)
Remembered ==
  /\ mode = "run" /\ owed > 0 => fast
  /\ mode = "fast" /\ fast => pc = "returned" /\ ~failed
  /\ mode = "fast" /\ ~fast => owed + tries <= FastTries
  /\ pc = "wait" => mode = "run" /\ ~fast
  /\ pc \in {"bootstrap", "loop"} => owed = 0
  /\ pc = "returned" /\ ~failed => fast \/ owed = 0

LEMMA TypeInit == Init => TypeOK
<1>1. Init => Places BY DEF Init, Places, Steps
<1>2. Init => Flags BY Zenon DEF Init, Flags
<1>3. Init => Numbers BY AgentSessionAssumption DEF Init, Numbers
<1> QED BY <1>1, <1>2, <1>3 DEF TypeOK

LEMMA PlacesStep == Places /\ [Next]_vars => Places'
BY DEF Places, Steps, vars, Next, Advance, Disturb, Top, Dial, Register, Bootstrap,
  TakeSignal, LeaveLoop, RunReturned, FastSucceeded, FastFailed, FastWaited,
  Waited, LeaveWait, DialFails, RegisterFails, HeartbeatFails, HeartbeatReconnect,
  ReconnectArrives, Signal, Stop, CallFails, Handoff, Return, loopVars

LEMMA FlagsStep == Flags /\ [Next]_vars => Flags'
<1> SUFFICES ASSUME Flags, [Next]_vars PROVE Flags'
  OBVIOUS
<1> USE DEF Flags, handoffVars, connVars
<1>1. CASE Top \/ Dial \/ Register \/ Bootstrap
  BY <1>1, Zenon DEF Top, Dial, Register, Bootstrap
<1>2. CASE TakeSignal \/ LeaveLoop
  BY <1>2, Zenon DEF TakeSignal, LeaveLoop, Handoff, Return
<1>3. CASE RunReturned BY <1>3, Zenon DEF RunReturned, CloseConn
<1>4. CASE FastSucceeded \/ FastFailed
  BY <1>4, Zenon DEF FastSucceeded, FastFailed, CloseConn
<1>5. CASE FastWaited \/ Waited \/ LeaveWait
  BY <1>5, Zenon DEF FastWaited, Waited, LeaveWait
<1>6. CASE Disturb
  BY <1>6, Zenon DEF Disturb, DialFails, RegisterFails, HeartbeatFails,
              HeartbeatReconnect, CallFails, Handoff, Return
<1>7. CASE ReconnectArrives \/ Signal \/ Stop
  BY <1>7, Zenon DEF ReconnectArrives, Signal, Stop
<1>8. CASE UNCHANGED vars BY <1>8, Zenon DEF vars
<1> QED
  BY <1>1, <1>2, <1>3, <1>4, <1>5, <1>6, <1>7, <1>8 DEF Next, Advance

LEMMA NumbersStep == Numbers /\ [Next]_vars => Numbers'
<1> SUFFICES ASSUME Numbers, [Next]_vars PROVE Numbers'
  OBVIOUS
<1> USE AgentSessionAssumption DEF Numbers, loopVars, signalVars, handoffVars,
        connVars
<1>1. CASE Top \/ Register \/ Bootstrap BY <1>1 DEF Top, Register, Bootstrap
<1>2. CASE Dial BY <1>2 DEF Dial
<1>3. CASE TakeSignal \/ LeaveLoop
  BY <1>3 DEF TakeSignal, LeaveLoop, Handoff, Return
<1>4. CASE RunReturned BY <1>4 DEF RunReturned, CloseConn
<1>5. CASE FastSucceeded BY <1>5 DEF FastSucceeded
<1>6. CASE FastFailed BY <1>6 DEF FastFailed, CloseConn
<1>7. CASE FastWaited \/ Waited \/ LeaveWait
  BY <1>7 DEF FastWaited, Waited, LeaveWait
<1>8. CASE Disturb
  BY <1>8 DEF Disturb, DialFails, RegisterFails, HeartbeatFails,
              HeartbeatReconnect, CallFails, Handoff, Return
<1>9. CASE ReconnectArrives \/ Signal \/ Stop
  BY <1>9 DEF ReconnectArrives, Signal, Stop
<1>10. CASE UNCHANGED vars BY <1>10 DEF vars
<1> QED
  BY <1>1, <1>2, <1>3, <1>4, <1>5, <1>6, <1>7, <1>8, <1>9, <1>10
  DEF Next, Advance

LEMMA TypeStep == TypeOK /\ [Next]_vars => TypeOK'
BY PlacesStep, FlagsStep, NumbersStep DEF TypeOK

(* The loop's variables keep their types. *)
THEOREM SessionTypes == Spec => []TypeOK
<1>1. Init => TypeOK BY TypeInit
<1>2. TypeOK /\ [Next]_vars => TypeOK' BY TypeStep
<1> QED BY <1>1, <1>2, PTL DEF Spec

LEMMA EarnedStep ==
  TypeOK /\ HandoffsEarned /\ [Next]_vars => HandoffsEarned'
<1> SUFFICES ASSUME TypeOK, HandoffsEarned, [Next]_vars PROVE HandoffsEarned'
  OBVIOUS
<1> USE DEF TypeOK, Numbers, HandoffsEarned, loopVars, signalVars, handoffVars, connVars
<1>1. CASE Advance
  BY <1>1 DEF Advance, Top, Dial, Register, Bootstrap, TakeSignal, LeaveLoop,
       RunReturned, FastSucceeded, FastFailed, FastWaited, Waited, LeaveWait,
       Handoff, Return
<1>2. CASE Disturb
  BY <1>2 DEF Disturb, DialFails, RegisterFails, HeartbeatFails,
              HeartbeatReconnect, CallFails, Handoff, Return
<1>3. CASE ReconnectArrives BY <1>3 DEF ReconnectArrives
<1>4. CASE Signal BY <1>4 DEF Signal
<1>5. CASE Stop BY <1>5 DEF Stop
<1>6. CASE UNCHANGED vars BY <1>6 DEF vars
<1> QED BY <1>1, <1>2, <1>3, <1>4, <1>5, <1>6 DEF Next

(* However heartbeats, RECONNECT commands and a signal left in the channel *)
(* interleave, the agent gives up at most one session per request.         *)
THEOREM HandoffsAlwaysEarned == Spec => []HandoffsEarned
<1>1. Init => TypeOK /\ HandoffsEarned
  BY TypeInit DEF Init, HandoffsEarned
<1>2. TypeOK /\ HandoffsEarned /\ [Next]_vars => (TypeOK /\ HandoffsEarned)'
  BY TypeStep, EarnedStep
<1> QED BY <1>1, <1>2, PTL DEF Spec

LEMMA PacedStep == TypeOK /\ Paced /\ [Next]_vars => Paced'
<1> SUFFICES ASSUME TypeOK, Paced, [Next]_vars PROVE Paced'
  OBVIOUS
<1> USE DEF TypeOK, Numbers, Steps, Paced, loopVars, signalVars, handoffVars, connVars
<1>1. CASE Advance
  <2>1. CASE Top BY <2>1 DEF Top
  <2>2. CASE Dial BY <2>2 DEF Dial
  <2>3. CASE Register \/ Bootstrap BY <2>3 DEF Register, Bootstrap
  <2>4. CASE TakeSignal \/ LeaveLoop
    BY <2>4 DEF TakeSignal, LeaveLoop, Handoff, Return
  <2>5. CASE RunReturned BY <2>5 DEF RunReturned, CloseConn
  <2>6. CASE FastSucceeded BY <2>6 DEF FastSucceeded
  <2>7. CASE FastFailed BY <2>7 DEF FastFailed, CloseConn
  <2>8. CASE FastWaited \/ Waited \/ LeaveWait
    BY <2>8 DEF FastWaited, Waited, LeaveWait
  <2> QED BY <1>1, <2>1, <2>2, <2>3, <2>4, <2>5, <2>6, <2>7, <2>8 DEF Advance
<1>2. CASE Disturb
  BY <1>2 DEF Disturb, DialFails, RegisterFails, HeartbeatFails,
       HeartbeatReconnect, InSession, CallFails, Handoff, Return
<1>3. CASE ReconnectArrives BY <1>3 DEF ReconnectArrives
<1>4. CASE Signal BY <1>4 DEF Signal
<1>5. CASE Stop BY <1>5 DEF Stop
<1>6. CASE UNCHANGED vars BY <1>6 DEF vars
<1> QED BY <1>1, <1>2, <1>3, <1>4, <1>5, <1>6 DEF Next

(* The loop never dials three times without a wait, whatever the control   *)
(* plane answers.                                                          *)
THEOREM DialsAlwaysPaced == Spec => []DialsPaced
<1>1. Init => TypeOK /\ Paced
  BY TypeInit DEF Init, Paced, Steps
<1>2. TypeOK /\ Paced /\ [Next]_vars => (TypeOK /\ Paced)'
  BY TypeStep, PacedStep
<1>3. Paced => DialsPaced BY DEF Paced, DialsPaced
<1> QED BY <1>1, <1>2, <1>3, PTL DEF Spec

LEMMA RememberedStep == TypeOK /\ Remembered /\ [Next]_vars => Remembered'
<1> SUFFICES ASSUME TypeOK, Remembered, [Next]_vars PROVE Remembered'
  OBVIOUS
<1> USE AgentSessionAssumption DEF TypeOK, Numbers, Places, Steps, Remembered, loopVars,
        signalVars, handoffVars, connVars
<1>1. CASE Advance
  <2>1. CASE Top BY <2>1 DEF Top
  <2>2. CASE Dial BY <2>2 DEF Dial
  <2>3. CASE Register \/ Bootstrap BY <2>3 DEF Register, Bootstrap
  <2>4. CASE TakeSignal \/ LeaveLoop
    BY <2>4 DEF TakeSignal, LeaveLoop, Handoff, Return
  <2>5. CASE RunReturned BY <2>5 DEF RunReturned, CloseConn
  <2>6. CASE FastSucceeded BY <2>6 DEF FastSucceeded
  <2>7. CASE FastFailed BY <2>7 DEF FastFailed, CloseConn
  <2>8. CASE FastWaited \/ Waited \/ LeaveWait
    BY <2>8 DEF FastWaited, Waited, LeaveWait
  <2> QED BY <1>1, <2>1, <2>2, <2>3, <2>4, <2>5, <2>6, <2>7, <2>8 DEF Advance
<1>2. CASE Disturb
  BY <1>2 DEF Disturb, DialFails, RegisterFails, HeartbeatFails,
       HeartbeatReconnect, InSession, CallFails, Handoff, Return
<1>3. CASE ReconnectArrives BY <1>3 DEF ReconnectArrives
<1>4. CASE Signal BY <1>4 DEF Signal
<1>5. CASE Stop BY <1>5 DEF Stop
<1>6. CASE UNCHANGED vars BY <1>6 DEF vars
<1> QED BY <1>1, <1>2, <1>3, <1>4, <1>5, <1>6 DEF Next

(* A reconnect request is never answered with the slow backoff before the  *)
(* agent registered again or used up its fast attempts.                    *)
THEOREM FastAlwaysBeforeSlow == Spec => []FastBeforeSlow
<1>1. Init => TypeOK /\ Remembered
  BY TypeInit, AgentSessionAssumption DEF Init, Remembered
<1>2. TypeOK /\ Remembered /\ [Next]_vars => (TypeOK /\ Remembered)'
  BY TypeStep, RememberedStep
<1>3. TypeOK /\ Remembered => FastBeforeSlow
  BY DEF TypeOK, Numbers, Places, Remembered, FastBeforeSlow
<1> QED BY <1>1, <1>2, <1>3, PTL DEF Spec
(* What each place of the loop knows of the connections: those the agent   *)
(* has lost sight of are paid for by handoffs, with one to spare whenever  *)
(* the next dial will overwrite a connection that was not closed.          *)
Spare == conn /\ ~stopped => open <= handoffs
Counted ==
  /\ ConnectionsBounded
  /\ pc = "top" => Spare
  /\ pc = "returned" /\ mode = "fast" /\ ~failed => Spare
  /\ pc = "dial" => (conn => open <= handoffs)
  /\ pc \in {"fastwait", "wait"} => ~conn

LEMMA CountedStep == TypeOK /\ Counted /\ [Next]_vars => Counted'
<1> SUFFICES ASSUME TypeOK, Counted, [Next]_vars PROVE Counted'
  OBVIOUS
<1> USE DEF TypeOK, Numbers, Steps, Counted, Spare, ConnectionsBounded, loopVars,
        signalVars, handoffVars, connVars
<1>1. CASE Advance
  <2>1. CASE Top BY <2>1 DEF Top
  <2>2. CASE Dial BY <2>2 DEF Dial
  <2>3. CASE Register \/ Bootstrap BY <2>3 DEF Register, Bootstrap
  <2>4. CASE TakeSignal \/ LeaveLoop
    BY <2>4 DEF TakeSignal, LeaveLoop, Handoff, Return
  <2>5. CASE RunReturned BY <2>5 DEF RunReturned, CloseConn
  <2>6. CASE FastSucceeded BY <2>6 DEF FastSucceeded
  <2>7. CASE FastFailed BY <2>7 DEF FastFailed, CloseConn
  <2>8. CASE FastWaited \/ Waited \/ LeaveWait
    BY <2>8 DEF FastWaited, Waited, LeaveWait
  <2> QED BY <1>1, <2>1, <2>2, <2>3, <2>4, <2>5, <2>6, <2>7, <2>8 DEF Advance
<1>2. CASE Disturb
  BY <1>2 DEF Disturb, DialFails, RegisterFails, HeartbeatFails,
       HeartbeatReconnect, InSession, CallFails, Handoff, Return
<1>3. CASE ReconnectArrives BY <1>3 DEF ReconnectArrives
<1>4. CASE Signal BY <1>4 DEF Signal
<1>5. CASE Stop BY <1>5 DEF Stop
<1>6. CASE UNCHANGED vars BY <1>6 DEF vars
<1> QED BY <1>1, <1>2, <1>3, <1>4, <1>5, <1>6 DEF Next

(* Connections that were overwritten without being closed never outnumber  *)
(* the handoffs, for any failures, requests and number of fast tries.      *)
THEOREM ConnectionsAlwaysBounded == Spec => []ConnectionsBounded
<1>1. Init => TypeOK /\ Counted
  BY TypeInit DEF Init, Counted, Spare, ConnectionsBounded
<1>2. TypeOK /\ Counted /\ [Next]_vars => (TypeOK /\ Counted)'
  BY TypeStep, CountedStep
<1>3. Counted => ConnectionsBounded BY DEF Counted
<1> QED BY <1>1, <1>2, <1>3, PTL DEF Spec

(* The session loop is safe, for all values of the constants. *)
THEOREM SessionAlwaysSafe == Spec => []SessionSafe
<1>1. TypeOK /\ HandoffsEarned /\ DialsPaced /\ FastBeforeSlow /\ ConnectionsBounded => SessionSafe
  BY DEF SessionSafe
<1> QED
  BY <1>1, SessionTypes, HandoffsAlwaysEarned, DialsAlwaysPaced, FastAlwaysBeforeSlow,
     ConnectionsAlwaysBounded, PTL

-----------------------------------------------------------------------------
(* LogFollower *)

(* The scan only ever is about to add a container that is not followed,    *)
(* and a child has written all that its container logged before it exits.  *)
AddsNew == adding # Nothing => adding \notin followed
Pairs ==
  \A c \in Containers :
    /\ scanner[c] \in {"reading", "gone", "gaveup"} => child[c] # "none"
    /\ child[c] = "exited" => backlog[c] = <<>>

FollowerInv == AddsNew /\ Pairs /\ FollowedOnce

LEMMA FollowerInvInit == LFInit => FollowerInv
BY LogFollowerAssumption DEF LFInit, LFTypeOK, FollowerInv, AddsNew, Pairs, FollowedOnce

LEMMA FollowerInvNext == FollowerInv /\ [LFNext]_lfVars => FollowerInv'
<1> SUFFICES ASSUME FollowerInv, [LFNext]_lfVars PROVE FollowerInv'
  OBVIOUS
<1> USE DEF FollowerInv, AddsNew, Pairs, FollowedOnce, LFTypeOK, scanVars, readVars, lfBounds
<1> USE LogFollowerAssumption
<1>1. CASE StartScan
  BY <1>1 DEF StartScan
<1>2. ASSUME NEW c \in Containers, StartContainer(c) \/ StopContainer(c) PROVE FollowerInv'
  <2>1. CASE StartContainer(c)
    BY <2>1 DEF StartContainer
  <2>2. CASE StopContainer(c)
    BY <2>2 DEF StopContainer
  <2> QED BY <1>2, <2>1, <2>2
<1>3. ASSUME NEW c \in Containers, Log(c) PROVE FollowerInv'
  BY <1>3 DEF Log
<1>4. ASSUME NEW c \in Containers, ChildWrites(c) PROVE FollowerInv'
  BY <1>4 DEF ChildWrites
<1>5. ASSUME NEW c \in Containers, ChildExits(c) PROVE FollowerInv'
  BY <1>5 DEF ChildExits
<1>6. ASSUME NEW c \in Containers, Check(c) PROVE FollowerInv'
  BY <1>6 DEF Check
<1>7. ASSUME NEW c \in Containers, Follow(c) PROVE FollowerInv'
  BY <1>7 DEF Follow
<1>8. ASSUME NEW c \in Containers, StartChild(c) PROVE FollowerInv'
  BY <1>8 DEF StartChild
<1>9. ASSUME NEW c \in Containers, StartFails(c) PROVE FollowerInv'
  BY <1>9 DEF StartFails
<1>10. ASSUME NEW c \in Containers, ReadLine(c) PROVE FollowerInv'
  BY <1>10 DEF ReadLine
<1>11. ASSUME NEW c \in Containers, ReadEOF(c) PROVE FollowerInv'
  BY <1>11 DEF ReadEOF
<1>12. ASSUME NEW c \in Containers, Wait(c) PROVE FollowerInv'
  BY <1>12 DEF Wait
<1>13. ASSUME NEW c \in Containers, Unfollow(c) PROVE FollowerInv'
  <2>1. LFTypeOK'
    <3>1. followers[c] = 1
      BY <1>13 DEF Unfollow
    <3> QED BY <1>13, <3>1 DEF Unfollow
  <2>2. AddsNew' /\ Pairs'
    BY <1>13 DEF Unfollow
  <2>3. FollowedOnce'
    BY <1>13, <2>1 DEF Unfollow
  <2> QED BY <2>1, <2>2, <2>3
<1>14. CASE UNCHANGED lfVars
  BY <1>14 DEF lfVars
<1> QED
  BY <1>1, <1>2, <1>3, <1>4, <1>5, <1>6, <1>7, <1>8, <1>9, <1>10, <1>11, <1>12, <1>13, <1>14
  DEF LFNext, Scan, Goroutine

(* For any containers, scans, stops and failing starts, a container has    *)
(* one follower exactly while it is in the followed set, and no child of a *)
(* follower outlives it: no line of a container is shipped twice.          *)
THEOREM AlwaysFollowedOnce == LFSpec => []FollowedOnce
<1>1. FollowerInv => FollowedOnce
  BY DEF FollowerInv
<1> QED BY <1>1, FollowerInvInit, FollowerInvNext, PTL DEF LFSpec

-----------------------------------------------------------------------------
(* LogShipper: where a line is *)

Distinct(buf) == \A i, j \in 1..Len(buf) : buf[i] = buf[j] => i = j
Below(A, B) == \A a \in A, b \in B : a < b

InHold(s) == {hold[s]} \ {0}
InFlight(s) == Held(flight[s])
Gone == evicted \cup lost

(* A line is in one place only. *)
Apart ==
  /\ Distinct(ring) /\ Distinct(received)
  /\ Held(ring) \cap Held(received) = {} /\ Held(ring) \cap Gone = {}
  /\ Held(received) \cap Gone = {}
  /\ \A s \in Sessions :
       /\ Distinct(flight[s])
       /\ InHold(s) \cap InFlight(s) = {}
       /\ (InHold(s) \cup InFlight(s)) \cap (Held(ring) \cup Held(received) \cup Gone) = {}
  /\ \A s, t \in Sessions :
       s # t => (InHold(s) \cup InFlight(s)) \cap (InHold(t) \cup InFlight(t)) = {}

(* No line is nowhere. *)
Together ==
  1..collected = Held(ring) \cup Held(received) \cup Gone
                   \cup UNION {InHold(s) \cup InFlight(s) : s \in Sessions}

(* A sender holds a line between the pop and the Send, and nothing before  *)
(* its session.                                                            *)
Holding ==
  \A s \in Sessions :
    /\ hold[s] # 0 <=> step[s] = "send"
    /\ s > session => step[s] = "none" /\ stream[s] = "none" /\ flight[s] = <<>>

(* One session: what was received is older than what is on the wire, that  *)
(* is older than what is held, and that is older than what is queued.      *)
Sorted ==
  session <= 1 =>
    /\ Ascending(ring) /\ Ascending(received)
    /\ Below(Held(received), Held(ring))
    /\ \A s \in Sessions :
         /\ Ascending(flight[s])
         /\ Below(Held(received), InHold(s) \cup InFlight(s))
         /\ Below(InHold(s) \cup InFlight(s), Held(ring))
         /\ Below(InFlight(s), InHold(s))

ShipperInv == LSTypeOK /\ Together /\ Apart /\ Holding /\ Sorted

(* What the operations of a sequence make of what it holds. *)
LEMMA HeldNothing == Held(<<>>) = {} /\ Distinct(<<>>) /\ Ascending(<<>>)
BY DEF Held, Distinct, Ascending

LEMMA AppendHeld ==
  ASSUME NEW S, NEW b \in Seq(S), NEW x \in S, Distinct(b), x \notin Held(b)
  PROVE  /\ Append(b, x) \in Seq(S) /\ Len(Append(b, x)) = Len(b) + 1
         /\ Held(Append(b, x)) = Held(b) \cup {x}
         /\ Distinct(Append(b, x))
<1> DEFINE c == Append(b, x)
<1>1. /\ c \in Seq(S) /\ Len(c) = Len(b) + 1 /\ c[Len(b) + 1] = x /\ Len(b) \in Nat
      /\ \A i \in 1..Len(b) : c[i] = b[i]
  OBVIOUS
<1> HIDE DEF c
<1>2. \A i \in 1..Len(b) : b[i] # x
  BY DEF Held
<1>3. Held(c) = Held(b) \cup {x}
  BY <1>1 DEF Held
<1>4. Distinct(c)
  BY <1>1, <1>2 DEF Distinct
<1> QED BY <1>1, <1>3, <1>4 DEF c

LEMMA TailHeld ==
  ASSUME NEW S, NEW b \in Seq(S), b # <<>>, Distinct(b)
  PROVE  /\ Tail(b) \in Seq(S) /\ Len(Tail(b)) = Len(b) - 1 /\ Head(b) \in S
         /\ Held(Tail(b)) = Held(b) \ {Head(b)} /\ Head(b) \in Held(b) /\ Head(b) = b[1]
         /\ Distinct(Tail(b))
<1> DEFINE c == Tail(b)
<1>1. /\ c \in Seq(S) /\ Len(c) = Len(b) - 1 /\ Len(b) \in Nat \ {0} /\ Head(b) = b[1]
      /\ b[1] \in S /\ \A i \in 1..(Len(b) - 1) : c[i] = b[i + 1]
  OBVIOUS
<1> HIDE DEF c
<1>2. \A i \in 1..Len(b) : i # 1 => b[i] # b[1]
  BY <1>1 DEF Distinct
<1>3. \A i \in 1..Len(b) : i # 1 => i - 1 \in 1..(Len(b) - 1) /\ c[i - 1] = b[i]
  BY <1>1
<1>4. Held(c) = Held(b) \ {b[1]}
  <2>1. ASSUME NEW y \in Held(c) PROVE y \in Held(b) \ {b[1]}
    <3>1. PICK i \in 1..Len(c) : y = c[i]
      BY DEF Held
    <3>2. i + 1 \in 1..Len(b) /\ i + 1 # 1 /\ y = b[i + 1]
      BY <1>1, <3>1
    <3> QED BY <1>2, <3>2 DEF Held
  <2>2. ASSUME NEW y \in Held(b) \ {b[1]} PROVE y \in Held(c)
    <3>1. PICK i \in 1..Len(b) : y = b[i]
      BY DEF Held
    <3>2. i - 1 \in 1..Len(c) /\ c[i - 1] = y
      BY <1>1, <1>3, <3>1
    <3> QED BY <3>2 DEF Held
  <2> QED BY <2>1, <2>2
<1>5. Distinct(c)
  <2> SUFFICES ASSUME NEW i \in 1..Len(c), NEW j \in 1..Len(c), c[i] = c[j] PROVE i = j
    BY DEF Distinct
  <2>1. /\ i + 1 \in 1..Len(b) /\ j + 1 \in 1..Len(b) /\ b[i + 1] = b[j + 1]
    BY <1>1
  <2>2. i + 1 = j + 1
    BY <2>1 DEF Distinct
  <2> QED BY <1>1, <2>2
<1>6. b[1] \in Held(b)
  BY <1>1 DEF Held
<1> QED BY <1>1, <1>4, <1>5, <1>6 DEF c

LEMMA FrontHeld ==
  ASSUME NEW S, NEW b \in Seq(S), b # <<>>, Distinct(b)
  PROVE  /\ Front(b) \in Seq(S) /\ Len(Front(b)) = Len(b) - 1
         /\ Held(Front(b)) = Held(b) \ {b[Len(b)]} /\ b[Len(b)] \in Held(b)
         /\ Distinct(Front(b))
<1> DEFINE c == Front(b)
<1>1. /\ c \in Seq(S) /\ Len(c) = Len(b) - 1 /\ Len(b) \in Nat \ {0}
      /\ \A i \in 1..(Len(b) - 1) : c[i] = b[i]
  BY DEF Front
<1> HIDE DEF c
<1>2. \A i \in 1..Len(b) : i # Len(b) => b[i] # b[Len(b)]
  BY <1>1 DEF Distinct
<1>3. Held(c) = Held(b) \ {b[Len(b)]}
  BY <1>1, <1>2 DEF Held
<1>4. Distinct(c)
  BY <1>1 DEF Distinct
<1>5. b[Len(b)] \in Held(b)
  BY <1>1 DEF Held
<1> QED BY <1>1, <1>3, <1>4, <1>5 DEF c

LEMMA ConsHeld ==
  ASSUME NEW S, NEW b \in Seq(S), NEW x \in S, Distinct(b), x \notin Held(b)
  PROVE  /\ <<x>> \o b \in Seq(S) /\ Len(<<x>> \o b) = Len(b) + 1
         /\ Held(<<x>> \o b) = Held(b) \cup {x}
         /\ Distinct(<<x>> \o b)
<1> DEFINE c == <<x>> \o b
<1>1. /\ c \in Seq(S) /\ Len(c) = Len(b) + 1 /\ Len(b) \in Nat /\ c[1] = x
      /\ \A i \in 2..(Len(b) + 1) : c[i] = b[i - 1]
  OBVIOUS
<1> HIDE DEF c
<1>2. \A i \in 1..Len(b) : b[i] # x
  BY DEF Held
<1>3. Held(c) = Held(b) \cup {x}
  <2>1. ASSUME NEW y \in Held(c) PROVE y \in Held(b) \cup {x}
    <3>1. PICK i \in 1..Len(c) : y = c[i]
      BY DEF Held
    <3>2. i = 1 \/ (i - 1 \in 1..Len(b) /\ y = b[i - 1])
      BY <1>1, <3>1
    <3> QED BY <1>1, <3>1, <3>2 DEF Held
  <2>2. ASSUME NEW y \in Held(b) PROVE y \in Held(c)
    <3>1. PICK i \in 1..Len(b) : y = b[i]
      BY DEF Held
    <3>2. i + 1 \in 1..Len(c) /\ c[i + 1] = y
      BY <1>1, <3>1
    <3> QED BY <3>2 DEF Held
  <2>3. x \in Held(c)
    BY <1>1 DEF Held
  <2> QED BY <2>1, <2>2, <2>3
<1>4. Distinct(c)
  <2> SUFFICES ASSUME NEW i \in 1..Len(c), NEW j \in 1..Len(c), c[i] = c[j] PROVE i = j
    BY DEF Distinct
  <2>1. i = 1 \/ (i - 1 \in 1..Len(b) /\ c[i] = b[i - 1])
    BY <1>1
  <2>2. j = 1 \/ (j - 1 \in 1..Len(b) /\ c[j] = b[j - 1])
    BY <1>1
  <2>3. i - 1 \in 1..Len(b) /\ j - 1 \in 1..Len(b) /\ b[i - 1] = b[j - 1] => i - 1 = j - 1
    BY DEF Distinct
  <2> QED BY <1>1, <1>2, <2>1, <2>2, <2>3
<1> QED BY <1>1, <1>3, <1>4 DEF c

LEMMA Sorting ==
  ASSUME NEW S, S \subseteq Nat, NEW b \in Seq(S), Ascending(b), NEW x \in S
  PROVE  /\ b # <<>> => Ascending(Tail(b)) /\ Below({Head(b)}, Held(Tail(b))) /\ Ascending(Front(b))
         /\ Below(Held(b), {x}) => Ascending(Append(b, x))
         /\ Below({x}, Held(b)) => Ascending(<<x>> \o b)
<1>1. ASSUME b # <<>>
      PROVE  Ascending(Tail(b)) /\ Below({Head(b)}, Held(Tail(b))) /\ Ascending(Front(b))
  <2>1. /\ Len(b) \in Nat \ {0} /\ Head(b) = b[1]
        /\ Len(Tail(b)) = Len(b) - 1 /\ \A i \in 1..(Len(b) - 1) : Tail(b)[i] = b[i + 1]
    BY <1>1
  <2>2. Len(Front(b)) = Len(b) - 1 /\ \A i \in 1..(Len(b) - 1) : Front(b)[i] = b[i]
    BY <1>1, <2>1 DEF Front
  <2>3. Ascending(Front(b))
    BY <2>1, <2>2 DEF Ascending
  <2>4. Ascending(Tail(b))
    <3> SUFFICES ASSUME NEW i \in 1..(Len(b) - 1), NEW j \in 1..(Len(b) - 1), i < j
                 PROVE  Tail(b)[i] < Tail(b)[j]
      BY <2>1 DEF Ascending
    <3>1. i + 1 \in 1..Len(b) /\ j + 1 \in 1..Len(b) /\ i + 1 < j + 1
      BY <2>1
    <3> QED BY <2>1, <3>1 DEF Ascending
  <2>5. Below({Head(b)}, Held(Tail(b)))
    <3> SUFFICES ASSUME NEW i \in 1..(Len(b) - 1) PROVE b[1] < Tail(b)[i]
      BY <2>1 DEF Below, Held
    <3>1. 1 \in 1..Len(b) /\ i + 1 \in 1..Len(b) /\ 1 < i + 1
      BY <2>1
    <3> QED BY <2>1, <3>1 DEF Ascending
  <2> QED BY <2>3, <2>4, <2>5
<1>2. ASSUME Below(Held(b), {x}) PROVE Ascending(Append(b, x))
  <2>1. /\ Len(b) \in Nat /\ Len(Append(b, x)) = Len(b) + 1 /\ Append(b, x)[Len(b) + 1] = x
        /\ \A i \in 1..Len(b) : Append(b, x)[i] = b[i]
    OBVIOUS
  <2>2. \A i \in 1..Len(b) : b[i] < x
    BY <1>2 DEF Below, Held
  <2> QED BY <2>1, <2>2 DEF Ascending
<1>3. ASSUME Below({x}, Held(b)) PROVE Ascending(<<x>> \o b)
  <2> DEFINE c == <<x>> \o b
  <2>1. /\ Len(b) \in Nat /\ Len(c) = Len(b) + 1 /\ c[1] = x
        /\ \A i \in 2..(Len(b) + 1) : c[i] = b[i - 1]
    OBVIOUS
  <2> HIDE DEF c
  <2>2. \A i \in 1..Len(b) : x < b[i]
    BY <1>3 DEF Below, Held
  <2>3. ASSUME NEW i \in 1..Len(c), NEW j \in 1..Len(c), i < j PROVE c[i] < c[j]
    <3>1. j \in 2..(Len(b) + 1) /\ j - 1 \in 1..Len(b) /\ c[j] = b[j - 1]
      BY <2>1, <2>3
    <3>2. CASE i = 1
      BY <2>1, <2>2, <3>1, <3>2
    <3>3. CASE i # 1
      <4>1. i \in 2..(Len(b) + 1) /\ i - 1 \in 1..Len(b) /\ c[i] = b[i - 1] /\ i - 1 < j - 1
        BY <2>1, <2>3, <3>3
      <4> QED BY <3>1, <4>1 DEF Ascending
    <3> QED BY <3>2, <3>3
  <2> QED BY <2>3 DEF Ascending, c
<1> QED BY <1>1, <1>2, <1>3

(* push forgets the oldest line of a full ring, pushFront the newest.      *)
LEMMA PushHeld ==
  ASSUME NEW b \in Seq(Lines), NEW l \in Lines, Distinct(b), l \notin Held(b), Len(b) <= Cap
  PROVE  /\ Push(b, l) \in Seq(Lines) /\ Len(Push(b, l)) <= Cap
         /\ Held(Push(b, l)) = (Held(b) \ PushEvicts(b)) \cup {l}
         /\ PushEvicts(b) \subseteq Held(b) /\ Distinct(Push(b, l))
         /\ Ascending(b) /\ Below(Held(b), {l}) => Ascending(Push(b, l))
<1> DEFINE c == IF Full(b) THEN Tail(b) ELSE b
<1>1. Len(b) \in Nat /\ (Full(b) => b # <<>>) /\ Lines \subseteq Nat
  BY LogRingAssumption, LogShipperAssumption DEF Full, Lines
<1>2. /\ c \in Seq(Lines) /\ Len(c) < Cap /\ Distinct(c)
      /\ Held(c) = Held(b) \ PushEvicts(b) /\ PushEvicts(b) \subseteq Held(b)
  <2>1. CASE Full(b)
    BY <1>1, <2>1, TailHeld, LogRingAssumption DEF PushEvicts
  <2>2. CASE ~Full(b)
    BY <1>1, <2>2, LogRingAssumption DEF PushEvicts, Full
  <2> QED BY <2>1, <2>2
<1>3. Ascending(b) => Ascending(c)
  <2>1. Full(b) /\ Ascending(b) => Ascending(Tail(b))
    BY <1>1, Sorting
  <2> QED BY <2>1
<1>4. Push(b, l) = Append(c, l)
  BY DEF Push
<1> HIDE DEF c
<1>5. l \notin Held(c)
  BY <1>2
<1>6. /\ Append(c, l) \in Seq(Lines) /\ Len(Append(c, l)) = Len(c) + 1
      /\ Held(Append(c, l)) = Held(c) \cup {l} /\ Distinct(Append(c, l))
  BY <1>2, <1>5, AppendHeld
<1>7. Len(c) + 1 <= Cap
  <2>1. Len(c) \in Nat
    BY <1>2
  <2> QED BY <1>2, <2>1, LogRingAssumption
<1>8. ASSUME Ascending(b), Below(Held(b), {l}) PROVE Ascending(Append(c, l))
  <2>1. Below(Held(c), {l})
    BY <1>2, <1>8 DEF Below
  <2> QED BY <1>1, <1>2, <1>3, <1>8, <2>1, Sorting
<1> QED BY <1>2, <1>4, <1>6, <1>7, <1>8

LEMMA PushFrontHeld ==
  ASSUME NEW b \in Seq(Lines), NEW l \in Lines, Distinct(b), l \notin Held(b), Len(b) <= Cap
  PROVE  /\ PushFront(b, l) \in Seq(Lines) /\ Len(PushFront(b, l)) <= Cap
         /\ Held(PushFront(b, l)) = (Held(b) \ PushFrontEvicts(b)) \cup {l}
         /\ PushFrontEvicts(b) \subseteq Held(b) /\ Distinct(PushFront(b, l))
         /\ Ascending(b) /\ Below({l}, Held(b)) => Ascending(PushFront(b, l))
<1> DEFINE c == IF Full(b) THEN Front(b) ELSE b
<1>1. Len(b) \in Nat /\ (Full(b) => b # <<>>) /\ Lines \subseteq Nat
  BY LogRingAssumption, LogShipperAssumption DEF Full, Lines
<1>2. /\ c \in Seq(Lines) /\ Len(c) < Cap /\ Distinct(c)
      /\ Held(c) = Held(b) \ PushFrontEvicts(b) /\ PushFrontEvicts(b) \subseteq Held(b)
  <2>1. CASE Full(b)
    BY <1>1, <2>1, FrontHeld, LogRingAssumption DEF PushFrontEvicts
  <2>2. CASE ~Full(b)
    BY <1>1, <2>2, LogRingAssumption DEF PushFrontEvicts, Full
  <2> QED BY <2>1, <2>2
<1>3. Ascending(b) => Ascending(c)
  <2>1. Full(b) /\ Ascending(b) => Ascending(Front(b))
    BY <1>1, Sorting
  <2> QED BY <2>1
<1>4. PushFront(b, l) = <<l>> \o c
  BY DEF PushFront
<1> HIDE DEF c
<1>5. l \notin Held(c)
  BY <1>2
<1>6. /\ <<l>> \o c \in Seq(Lines) /\ Len(<<l>> \o c) = Len(c) + 1
      /\ Held(<<l>> \o c) = Held(c) \cup {l} /\ Distinct(<<l>> \o c)
  BY <1>2, <1>5, ConsHeld
<1>7. Len(c) + 1 <= Cap
  <2>1. Len(c) \in Nat
    BY <1>2
  <2> QED BY <1>2, <2>1, LogRingAssumption
<1>8. ASSUME Ascending(b), Below({l}, Held(b)) PROVE Ascending(<<l>> \o c)
  <2>1. Below({l}, Held(c))
    BY <1>2, <1>8 DEF Below
  <2> QED BY <1>1, <1>2, <1>3, <1>8, <2>1, Sorting
<1> QED BY <1>2, <1>4, <1>6, <1>7, <1>8

LEMMA ShipperInvInit == LSInit => ShipperInv
<1> SUFFICES ASSUME LSInit PROVE ShipperInv
  OBVIOUS
<1> USE LogRingAssumption, LogShipperAssumption DEF LSInit
<1>1. \A s \in Sessions : InHold(s) = {} /\ InFlight(s) = {}
  BY HeldNothing DEF InHold, InFlight
<1>2. LSTypeOK
  BY DEF LSTypeOK
<1>3. Together
  BY <1>1, HeldNothing DEF Together, Gone
<1>4. Apart
  BY <1>1, HeldNothing DEF Apart, Gone
<1>5. Holding
  BY DEF Holding
<1>6. Sorted
  BY <1>1, HeldNothing DEF Sorted, Below
<1> QED BY <1>2, <1>3, <1>4, <1>5, <1>6 DEF ShipperInv

LEMMA OnlyOne ==
  ASSUME LSTypeOK, Holding, session <= 1, NEW s \in Sessions, NEW t \in Sessions, s # t,
         s <= session
  PROVE  InHold(t) = {} /\ InFlight(t) = {}
<1>1. t > session
  BY LogShipperAssumption DEF Sessions, LSTypeOK
<1>2. hold[t] = 0 /\ flight[t] = <<>>
  BY <1>1 DEF Holding
<1> QED BY <1>2, HeldNothing DEF InHold, InFlight

(* A step that moves no line. *)
LEMMA MovesNothing ==
  ASSUME ShipperInv, LSTypeOK', Holding', session' <= 1 => session <= 1,
         UNCHANGED <<ring, collected, hold, flight, received, evicted, lost>>
  PROVE  ShipperInv'
<1>1. Together' /\ Apart' /\ Sorted'
  BY DEF ShipperInv, Together, Apart, Sorted, InHold, InFlight, Gone
<1> QED BY <1>1 DEF ShipperInv

LEMMA PlaceHolding ==
  ASSUME LSTypeOK, Holding, NEW s \in Sessions, ~(s > session), step[s] # "send",
         NEW p, p # "send", step' = [step EXCEPT ![s] = p],
         UNCHANGED <<hold, flight, session>>,
         \A t \in Sessions : t # s => stream'[t] = stream[t]
  PROVE  Holding'
<1>1. ASSUME NEW t \in Sessions
      PROVE  /\ hold'[t] # 0 <=> step'[t] = "send"
             /\ t > session' => step'[t] = "none" /\ stream'[t] = "none" /\ flight'[t] = <<>>
  <2>1. CASE t = s
    BY <2>1 DEF LSTypeOK, Holding
  <2>2. CASE t # s
    BY <2>2 DEF LSTypeOK, Holding
  <2> QED BY <2>1, <2>2
<1> QED BY <1>1 DEF Holding

LEMMA QuietStep ==
  ASSUME ShipperInv, NEW s \in Sessions,
         Open(s) \/ OpenFails(s) \/ Notice(s) \/ Backoff(s) \/ StartSession \/ UNCHANGED lsVars
  PROVE  ShipperInv'
<1> USE LogShipperAssumption DEF ringVars, netVars, sessionVars, StepTo
<1>1. LSTypeOK /\ Holding
  BY DEF ShipperInv
<1>2. UNCHANGED <<ring, collected, hold, flight, received, evicted, lost>>
  BY DEF Open, OpenFails, Notice, Backoff, StartSession, lsVars
<1>3. LSTypeOK' /\ Holding' /\ (session' <= 1 => session <= 1)
  <2>1. CASE Open(s) \/ OpenFails(s) \/ Backoff(s)
    <3>1. step[s] \in {"open", "backoff"}
      BY <2>1 DEF Open, OpenFails, Backoff
    <3>2. ~(s > session)
      BY <1>1, <3>1 DEF Holding
    <3>3. PICK p \in {"open", "select", "backoff", "done"} : step' = [step EXCEPT ![s] = p]
      BY <2>1 DEF Open, OpenFails, Backoff
    <3>4. /\ UNCHANGED <<session, cancelled>> /\ (breaks' = breaks \/ breaks' \in 0..MaxBreaks)
          /\ stream' = stream \/ stream' = [stream EXCEPT ![s] = "up"]
      BY <1>1, <2>1 DEF Open, OpenFails, Backoff, LSTypeOK
    <3>5. \A t \in Sessions : t # s => stream'[t] = stream[t]
      BY <1>1, <3>4 DEF LSTypeOK
    <3>6. Holding'
      BY <1>1, <1>2, <3>1, <3>2, <3>3, <3>4, <3>5, PlaceHolding
    <3>7. LSTypeOK'
      BY <1>1, <1>2, <3>3, <3>4 DEF LSTypeOK
    <3> QED BY <3>4, <3>6, <3>7
  <2>2. CASE Notice(s)
    BY <1>1, <2>2 DEF LSTypeOK, Holding, Notice
  <2>3. CASE StartSession
    <3>1. session \in Nat /\ session' = session + 1 /\ session + 1 \in Sessions
      BY <1>1, <2>3 DEF LSTypeOK, StartSession, Sessions
    <3>2. step[session + 1] = "none"
      BY <1>1, <3>1 DEF Holding
    <3>3. step' = [step EXCEPT ![session + 1] = "open"] /\ UNCHANGED <<hold, flight, stream>>
      BY <2>3 DEF StartSession
    <3>4. Holding'
      <4>1. ASSUME NEW t \in Sessions
            PROVE  /\ hold'[t] # 0 <=> step'[t] = "send"
                   /\ t > session' => step'[t] = "none" /\ stream'[t] = "none" /\ flight'[t] = <<>>
        <5>1. CASE t = session + 1
          <6>1. ~(t > session') /\ step'[t] = "open" /\ hold[t] = 0
            BY <1>1, <3>1, <3>2, <3>3, <5>1 DEF LSTypeOK, Holding
          <6> QED BY <3>3, <6>1
        <5>2. CASE t # session + 1
          <6>1. step'[t] = step[t] /\ (t > session' => t > session)
            BY <1>1, <3>1, <3>3, <5>2 DEF LSTypeOK, Sessions
          <6> QED BY <1>1, <3>3, <6>1 DEF Holding
        <5> QED BY <5>1, <5>2
      <4> QED BY <4>1 DEF Holding
    <3>5. LSTypeOK'
      BY <1>1, <1>2, <2>3, <3>1, <3>3 DEF LSTypeOK, StartSession, Sessions
    <3> QED BY <3>1, <3>4, <3>5
  <2>4. CASE UNCHANGED lsVars
    BY <1>1, <2>4 DEF LSTypeOK, Holding, lsVars
  <2> QED BY <2>1, <2>2, <2>3, <2>4
<1> QED BY <1>2, <1>3, MovesNothing

(* A new line: the oldest one leaves a full ring. *)
LEMMA CollectStep == ASSUME ShipperInv, CollectLine PROVE ShipperInv'
<1> DEFINE l == collected + 1
<1> USE DEF ShipperInv
<1>1. /\ l \in Lines /\ l \in Nat /\ collected' = l /\ collected \in Nat
      /\ ring' = Push(ring, l) /\ evicted' = evicted \cup PushEvicts(ring)
      /\ UNCHANGED <<session, cancelled, step, hold, stream, flight, received, lost, breaks>>
  BY LogShipperAssumption DEF LSTypeOK, CollectLine, Lines, sessionVars, netVars
<1>2. 1..l = 1..collected \cup {l} /\ l \notin 1..collected
  BY <1>1
<1>3. \A x \in 1..collected : x < l
  BY <1>1
<1> HIDE DEF l
<1>4. /\ l \notin Held(ring) /\ l \notin Held(received) /\ l \notin Gone
      /\ \A s \in Sessions : l \notin InHold(s) \cup InFlight(s)
  BY <1>2 DEF Together
<1>5. ring \in Seq(Lines) /\ Len(ring) <= Cap /\ Distinct(ring)
  BY DEF LSTypeOK, Apart
<1>6. /\ ring' \in Seq(Lines) /\ Len(ring') <= Cap /\ Distinct(ring')
      /\ Held(ring') = (Held(ring) \ PushEvicts(ring)) \cup {l}
      /\ PushEvicts(ring) \subseteq Held(ring)
      /\ Ascending(ring) /\ Below(Held(ring), {l}) => Ascending(ring')
  BY <1>1, <1>4, <1>5, PushHeld
<1>7. /\ Held(received') = Held(received) /\ Distinct(received)' = Distinct(received)
      /\ Gone' = Gone \cup PushEvicts(ring)
      /\ \A s \in Sessions : InHold(s)' = InHold(s) /\ InFlight(s)' = InFlight(s)
  BY <1>1 DEF Gone, InHold, InFlight
<1>8. LSTypeOK'
  <2>1. PushEvicts(ring) \subseteq Lines
    BY <1>5, LogRingAssumption DEF PushEvicts, Full
  <2>2. l \in 0..LastLine
    BY <1>1, LogShipperAssumption DEF Lines
  <2> QED BY <1>1, <1>6, <2>1, <2>2 DEF LSTypeOK
<1>9. Together'
  <2>1. {InHold(s)' \cup InFlight(s)' : s \in Sessions} = {InHold(s) \cup InFlight(s) : s \in Sessions}
    BY <1>7
  <2> DEFINE Others == UNION {InHold(s) \cup InFlight(s) : s \in Sessions}
  <2>2. Others' = Others
    BY <2>1
  <2>3. 1..collected = Held(ring) \cup Held(received) \cup Gone \cup Others
    BY Zenon DEF Together
  <2> HIDE DEF Others
  <2>4. 1..collected' = Held(ring') \cup Held(received') \cup Gone' \cup Others'
    BY <1>1, <1>2, <1>6, <1>7, <2>2, <2>3
  <2> QED BY <2>4 DEF Together, Others
<1>10. Apart'
  <2>1. (\A s \in Sessions : Distinct(flight[s]))'
    BY <1>1 DEF Apart
  <2>2. Distinct(ring') /\ Distinct(received')
    BY <1>1, <1>6 DEF Apart
  <2>3. Held(ring') \cap Held(received') = {} /\ Held(received') \cap Gone' = {}
    BY <1>4, <1>6, <1>7 DEF Apart
  <2>4. Held(ring') \cap Gone' = {}
    BY <1>4, <1>6, <1>7 DEF Apart
  <2>5. ASSUME NEW s \in Sessions
        PROVE  /\ InHold(s)' \cap InFlight(s)' = {}
               /\ (InHold(s)' \cup InFlight(s)') \cap (Held(ring') \cup Held(received') \cup Gone') = {}
    BY <1>4, <1>6, <1>7 DEF Apart
  <2>6. ASSUME NEW s \in Sessions, NEW t \in Sessions, s # t
        PROVE  (InHold(s)' \cup InFlight(s)') \cap (InHold(t)' \cup InFlight(t)') = {}
    BY <1>7, <2>6 DEF Apart
  <2> QED BY <2>1, <2>2, <2>3, <2>4, <2>5, <2>6 DEF Apart
<1>11. Holding'
  BY <1>1 DEF Holding
<1>12. Sorted'
  <2> SUFFICES ASSUME session <= 1 PROVE Sorted'
    BY <1>1 DEF Sorted
  <2>1. Held(ring) \subseteq 1..collected /\ Held(received) \subseteq 1..collected
    BY DEF Together
  <2>2. \A s \in Sessions : InHold(s) \cup InFlight(s) \subseteq 1..collected
    BY Zenon DEF Together
  <2>3. Below(Held(ring), {l}) /\ Below(Held(received), {l})
    BY <1>3, <2>1 DEF Below
  <2>4. \A s \in Sessions : Below(InHold(s) \cup InFlight(s), {l})
    BY <1>3, <2>2 DEF Below
  <2>5. Ascending(ring') /\ Ascending(received')
    BY <1>1, <1>6, <2>3 DEF Sorted
  <2>6. Below(Held(received'), Held(ring'))
    BY <1>6, <1>7, <2>3 DEF Sorted, Below
  <2>7. ASSUME NEW s \in Sessions
        PROVE  /\ Ascending(flight'[s])
               /\ Below(Held(received'), InHold(s)' \cup InFlight(s)')
               /\ Below(InHold(s)' \cup InFlight(s)', Held(ring'))
               /\ Below(InFlight(s)', InHold(s)')
    <3>1. /\ Below(InHold(s) \cup InFlight(s), Held(ring))
          /\ Below(InHold(s) \cup InFlight(s), {l})
      BY <2>4 DEF Sorted
    <3>2. Below(InHold(s) \cup InFlight(s), Held(ring'))
      BY <1>6, <3>1 DEF Below
    <3> QED BY <1>1, <1>7, <3>2 DEF Sorted
  <2> QED BY <2>5, <2>6, <2>7 DEF Sorted
<1> QED BY <1>8, <1>9, <1>10, <1>11, <1>12

(* A step of one sender moves its lines, and none gets lost. *)
LEMMA Moves ==
  ASSUME ShipperInv, NEW s \in Sessions, collected' = collected,
         \A t \in Sessions : t # s => hold'[t] = hold[t] /\ flight'[t] = flight[t],
         Distinct(ring'), Distinct(received'), Distinct(flight'[s]),
         InHold(s)' \cap InFlight(s)' = {},
         Held(ring') \cap Held(received') = {}, Held(ring') \cap Gone' = {},
         Held(received') \cap Gone' = {},
         (InHold(s)' \cup InFlight(s)') \cap (Held(ring') \cup Held(received') \cup Gone') = {},
         Held(ring') \cup Held(received') \cup Gone' \cup InHold(s)' \cup InFlight(s)'
           = Held(ring) \cup Held(received) \cup Gone \cup InHold(s) \cup InFlight(s)
  PROVE  Together' /\ Apart'
<1> DEFINE A(t) == InHold(t) \cup InFlight(t)
           T == Held(ring) \cup Held(received) \cup Gone
<1> USE DEF ShipperInv
<1>1. ASSUME NEW t \in Sessions, t # s
      PROVE  InHold(t)' = InHold(t) /\ InFlight(t)' = InFlight(t) /\ Distinct(flight'[t])
  BY <1>1 DEF InHold, InFlight, Apart
<1>2. ASSUME NEW t \in Sessions, t # s
      PROVE  A(t)' = A(t) /\ A(t) \cap (T \cup A(s)) = {}
  BY <1>1, <1>2 DEF Apart
<1>3. T' \cup A(s)' = T \cup A(s)
  OBVIOUS
<1>4. Together'
  <2>1. \A x : x \in 1..collected <=> x \in T \/ \E t \in Sessions : x \in A(t)
    BY Zenon DEF Together
  <2>2. \A x : x \in T' \cup A(s)' <=> x \in T \cup A(s)
    BY <1>3
  <2>3. ASSUME NEW x
        PROVE  x \in 1..collected <=> x \in T' \/ \E t \in Sessions : x \in A(t)'
    <3>1. (\E t \in Sessions : t # s /\ x \in A(t)) <=> (\E t \in Sessions : t # s /\ x \in A(t)')
      <4> HIDE DEF A, T
      <4> QED BY <1>2
    <3>2. (x \in T \/ x \in A(s)) <=> (x \in T' \/ x \in A(s)')
      <4> HIDE DEF A, T
      <4> QED BY <2>2
    <3> HIDE DEF A, T
    <3> QED BY <2>1, <3>1, <3>2
  <2>4. 1..collected' = T' \cup UNION {A(t)' : t \in Sessions}
    <3> HIDE DEF A, T
    <3> QED BY <2>3
  <2> QED BY <2>4 DEF Together
<1>5. Apart'
  <2>1. \A t \in Sessions : Distinct(flight'[t]) /\ InHold(t)' \cap InFlight(t)' = {}
    BY <1>1 DEF Apart
  <2>2. ASSUME NEW t \in Sessions PROVE A(t)' \cap T' = {}
    <3>1. CASE t = s
      BY <3>1
    <3>2. CASE t # s
      <4> HIDE DEF A, T
      <4> QED BY <1>2, <1>3, <3>2
    <3> QED BY <3>1, <3>2
  <2>3. ASSUME NEW t \in Sessions, NEW u \in Sessions, t # u PROVE A(t)' \cap A(u)' = {}
    <3>1. t # s /\ u # s => A(t) \cap A(u) = {}
      BY <2>3 DEF Apart
    <3> HIDE DEF A, T
    <3> QED BY <1>2, <1>3, <2>3, <3>1
  <2> QED BY <2>1, <2>2, <2>3 DEF Apart
<1> QED BY <1>4, <1>5

LEMMA OneSorted ==
  ASSUME LSTypeOK, Holding, session' = session, NEW s \in Sessions, s <= session,
         \A t \in Sessions : t # s => hold'[t] = hold[t] /\ flight'[t] = flight[t],
         session <= 1 =>
           /\ Ascending(ring') /\ Ascending(received') /\ Ascending(flight'[s])
           /\ Below(Held(received'), Held(ring'))
           /\ Below(Held(received'), InHold(s)' \cup InFlight(s)')
           /\ Below(InHold(s)' \cup InFlight(s)', Held(ring'))
           /\ Below(InFlight(s)', InHold(s)')
  PROVE  Sorted'
<1> SUFFICES ASSUME session <= 1 PROVE Sorted'
  BY DEF Sorted
<1>1. ASSUME NEW t \in Sessions, t # s
      PROVE  InHold(t)' = {} /\ InFlight(t)' = {} /\ Ascending(flight'[t])
  <2>1. InHold(t) = {} /\ InFlight(t) = {}
    BY <1>1, OnlyOne
  <2>2. InHold(t)' = InHold(t) /\ InFlight(t)' = InFlight(t)
    BY <1>1 DEF InHold, InFlight
  <2>3. flight[t] = <<>>
    <3>1. t > session
      BY <1>1, LogShipperAssumption DEF Sessions, LSTypeOK
    <3> QED BY <3>1 DEF Holding
  <2> QED BY <1>1, <2>1, <2>2, <2>3, HeldNothing
<1>2. ASSUME NEW t \in Sessions
      PROVE  /\ Ascending(flight'[t])
             /\ Below(Held(received'), InHold(t)' \cup InFlight(t)')
             /\ Below(InHold(t)' \cup InFlight(t)', Held(ring'))
             /\ Below(InFlight(t)', InHold(t)')
  <2>1. CASE t = s
    BY <2>1
  <2>2. CASE t # s
    BY <1>1, <2>2 DEF Below
  <2> QED BY <2>1, <2>2
<1> QED BY <1>2 DEF Sorted

(* A stream that breaks loses what it carries, also at the end of its session. *)
LEMMA BreakStep ==
  ASSUME ShipperInv, NEW s \in Sessions, Break(s) \/ (EndSession /\ s = session)
  PROVE  ShipperInv'
<1> USE DEF ShipperInv
<1>1. /\ flight' = [flight EXCEPT ![s] = <<>>] /\ lost' = lost \cup Held(flight[s])
      /\ UNCHANGED <<ring, collected, evicted, session, step, hold, received>>
      /\ stream' \in [Sessions -> {"none", "up", "broken", "noticed"}]
      /\ cancelled' \in [Sessions -> BOOLEAN] /\ breaks' \in 0..MaxBreaks
      /\ \A t \in Sessions : t # s => stream'[t] = stream[t]
  <2>1. CASE Break(s)
    BY <2>1, LogShipperAssumption DEF Break, ringVars, sessionVars, LSTypeOK
  <2>2. CASE EndSession /\ s = session
    <3>1. /\ stream' = [stream EXCEPT ![s] = IF @ = "up" THEN "broken" ELSE @]
          /\ cancelled' = [cancelled EXCEPT ![s] = TRUE] /\ breaks' = breaks
      BY <2>2 DEF EndSession
    <3>2. /\ flight' = [flight EXCEPT ![s] = <<>>] /\ lost' = lost \cup Held(flight[s])
          /\ UNCHANGED <<ring, collected, evicted, session, step, hold, received>>
      BY <2>2 DEF EndSession, ringVars
    <3> QED BY <3>1, <3>2 DEF LSTypeOK
  <2> QED BY <2>1, <2>2
<1>2. s <= session
  <2>1. CASE Break(s)
    <3>1. stream[s] # "none"
      BY <2>1 DEF Break
    <3> QED BY <3>1 DEF Holding, LSTypeOK, Sessions
  <2>2. CASE s = session
    BY <2>2 DEF LSTypeOK
  <2> QED BY <2>1, <2>2
<1>3. /\ flight'[s] = <<>> /\ InFlight(s)' = {} /\ InHold(s)' = InHold(s)
      /\ \A t \in Sessions : t # s => hold'[t] = hold[t] /\ flight'[t] = flight[t]
      /\ Gone' = Gone \cup InFlight(s) /\ Held(ring') = Held(ring) /\ Held(received') = Held(received)
  BY <1>1, HeldNothing DEF InFlight, InHold, Gone, LSTypeOK
<1>4. /\ InHold(s) \cap InFlight(s) = {} /\ Held(ring) \cap Held(received) = {}
      /\ Held(ring) \cap Gone = {} /\ Held(received) \cap Gone = {}
      /\ (InHold(s) \cup InFlight(s)) \cap (Held(ring) \cup Held(received) \cup Gone) = {}
  BY DEF Apart
<1>5. Distinct(ring') /\ Distinct(received') /\ Distinct(flight'[s])
  BY <1>1, <1>3, HeldNothing DEF Apart
<1>6. Together' /\ Apart'
  BY <1>1, <1>3, <1>4, <1>5, Moves
<1>7. Holding'
  BY <1>1, <1>2, <1>3 DEF Holding, LSTypeOK, Sessions
<1>8. LSTypeOK'
  <2>1. Held(flight[s]) \subseteq Lines /\ <<>> \in Seq(Lines)
    BY DEF LSTypeOK, Held
  <2> QED BY <1>1, <2>1 DEF LSTypeOK
<1>9. Sorted'
  BY <1>1, <1>2, <1>3, HeldNothing, OneSorted DEF Sorted, Below
<1> QED BY <1>6, <1>7, <1>8, <1>9

(* The oldest line is popped, or the sender leaves the loop. *)
LEMMA SelectStep ==
  ASSUME ShipperInv, NEW s \in Sessions, Select(s)
  PROVE  ShipperInv'
<1> USE DEF ShipperInv
<1>1. /\ step[s] = "select" /\ UNCHANGED <<collected, evicted, session, cancelled>>
      /\ UNCHANGED <<stream, flight, received, lost, breaks>>
  BY DEF Select, sessionVars, netVars
<1>2. hold[s] = 0 /\ ~(s > session)
  BY <1>1 DEF Holding
<1>3. CASE UNCHANGED <<ring, hold>> /\ (StepTo(s, "done") \/ StepTo(s, "backoff"))
  <2>1. PICK p \in {"done", "backoff"} : step' = [step EXCEPT ![s] = p]
    BY <1>3 DEF StepTo
  <2>2. LSTypeOK'
    BY <1>1, <1>3, <2>1 DEF LSTypeOK
  <2>3. Holding'
    BY <1>1, <1>2, <1>3, <2>1, PlaceHolding
  <2> QED BY <1>1, <1>3, <2>2, <2>3, MovesNothing
<1>4. CASE /\ ring # <<>> /\ hold' = [hold EXCEPT ![s] = Head(ring)] /\ ring' = Tail(ring)
           /\ StepTo(s, "send")
  <2>1. /\ ring' \in Seq(Lines) /\ Len(ring') = Len(ring) - 1 /\ Head(ring) \in Lines
        /\ Held(ring') = Held(ring) \ {Head(ring)} /\ Head(ring) \in Held(ring)
        /\ Distinct(ring')
    <3>1. ring \in Seq(Lines) /\ Distinct(ring)
      BY DEF LSTypeOK, Apart
    <3> QED BY <1>4, <3>1, TailHeld
  <2> DEFINE l == Head(ring)
  <2>2. l \in Nat /\ l # 0 /\ l \in 0..LastLine
    BY <2>1, LogShipperAssumption DEF Lines
  <2>3. hold'[s] = l /\ step' = [step EXCEPT ![s] = "send"]
    BY <1>4 DEF StepTo, LSTypeOK
  <2> HIDE DEF l
  <2>4. /\ InHold(s)' = {l} /\ InHold(s) = {} /\ InFlight(s)' = InFlight(s)
        /\ \A t \in Sessions : t # s => hold'[t] = hold[t] /\ flight'[t] = flight[t]
        /\ Held(received') = Held(received) /\ Gone' = Gone
    BY <1>1, <1>2, <1>4, <2>2, <2>3 DEF InHold, InFlight, Gone, LSTypeOK
  <2>5. /\ Held(ring) \cap Held(received) = {}
        /\ Held(ring) \cap Gone = {} /\ Held(received) \cap Gone = {}
        /\ InFlight(s) \cap (Held(ring) \cup Held(received) \cup Gone) = {}
    BY DEF Apart
  <2>6. l \in Held(ring) /\ Held(ring') = Held(ring) \ {l}
    BY <2>1 DEF l
  <2>7. Distinct(ring') /\ Distinct(received') /\ Distinct(flight'[s])
    BY <1>1, <2>1 DEF Apart
  <2>8. Together' /\ Apart'
    <3>1. InHold(s)' \cap InFlight(s)' = {}
      BY <2>4, <2>5, <2>6
    <3>2. /\ Held(ring') \cap Held(received') = {} /\ Held(ring') \cap Gone' = {}
          /\ Held(received') \cap Gone' = {}
      BY <2>4, <2>5, <2>6
    <3>3. (InHold(s)' \cup InFlight(s)') \cap (Held(ring') \cup Held(received') \cup Gone') = {}
      BY <2>4, <2>5, <2>6
    <3>4. Held(ring') \cup Held(received') \cup Gone' \cup InHold(s)' \cup InFlight(s)'
            = Held(ring) \cup Held(received) \cup Gone \cup InHold(s) \cup InFlight(s)
      BY <2>4, <2>6
    <3> QED BY <1>1, <2>4, <2>7, <3>1, <3>2, <3>3, <3>4, Moves
  <2>9. LSTypeOK'
    <3>1. hold' \in [Sessions -> 0..LastLine]
      BY <1>4, <2>2 DEF LSTypeOK, l
    <3>2. Len(ring') <= Cap
      <4>1. Len(ring) \in Nat /\ Len(ring) <= Cap
        BY DEF LSTypeOK
      <4> QED BY <2>1, <4>1, LogRingAssumption
    <3> QED BY <1>1, <2>1, <2>3, <3>1, <3>2 DEF LSTypeOK
  <2>10. Holding'
    <3>1. ASSUME NEW t \in Sessions
          PROVE  /\ hold'[t] # 0 <=> step'[t] = "send"
                 /\ t > session' => step'[t] = "none" /\ stream'[t] = "none" /\ flight'[t] = <<>>
      <4>1. CASE t = s
        BY <1>1, <1>2, <2>2, <2>3, <4>1 DEF LSTypeOK
      <4>2. CASE t # s
        BY <1>1, <2>3, <2>4, <4>2 DEF Holding, LSTypeOK
      <4> QED BY <4>1, <4>2
    <3> QED BY <3>1 DEF Holding
  <2>11. Sorted'
    <3>1. s <= session
      BY <1>2 DEF LSTypeOK, Sessions
    <3>2. ASSUME session <= 1
          PROVE  /\ Ascending(ring') /\ Ascending(received') /\ Ascending(flight'[s])
                 /\ Below(Held(received'), Held(ring'))
                 /\ Below(Held(received'), InHold(s)' \cup InFlight(s)')
                 /\ Below(InHold(s)' \cup InFlight(s)', Held(ring'))
                 /\ Below(InFlight(s)', InHold(s)')
      <4>1. /\ Ascending(ring) /\ Ascending(received) /\ Ascending(flight[s])
            /\ Below(Held(received), Held(ring))
            /\ Below(Held(received), InHold(s) \cup InFlight(s))
            /\ Below(InHold(s) \cup InFlight(s), Held(ring))
        BY <3>2 DEF Sorted
      <4>2. Ascending(ring') /\ Below({l}, Held(ring'))
        <5>1. ring \in Seq(Lines) /\ Lines \subseteq Nat
          BY LogShipperAssumption DEF LSTypeOK, Lines
        <5> QED BY <1>4, <2>1, <4>1, <5>1, Sorting DEF l
      <4>3. /\ Below(Held(received'), Held(ring')) /\ Below(InFlight(s)', InHold(s)')
            /\ Below(Held(received'), InHold(s)' \cup InFlight(s)')
        BY <2>4, <2>6, <4>1 DEF Below
      <4>4. Below(InHold(s)' \cup InFlight(s)', Held(ring'))
        BY <2>4, <2>6, <4>1, <4>2 DEF Below
      <4> QED BY <1>1, <4>1, <4>2, <4>3, <4>4
    <3> QED BY <1>1, <2>4, <3>1, <3>2, OneSorted
  <2> QED BY <2>8, <2>9, <2>10, <2>11
<1> QED BY <1>3, <1>4 DEF Select

(* gRPC takes the line, or a stream that broke unnoticed does. *)
LEMMA SendStep ==
  ASSUME ShipperInv, NEW s \in Sessions, SendTaken(s)
  PROVE  ShipperInv'
<1> DEFINE l == hold[s]
<1> USE DEF ShipperInv
<1>1. /\ step[s] = "send" /\ hold' = [hold EXCEPT ![s] = 0]
      /\ step' = [step EXCEPT ![s] = "select"]
      /\ UNCHANGED <<ring, collected, evicted, session, cancelled, stream, received, breaks>>
      /\ \/ flight' = [flight EXCEPT ![s] = Append(@, l)] /\ lost' = lost
         \/ lost' = lost \cup {l} /\ flight' = flight
  BY DEF SendTaken, ringVars, sessionVars, StepTo
<1>2. l # 0 /\ ~(s > session) /\ l \in Lines /\ InHold(s) = {l}
  <2>1. hold[s] # 0 /\ hold[s] \in 0..LastLine
    BY <1>1 DEF Holding, LSTypeOK
  <2> QED BY <1>1, <2>1, LogShipperAssumption DEF Holding, Lines, InHold
<1> HIDE DEF l
<1>3. flight[s] \in Seq(Lines) /\ Distinct(flight[s]) /\ l \notin InFlight(s)
  BY <1>2 DEF LSTypeOK, Apart
<1>4. /\ Append(flight[s], l) \in Seq(Lines) /\ Held(Append(flight[s], l)) = InFlight(s) \cup {l}
      /\ Distinct(Append(flight[s], l))
  BY <1>2, <1>3, AppendHeld DEF InFlight
<1>5. /\ InHold(s)' = {} /\ Held(ring') = Held(ring) /\ Held(received') = Held(received)
      /\ \A t \in Sessions : t # s => hold'[t] = hold[t] /\ flight'[t] = flight[t]
      /\ \/ InFlight(s)' = InFlight(s) \cup {l} /\ Gone' = Gone /\ flight'[s] = Append(flight[s], l)
         \/ InFlight(s)' = InFlight(s) /\ Gone' = Gone \cup {l} /\ flight'[s] = flight[s]
  BY <1>1, <1>4 DEF InHold, InFlight, Gone, LSTypeOK
<1>6. /\ Held(ring) \cap Held(received) = {}
      /\ Held(ring) \cap Gone = {} /\ Held(received) \cap Gone = {}
      /\ (InFlight(s) \cup {l}) \cap (Held(ring) \cup Held(received) \cup Gone) = {}
  BY <1>2 DEF Apart
<1>7. Together' /\ Apart'
  <2>1. Distinct(ring') /\ Distinct(received') /\ Distinct(flight'[s])
    BY <1>1, <1>3, <1>4, <1>5 DEF Apart
  <2>2. InHold(s)' \cap InFlight(s)' = {}
    BY <1>5
  <2>3. /\ Held(ring') \cap Held(received') = {} /\ Held(ring') \cap Gone' = {}
        /\ Held(received') \cap Gone' = {}
    BY <1>5, <1>6
  <2>4. (InHold(s)' \cup InFlight(s)') \cap (Held(ring') \cup Held(received') \cup Gone') = {}
    BY <1>3, <1>5, <1>6
  <2>5. Held(ring') \cup Held(received') \cup Gone' \cup InHold(s)' \cup InFlight(s)'
          = Held(ring) \cup Held(received) \cup Gone \cup InHold(s) \cup InFlight(s)
    BY <1>2, <1>5
  <2> QED BY <1>1, <1>5, <2>1, <2>2, <2>3, <2>4, <2>5, Moves
<1>8. LSTypeOK'
  <2>1. flight' \in [Sessions -> Seq(Lines)] /\ lost' \subseteq Lines
    BY <1>1, <1>2, <1>4 DEF LSTypeOK
  <2>2. hold' \in [Sessions -> 0..LastLine]
    BY <1>1, LogShipperAssumption DEF LSTypeOK
  <2> QED BY <1>1, <2>1, <2>2 DEF LSTypeOK
<1>9. Holding'
  <2>1. ASSUME NEW t \in Sessions
        PROVE  /\ hold'[t] # 0 <=> step'[t] = "send"
               /\ t > session' => step'[t] = "none" /\ stream'[t] = "none" /\ flight'[t] = <<>>
    <3>1. CASE t = s
      BY <1>1, <1>2, <3>1 DEF LSTypeOK
    <3>2. CASE t # s
      BY <1>1, <1>5, <3>2 DEF Holding, LSTypeOK
    <3> QED BY <3>1, <3>2
  <2> QED BY <2>1 DEF Holding
<1>10. Sorted'
  <2>1. s <= session
    BY <1>2 DEF LSTypeOK, Sessions
  <2>2. ASSUME session <= 1
        PROVE  /\ Ascending(ring') /\ Ascending(received') /\ Ascending(flight'[s])
               /\ Below(Held(received'), Held(ring'))
               /\ Below(Held(received'), InHold(s)' \cup InFlight(s)')
               /\ Below(InHold(s)' \cup InFlight(s)', Held(ring'))
               /\ Below(InFlight(s)', InHold(s)')
    <3>1. /\ Ascending(ring) /\ Ascending(received) /\ Ascending(flight[s])
          /\ Below(Held(received), Held(ring))
          /\ Below(Held(received), {l} \cup InFlight(s))
          /\ Below({l} \cup InFlight(s), Held(ring)) /\ Below(InFlight(s), {l})
      BY <1>2, <2>2 DEF Sorted
    <3>2. Ascending(Append(flight[s], l))
      <4>1. Lines \subseteq Nat /\ Below(Held(flight[s]), {l})
        BY <3>1, LogShipperAssumption DEF Lines, InFlight
      <4> QED BY <1>2, <1>3, <3>1, <4>1, Sorting
    <3>3. Ascending(flight'[s])
      BY <1>5, <3>1, <3>2
    <3>4. /\ Below(Held(received'), InHold(s)' \cup InFlight(s)')
          /\ Below(InHold(s)' \cup InFlight(s)', Held(ring'))
          /\ Below(InFlight(s)', InHold(s)') /\ Below(Held(received'), Held(ring'))
      BY <1>5, <3>1 DEF Below
    <3> QED BY <1>1, <3>1, <3>3, <3>4
  <2> QED BY <1>1, <1>5, <2>1, <2>2, OneSorted
<1> QED BY <1>7, <1>8, <1>9, <1>10

(* A line that could not be sent goes back to the head of the ring. *)
LEMMA PutBackStep ==
  ASSUME ShipperInv, NEW s \in Sessions, SendFails(s)
  PROVE  ShipperInv'
<1> DEFINE l == hold[s]
           D == PushFrontEvicts(ring)
<1> USE DEF ShipperInv
<1>1. /\ step[s] = "send" /\ hold' = [hold EXCEPT ![s] = 0]
      /\ step' = [step EXCEPT ![s] = "backoff"]
      /\ ring' = PushFront(ring, l) /\ evicted' = evicted \cup D
      /\ UNCHANGED <<collected, session, cancelled, stream, flight, received, lost, breaks>>
  BY DEF SendFails, sessionVars, netVars, StepTo
<1>2. l # 0 /\ ~(s > session) /\ l \in Lines /\ InHold(s) = {l}
  <2>1. hold[s] # 0 /\ hold[s] \in 0..LastLine
    BY <1>1 DEF Holding, LSTypeOK
  <2> QED BY <1>1, <2>1, LogShipperAssumption DEF Holding, Lines, InHold
<1> HIDE DEF l
<1>3. /\ Held(ring) \cap Held(received) = {}
      /\ Held(ring) \cap Gone = {} /\ Held(received) \cap Gone = {}
      /\ (InFlight(s) \cup {l}) \cap (Held(ring) \cup Held(received) \cup Gone) = {}
      /\ {l} \cap InFlight(s) = {}
  BY <1>2 DEF Apart
<1>4. ring \in Seq(Lines) /\ Len(ring) <= Cap /\ Distinct(ring) /\ l \notin Held(ring)
  BY <1>3 DEF LSTypeOK, Apart
<1>5. /\ ring' \in Seq(Lines) /\ Len(ring') <= Cap /\ Distinct(ring')
      /\ Held(ring') = (Held(ring) \ D) \cup {l} /\ D \subseteq Held(ring)
      /\ Ascending(ring) /\ Below({l}, Held(ring)) => Ascending(ring')
  BY <1>1, <1>2, <1>4, PushFrontHeld
<1>6. D \subseteq Lines
  BY <1>4, LogRingAssumption DEF PushFrontEvicts, Full
<1> HIDE DEF D
<1>7. /\ InHold(s)' = {} /\ InFlight(s)' = InFlight(s) /\ Held(received') = Held(received)
      /\ \A t \in Sessions : t # s => hold'[t] = hold[t] /\ flight'[t] = flight[t]
      /\ Gone' = Gone \cup D
  BY <1>1 DEF InHold, InFlight, Gone, LSTypeOK
<1>8. Together' /\ Apart'
  <2>1. Distinct(ring') /\ Distinct(received') /\ Distinct(flight'[s])
    BY <1>1, <1>5 DEF Apart
  <2>2. InHold(s)' \cap InFlight(s)' = {}
    BY <1>7
  <2>3. /\ Held(ring') \cap Held(received') = {} /\ Held(ring') \cap Gone' = {}
        /\ Held(received') \cap Gone' = {}
    BY <1>3, <1>4, <1>5, <1>7
  <2>4. (InHold(s)' \cup InFlight(s)') \cap (Held(ring') \cup Held(received') \cup Gone') = {}
    BY <1>3, <1>5, <1>7
  <2>5. Held(ring') \cup Held(received') \cup Gone' \cup InHold(s)' \cup InFlight(s)'
          = Held(ring) \cup Held(received) \cup Gone \cup InHold(s) \cup InFlight(s)
    BY <1>2, <1>5, <1>7
  <2> QED BY <1>1, <1>7, <2>1, <2>2, <2>3, <2>4, <2>5, Moves
<1>9. LSTypeOK'
  <2>1. hold' \in [Sessions -> 0..LastLine]
    BY <1>1, LogShipperAssumption DEF LSTypeOK
  <2> QED BY <1>1, <1>5, <1>6, <2>1 DEF LSTypeOK
<1>10. Holding'
  <2>1. ASSUME NEW t \in Sessions
        PROVE  /\ hold'[t] # 0 <=> step'[t] = "send"
               /\ t > session' => step'[t] = "none" /\ stream'[t] = "none" /\ flight'[t] = <<>>
    <3>1. CASE t = s
      BY <1>1, <1>2, <3>1 DEF LSTypeOK
    <3>2. CASE t # s
      BY <1>1, <3>2 DEF Holding, LSTypeOK
    <3> QED BY <3>1, <3>2
  <2> QED BY <2>1 DEF Holding
<1>11. Sorted'
  <2>1. s <= session
    BY <1>2 DEF LSTypeOK, Sessions
  <2>2. ASSUME session <= 1
        PROVE  /\ Ascending(ring') /\ Ascending(received') /\ Ascending(flight'[s])
               /\ Below(Held(received'), Held(ring'))
               /\ Below(Held(received'), InHold(s)' \cup InFlight(s)')
               /\ Below(InHold(s)' \cup InFlight(s)', Held(ring'))
               /\ Below(InFlight(s)', InHold(s)')
    <3>1. /\ Ascending(ring) /\ Ascending(received) /\ Ascending(flight[s])
          /\ Below(Held(received), Held(ring))
          /\ Below(Held(received), {l} \cup InFlight(s))
          /\ Below({l} \cup InFlight(s), Held(ring)) /\ Below(InFlight(s), {l})
      BY <1>2, <2>2 DEF Sorted
    <3>2. Below({l}, Held(ring))
      BY <3>1 DEF Below
    <3>3. /\ Below(Held(received'), InHold(s)' \cup InFlight(s)')
          /\ Below(InHold(s)' \cup InFlight(s)', Held(ring'))
          /\ Below(InFlight(s)', InHold(s)') /\ Below(Held(received'), Held(ring'))
      BY <1>5, <1>7, <3>1 DEF Below
    <3> QED BY <1>1, <1>5, <3>1, <3>2, <3>3
  <2> QED BY <1>1, <1>7, <2>1, <2>2, OneSorted
<1> QED BY <1>8, <1>9, <1>10, <1>11

LEMMA ReceiveStep ==
  ASSUME ShipperInv, NEW s \in Sessions, Receive(s)
  PROVE  ShipperInv'
<1> DEFINE l == Head(flight[s])
<1> USE DEF ShipperInv
<1>1. /\ flight[s] # <<>> /\ received' = Append(received, l)
      /\ flight' = [flight EXCEPT ![s] = Tail(@)]
      /\ UNCHANGED <<ring, collected, evicted, session, cancelled, step, hold, stream, lost, breaks>>
  BY DEF Receive, ringVars, sessionVars
<1>2. /\ flight[s] \in Seq(Lines) /\ Distinct(flight[s])
      /\ received \in Seq(Lines) /\ Distinct(received)
  BY DEF LSTypeOK, Apart
<1>3. /\ Tail(flight[s]) \in Seq(Lines) /\ l \in Lines /\ l \in InFlight(s)
      /\ Held(Tail(flight[s])) = InFlight(s) \ {l} /\ Distinct(Tail(flight[s]))
  BY <1>1, <1>2, TailHeld DEF InFlight
<1> HIDE DEF l
<1>4. ~(s > session)
  BY <1>1 DEF Holding
<1>5. /\ Held(ring) \cap Held(received) = {}
      /\ Held(ring) \cap Gone = {} /\ Held(received) \cap Gone = {}
      /\ (InHold(s) \cup InFlight(s)) \cap (Held(ring) \cup Held(received) \cup Gone) = {}
      /\ InHold(s) \cap InFlight(s) = {}
  BY DEF Apart
<1>6. l \notin Held(received)
  BY <1>3, <1>5
<1>7. /\ received' \in Seq(Lines) /\ Held(received') = Held(received) \cup {l}
      /\ Distinct(received')
  BY <1>1, <1>2, <1>3, <1>6, AppendHeld
<1>8. /\ InHold(s)' = InHold(s) /\ InFlight(s)' = InFlight(s) \ {l}
      /\ flight'[s] = Tail(flight[s]) /\ Held(ring') = Held(ring) /\ Gone' = Gone
      /\ \A t \in Sessions : t # s => hold'[t] = hold[t] /\ flight'[t] = flight[t]
  BY <1>1, <1>3 DEF InHold, InFlight, Gone, LSTypeOK
<1>9. Together' /\ Apart'
  <2>1. Distinct(ring') /\ Distinct(received') /\ Distinct(flight'[s])
    BY <1>1, <1>3, <1>7, <1>8 DEF Apart
  <2>2. InHold(s)' \cap InFlight(s)' = {}
    BY <1>5, <1>8
  <2>3. /\ Held(ring') \cap Held(received') = {} /\ Held(ring') \cap Gone' = {}
        /\ Held(received') \cap Gone' = {}
    BY <1>3, <1>5, <1>7, <1>8
  <2>4. (InHold(s)' \cup InFlight(s)') \cap (Held(ring') \cup Held(received') \cup Gone') = {}
    BY <1>3, <1>5, <1>7, <1>8
  <2>5. Held(ring') \cup Held(received') \cup Gone' \cup InHold(s)' \cup InFlight(s)'
          = Held(ring) \cup Held(received) \cup Gone \cup InHold(s) \cup InFlight(s)
    BY <1>3, <1>7, <1>8
  <2> QED BY <1>1, <1>8, <2>1, <2>2, <2>3, <2>4, <2>5, Moves
<1>10. LSTypeOK'
  <2>1. flight' \in [Sessions -> Seq(Lines)]
    BY <1>1, <1>3 DEF LSTypeOK
  <2> QED BY <1>1, <1>7, <2>1 DEF LSTypeOK
<1>11. Holding'
  <2>1. ASSUME NEW t \in Sessions
        PROVE  t > session' => step'[t] = "none" /\ stream'[t] = "none" /\ flight'[t] = <<>>
    BY <1>1, <1>4, <1>8 DEF Holding
  <2> QED BY <1>1, <2>1 DEF Holding
<1>12. Sorted'
  <2>1. s <= session
    BY <1>4 DEF LSTypeOK, Sessions
  <2>2. ASSUME session <= 1
        PROVE  /\ Ascending(ring') /\ Ascending(received') /\ Ascending(flight'[s])
               /\ Below(Held(received'), Held(ring'))
               /\ Below(Held(received'), InHold(s)' \cup InFlight(s)')
               /\ Below(InHold(s)' \cup InFlight(s)', Held(ring'))
               /\ Below(InFlight(s)', InHold(s)')
    <3>1. /\ Ascending(ring) /\ Ascending(received) /\ Ascending(flight[s])
          /\ Below(Held(received), Held(ring))
          /\ Below(Held(received), InHold(s) \cup InFlight(s))
          /\ Below(InHold(s) \cup InFlight(s), Held(ring)) /\ Below(InFlight(s), InHold(s))
      BY <2>2 DEF Sorted
    <3>2. Lines \subseteq Nat
      BY LogShipperAssumption DEF Lines
    <3>3. Below(Held(received), {l})
      BY <1>3, <3>1 DEF Below
    <3>4. Ascending(received')
      BY <1>1, <1>2, <1>3, <3>1, <3>2, <3>3, Sorting
    <3>5. Ascending(flight'[s]) /\ Below({l}, InFlight(s)')
      <4>1. Ascending(Tail(flight[s])) /\ Below({l}, Held(Tail(flight[s])))
        BY <1>1, <1>2, <1>3, <3>1, <3>2, Sorting DEF l
      <4> QED BY <1>3, <1>8, <4>1
    <3>6. /\ Below(Held(received'), Held(ring'))
          /\ Below(InHold(s)' \cup InFlight(s)', Held(ring'))
          /\ Below(InFlight(s)', InHold(s)')
      BY <1>3, <1>7, <1>8, <3>1 DEF Below
    <3>7. Below(Held(received'), InHold(s)' \cup InFlight(s)')
      BY <1>3, <1>7, <1>8, <3>1, <3>5 DEF Below
    <3> QED BY <1>1, <3>1, <3>4, <3>5, <3>6, <3>7
  <2> QED BY <1>1, <1>8, <2>1, <2>2, OneSorted
<1> QED BY <1>9, <1>10, <1>11, <1>12

LEMMA ShipperInvNext == ShipperInv /\ [LSNext]_lsVars => ShipperInv'
<1> SUFFICES ASSUME ShipperInv, [LSNext]_lsVars PROVE ShipperInv'
  OBVIOUS
<1>1. CASE CollectLine
  BY <1>1, CollectStep
<1>2. CASE StartSession
  <2>1. session + 1 \in Sessions
    <3>1. session \in 0..MaxSessions /\ session < MaxSessions
      BY <1>2 DEF ShipperInv, LSTypeOK, StartSession
    <3>2. MaxSessions \in Nat
      BY LogShipperAssumption
    <3> QED BY <3>1, <3>2 DEF Sessions
  <2> QED BY <1>2, <2>1, QuietStep
<1>3. CASE EndSession
  <2>1. session \in Sessions
    BY <1>3 DEF EndSession
  <2> QED BY <1>3, <2>1, BreakStep
<1>4. ASSUME NEW s \in Sessions,
             Sender(s) \/ OpenFails(s) \/ Break(s) \/ Notice(s) \/ Receive(s)
      PROVE  ShipperInv'
  BY <1>4, QuietStep, SelectStep, SendStep, PutBackStep, BreakStep, ReceiveStep DEF Sender
<1>5. CASE UNCHANGED lsVars
  <2>1. LSTypeOK' /\ Holding'
    BY <1>5 DEF ShipperInv, LSTypeOK, Holding, lsVars
  <2> QED BY <1>5, <2>1, MovesNothing DEF lsVars
<1> QED BY <1>1, <1>2, <1>3, <1>4, <1>5 DEF LSNext

LEMMA InHandIs ==
  InHand = Held(ring) \cup UNION {InHold(s) \cup InFlight(s) : s \in Sessions}
BY DEF InHand, InHold, InFlight

(* No line is lost or delivered twice on its way through the ring and the  *)
(* streams, whatever breaks and for any number of lines and sessions; in   *)
(* one session the lines arrive in their order (logshipper.go).            *)
THEOREM DeliveryAlways == LSSpec => []Delivery
<1>1. ASSUME ShipperInv PROVE Delivery
  <2> USE <1>1 DEF ShipperInv
  <2> DEFINE A(s) == InHold(s) \cup InFlight(s)
             W == Held(ring) \cup UNION {A(s) : s \in Sessions}
  <2>1. InHand = W
    BY InHandIs
  <2>2. 1..collected = W \cup Held(received) \cup Gone
    BY Zenon DEF Together
  <2>3. \A s \in Sessions : A(s) \cap (Held(received) \cup Gone) = {}
    BY DEF Apart
  <2>4. W \cap Held(received) = {} /\ W \cap Gone = {} /\ Held(received) \cap Gone = {}
    <3>1. /\ Held(ring) \cap Held(received) = {} /\ Held(ring) \cap Gone = {}
          /\ Held(received) \cap Gone = {}
      BY DEF Apart
    <3> HIDE DEF A
    <3> QED BY <2>3, <3>1
  <2>5. NothingVanishes
    <3> HIDE DEF W
    <3> QED BY <2>1, <2>2 DEF NothingVanishes, Gone
  <2>6. AtMostOnce
    <3> HIDE DEF W
    <3>1. Distinct(received)
      BY DEF Apart
    <3> QED BY <2>1, <2>4, <3>1 DEF AtMostOnce, Gone, Distinct
  <2>7. InOrder
    BY DEF InOrder, Sorted
  <2> QED BY <2>5, <2>6, <2>7 DEF Delivery
<1> QED BY <1>1, ShipperInvInit, ShipperInvNext, PTL DEF LSSpec

-----------------------------------------------------------------------------
(* LogShipper: the channel it implements *)

(* A line in hand is pending. *)
LEMMA InHandPends ==
  ASSUME ShipperInv
  PROVE  /\ Held(ring) \subseteq Channel!Pending
         /\ \A s \in Sessions : InHold(s) \cup InFlight(s) \subseteq Channel!Pending
<1> DEFINE A(s) == InHold(s) \cup InFlight(s)
<1> USE DEF ShipperInv
<1>1. collected \in 0..LastLine
  BY DEF LSTypeOK
<1>2. ASSUME NEW l \in 1..collected, l \notin Held(received), l \notin Gone
      PROVE  l \in Channel!Pending
  <2>1. l \in Lines /\ l <= collected
    BY <1>1, LogShipperAssumption DEF Lines
  <2> QED BY <1>2, <2>1 DEF Channel!Pending, fateBar, Gone
<1>3. ASSUME NEW l \in Held(ring) PROVE l \in Channel!Pending
  <2>1. l \in 1..collected
    BY DEF Together
  <2>2. l \notin Held(received) /\ l \notin Gone
    BY DEF Apart
  <2> QED BY <1>2, <2>1, <2>2
<1>4. ASSUME NEW s \in Sessions, NEW l \in A(s) PROVE l \in Channel!Pending
  <2>1. l \in UNION {A(t) : t \in Sessions}
    OBVIOUS
  <2>2. l \in 1..collected
    BY <2>1 DEF Together
  <2>3. l \notin Held(received) /\ l \notin Gone
    BY <1>4 DEF Apart
  <2> QED BY <1>2, <2>2, <2>3
<1> QED BY <1>3, <1>4

(* Lines that go on the way are dropped lines of the channel. *)
LEMMA GoneIsDropped ==
  ASSUME NEW D, D \subseteq Channel!Pending,
         UNCHANGED <<collected, received>>, Gone' = Gone \cup D
  PROVE  Channel!Drop(D)
<1>1. ASSUME NEW l \in Lines
      PROVE  fateBar'[l] = IF l \in D THEN "dropped" ELSE fateBar[l]
  <2>1. l \in D => fateBar[l] = "pending"
    BY DEF Channel!Pending
  <2>2. l \in D => l \notin Held(received)
    BY <2>1 DEF fateBar
  <2>3. /\ Held(received') = Held(received) /\ collected' = collected
        /\ l \in (evicted \cup lost)' <=> l \in (evicted \cup lost) \/ l \in D
    BY DEF Gone, Held
  <2> QED BY <2>2, <2>3 DEF fateBar
<1>2. fateBar' = [l \in Lines |-> fateBar'[l]]
  BY DEF fateBar
<1>3. fateBar' = Channel!Become(D, "dropped")
  BY <1>1, <1>2 DEF Channel!Become
<1> QED BY <1>3 DEF Channel!Drop

(* Collecting a line makes it pending and may drop another. *)
LEMMA CollectIsCollect ==
  ASSUME ShipperInv, CollectLine
  PROVE  collected + 1 \in Lines /\ Channel!Collect(collected + 1)
<1> DEFINE n == collected + 1
           D == PushEvicts(ring)
<1> USE DEF ShipperInv
<1>1. /\ n \in Lines /\ collected \in Nat /\ collected' = n /\ received' = received
      /\ (evicted \cup lost)' = (evicted \cup lost) \cup D
  BY LogShipperAssumption DEF LSTypeOK, CollectLine, Lines, netVars
<1>2. D \subseteq Held(ring)
  <2>1. ring \in Seq(Lines)
    BY DEF LSTypeOK
  <2>2. Len(ring) \in Nat /\ (Full(ring) => 1 \in 1..Len(ring))
    BY <2>1, LogRingAssumption DEF Full
  <2> QED BY <2>2 DEF PushEvicts, Held
<1>3. D \subseteq Channel!Pending
  BY <1>2, InHandPends
<1>4. Held(received) \cup Gone \subseteq 1..collected
  BY DEF Together
<1>5. n \notin Held(received) /\ n \notin evicted \cup lost /\ ~(n <= collected)
  BY <1>1, <1>4 DEF Gone
<1>6. fateBar[n] = "new"
  BY <1>1, <1>5 DEF fateBar
<1>7. n \notin D
  BY <1>3, <1>6 DEF Channel!Pending
<1>8. \A l \in Lines : l # n => (l <= n <=> l <= collected)
  BY <1>1 DEF Lines
<1>9. n <= n
  BY <1>1
<1>10. Held(received') = Held(received)
  BY <1>1 DEF Held
<1> HIDE DEF n, D
<1>11. ASSUME NEW l \in Lines
       PROVE  fateBar'[l] = IF l = n THEN "pending"
                            ELSE IF l \in D THEN "dropped" ELSE fateBar[l]
  <2>1. CASE l = n
    <3>1. n \notin (evicted \cup lost)'
      BY <1>1, <1>5, <1>7
    <3> QED BY <1>1, <1>5, <1>9, <1>10, <2>1, <3>1 DEF fateBar
  <2>2. CASE l # n
    <3>1. l \in D => l \notin Held(received)
      <4>1. l \in D => fateBar[l] = "pending"
        BY <1>3 DEF Channel!Pending
      <4> QED BY <4>1 DEF fateBar
    <3>2. (l \in (evicted \cup lost)') <=> (l \in evicted \cup lost \/ l \in D)
      BY <1>1
    <3>3. l <= collected' <=> l <= collected
      BY <1>1, <1>8, <2>2
    <3> QED BY <1>10, <2>2, <3>1, <3>2, <3>3 DEF fateBar
  <2> QED BY <2>1, <2>2
<1>12. fateBar' = [l \in Lines |-> fateBar'[l]]
  BY DEF fateBar
<1>13. fateBar' = [Channel!Become(D, "dropped") EXCEPT ![n] = "pending"]
  BY <1>11, <1>12 DEF Channel!Become
<1>14. Channel!Collect(n)
  BY <1>3, <1>6, <1>13 DEF Channel!Collect
<1> QED BY <1>1, <1>14 DEF n

(* What the server receives is delivered. *)
LEMMA ReceiveIsDeliver ==
  ASSUME ShipperInv, NEW s \in Sessions, Receive(s)
  PROVE  Head(flight[s]) \in Lines /\ Channel!Deliver(Head(flight[s]))
<1> DEFINE n == Head(flight[s])
<1> USE DEF ShipperInv
<1>1. /\ flight[s] # <<>> /\ received' = Append(received, n)
      /\ UNCHANGED <<collected, evicted, lost>>
  BY DEF Receive, ringVars
<1>2. /\ flight[s] \in Seq(Lines) /\ Distinct(flight[s])
      /\ received \in Seq(Lines) /\ Distinct(received)
  BY DEF LSTypeOK, Apart
<1>3. n \in Lines /\ n \in InFlight(s)
  BY <1>1, <1>2, TailHeld DEF InFlight
<1>4. n \in Channel!Pending
  BY <1>3, InHandPends
<1>5. fateBar[n] = "pending"
  BY <1>4 DEF Channel!Pending
<1> HIDE DEF n
<1>6. n \notin Held(received) /\ n \notin evicted \cup lost
  BY <1>3, <1>5 DEF fateBar
<1>7. Held(received') = Held(received) \cup {n}
  BY <1>1, <1>2, <1>3, <1>6, AppendHeld
<1>8. ASSUME NEW l \in Lines
      PROVE  fateBar'[l] = IF l = n THEN "delivered" ELSE fateBar[l]
  BY <1>1, <1>7 DEF fateBar
<1>9. fateBar' = [l \in Lines |-> fateBar'[l]] /\ fateBar = [l \in Lines |-> fateBar[l]]
  BY DEF fateBar
<1>10. fateBar' = [fateBar EXCEPT ![n] = "delivered"]
  BY <1>8, <1>9
<1> QED BY <1>3, <1>5, <1>10 DEF Channel!Deliver, n

LEMMA ShipperStep ==
  ASSUME ShipperInv, [LSNext]_lsVars
  PROVE  [Channel!ChNext]_fateBar
<1> USE DEF ShipperInv
<1>1. ASSUME NEW D, D \subseteq Channel!Pending,
             UNCHANGED <<collected, received>>, Gone' = Gone \cup D
      PROVE  Channel!ChNext
  <2>1. Channel!Drop(D) /\ D \in SUBSET Channel!Pending
    BY <1>1, GoneIsDropped
  <2> QED BY <2>1 DEF Channel!ChNext
<1>2. ASSUME UNCHANGED <<collected, received, evicted, lost>>
      PROVE  UNCHANGED fateBar
  BY <1>2 DEF fateBar, Held
<1>3. CASE CollectLine
  BY <1>3, CollectIsCollect DEF Channel!ChNext
<1>4. CASE StartSession \/ UNCHANGED lsVars
  BY <1>2, <1>4 DEF StartSession, ringVars, netVars, lsVars
<1>5. CASE EndSession
  <2>1. /\ session \in Sessions /\ UNCHANGED <<collected, received, evicted>>
        /\ lost' = lost \cup InFlight(session)
    BY <1>5 DEF EndSession, ringVars, InFlight
  <2>2. InFlight(session) \subseteq Channel!Pending
    BY <2>1, InHandPends
  <2>3. Gone' = Gone \cup InFlight(session)
    BY <2>1 DEF Gone
  <2> QED BY <1>1, <2>1, <2>2, <2>3
<1>6. ASSUME NEW s \in Sessions,
             Sender(s) \/ OpenFails(s) \/ Break(s) \/ Notice(s) \/ Receive(s)
      PROVE  Channel!ChNext \/ UNCHANGED fateBar
  <2>1. CASE Open(s) \/ Select(s) \/ Backoff(s) \/ OpenFails(s) \/ Notice(s)
    <3>1. UNCHANGED <<collected, received, evicted, lost>>
      BY <2>1 DEF Open, Select, Backoff, OpenFails, Notice, ringVars, netVars
    <3> QED BY <1>2, <3>1
  <2>2. CASE SendTaken(s)
    <3>1. UNCHANGED <<collected, received, evicted>> /\ step[s] = "send"
      BY <2>2 DEF SendTaken, ringVars
    <3>2. lost' = lost \/ lost' = lost \cup {hold[s]}
      BY <2>2 DEF SendTaken
    <3>3. CASE lost' = lost
      BY <1>2, <3>1, <3>3
    <3>4. CASE lost' = lost \cup {hold[s]}
      <4>1. {hold[s]} = InHold(s)
        BY <3>1 DEF Holding, InHold
      <4>2. {hold[s]} \subseteq Channel!Pending
        BY <4>1, InHandPends
      <4>3. Gone' = Gone \cup {hold[s]}
        BY <3>1, <3>4 DEF Gone
      <4> QED BY <1>1, <3>1, <4>2, <4>3
    <3> QED BY <3>2, <3>3, <3>4
  <2>3. CASE SendFails(s)
    <3>1. /\ UNCHANGED <<collected, received, lost>>
          /\ evicted' = evicted \cup PushFrontEvicts(ring)
      BY <2>3 DEF SendFails, netVars
    <3>2. PushFrontEvicts(ring) \subseteq Held(ring)
      <4>1. ring \in Seq(Lines)
        BY DEF LSTypeOK
      <4>2. Len(ring) \in Nat /\ (Full(ring) => Len(ring) \in 1..Len(ring))
        BY <4>1, LogRingAssumption DEF Full
      <4> QED BY <4>2 DEF PushFrontEvicts, Held
    <3>3. PushFrontEvicts(ring) \subseteq Channel!Pending
      BY <3>2, InHandPends
    <3>4. Gone' = Gone \cup PushFrontEvicts(ring)
      BY <3>1 DEF Gone
    <3> QED BY <1>1, <3>1, <3>3, <3>4
  <2>4. CASE Break(s)
    <3>1. /\ UNCHANGED <<collected, received, evicted>>
          /\ lost' = lost \cup InFlight(s)
      BY <2>4 DEF Break, ringVars, InFlight
    <3>2. InFlight(s) \subseteq Channel!Pending
      BY InHandPends
    <3>3. Gone' = Gone \cup InFlight(s)
      BY <3>1 DEF Gone
    <3> QED BY <1>1, <3>1, <3>2, <3>3
  <2>5. CASE Receive(s)
    BY <2>5, ReceiveIsDeliver DEF Channel!ChNext
  <2> QED BY <1>6, <2>1, <2>2, <2>3, <2>4, <2>5 DEF Sender
<1> QED BY <1>3, <1>4, <1>5, <1>6 DEF LSNext

(* The shipper implements the channel: a line is pending until it is       *)
(* delivered, once, or dropped, and never comes back (logshipper.go).      *)
THEOREM ShipperAlwaysAChannel == LSSpec => ImplementsChannel
<1>1. LSInit => Channel!ChInit
  <2> SUFFICES ASSUME LSInit PROVE Channel!ChInit
    OBVIOUS
  <2>1. Held(received) = {} /\ evicted \cup lost = {} /\ collected = 0
    BY HeldNothing DEF LSInit
  <2>2. \A l \in Lines : ~(l <= 0)
    BY LogShipperAssumption DEF Lines
  <2> QED BY <2>1, <2>2 DEF Channel!ChInit, fateBar
<1> QED BY <1>1, ShipperInvInit, ShipperInvNext, ShipperStep, PTL
        DEF LSSpec, ImplementsChannel, Channel!ChSpec
=============================================================================
