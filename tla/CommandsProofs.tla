---------------------------- MODULE CommandsProofs ----------------------------
(***************************************************************************)
(* What a command goes through, for any set of commands and any number of  *)
(* streams and failures (CommandStream), for pipes of any size and any     *)
(* number of writes (Executor), and for any number of installer scripts    *)
(* beside each other (SelfManage).                                         *)
(*                                                                         *)
(* No two goroutines are inside Send of one stream.  Among commands the    *)
(* mutex sees to it.  The reader identifies itself without the mutex; that *)
(* is sound because no command has come from that stream yet, and a        *)
(* goroutine only ever sends on the stream its command came from.          *)
(*                                                                         *)
(* A command has at most one verdict, and its last message is that.  What  *)
(* it takes is that all its messages are on one stream, which keeps their  *)
(* order, and is lost as a whole when it breaks.                           *)
(*                                                                         *)
(* The answer of a shell has all its output.                               *)
(*                                                                         *)
(* A script that is alone does what its mode says: at each of its steps    *)
(* there is what the steps before it have made, since nobody else acts but *)
(* the finisher, and that only once its upgrade has ended.                 *)
(***************************************************************************)
EXTENDS CommandStream, Executor, SelfManage, TLAPS

-----------------------------------------------------------------------------
(* CommandStream: who sends. *)

Typed ==
  /\ current \in 0..MaxStreams
  /\ reader \in {"identify", "recv"} => current \in Streams
  /\ pc \in [Commands -> Steps]
  /\ on \in [Commands -> 0..MaxStreams]
  /\ down \in [Streams -> Seq(Commands)]

(* A command is under way once at most, and before its goroutine exists.   *)
AllSent == \A s \in Streams : \A i \in 1..Len(down[s]) : pc[down[s][i]] = "sent"
Distinct ==
  \A s, t \in Streams : \A i \in 1..Len(down[s]) : \A j \in 1..Len(down[t]) :
    down[s][i] = down[t][j] => s = t /\ i = j
UnderWay == AllSent /\ Distinct

(* Only the holder of cmdSendMu is inside sendCmd's Send. *)
HolderSends == \A c \in Commands : pc[c] = "sending" => mu = c

(* No command has come from a stream that is not identified yet. *)
OldStreams ==
  \A c \in Commands :
    on[c] <= current /\ (reader = "identify" => on[c] < current)

SendInv == Typed /\ UnderWay /\ HolderSends /\ OldStreams

LEMMA SendInit == Init => SendInv
BY CommandStreamAssumption
DEF Init, SendInv, Typed, UnderWay, AllSent, Distinct, HolderSends, OldStreams, Streams, Steps

(* A step that only drops commands under way keeps the rest in place. *)
Shrinks ==
  /\ down' \in [Streams -> Seq(Commands)]
  /\ \A s \in Streams : \A i \in 1..Len(down'[s]) :
       i \in 1..Len(down[s]) /\ down'[s][i] = down[s][i]

LEMMA FailShrinks ==
  ASSUME Typed, NEW ended, NEW how, Fail(ended, how) PROVE Shrinks
<1>1. down' = [s \in Streams |-> IF s \in ended THEN <<>> ELSE down[s]]
  BY DEF Fail
<1>2. <<>> \in Seq(Commands) /\ \A i \in 1..Len(<<>>) : FALSE
  OBVIOUS
<1> QED BY <1>1, <1>2 DEF Typed, Shrinks

LEMMA ShrinksDistinct ==
  ASSUME UnderWay, Shrinks
  PROVE  \A s, t \in Streams : \A i \in 1..Len(down'[s]) : \A j \in 1..Len(down'[t]) :
           down'[s][i] = down'[t][j] => s = t /\ i = j
<1> SUFFICES ASSUME NEW s \in Streams, NEW t \in Streams,
                    NEW i \in 1..Len(down'[s]), NEW j \in 1..Len(down'[t]),
                    down'[s][i] = down'[t][j]
             PROVE  s = t /\ i = j
  OBVIOUS
<1>1. /\ i \in 1..Len(down[s]) /\ down'[s][i] = down[s][i]
      /\ j \in 1..Len(down[t]) /\ down'[t][j] = down[t][j]
  BY DEF Shrinks
<1>2. down[s][i] = down[t][j]
  BY <1>1
<1>3. Distinct
  BY DEF UnderWay
<1> QED BY <1>1, <1>2, <1>3 DEF Distinct

LEMMA ShrinksUnderWay ==
  ASSUME UnderWay, Shrinks, UNCHANGED pc PROVE UnderWay'
<1>1. \A s \in Streams : \A i \in 1..Len(down'[s]) : pc'[down'[s][i]] = "sent"
  BY DEF UnderWay, AllSent, Distinct, Shrinks
<1> QED BY <1>1, ShrinksDistinct DEF UnderWay, AllSent, Distinct

LEMMA SendStep == SendInv /\ [Next]_vars => SendInv'
<1> SUFFICES ASSUME SendInv, [Next]_vars PROVE SendInv'
  OBVIOUS
<1> USE DEF SendInv
<1> USE CommandStreamAssumption DEF Streams, Steps, readerVars, cmdVars,
        panelVars, netVars
<1>1. CASE Open
  <2>1. /\ UNCHANGED <<mu, pc, on, down>>
        /\ reader' # "recv"
        /\ \/ current' = current /\ reader' # "identify"
           \/ current' = current + 1 /\ current < MaxStreams
    BY <1>1 DEF Open
  <2>2. UnderWay'
    BY <2>1, ShrinksUnderWay DEF Shrinks, Typed
  <2>3. Typed' /\ HolderSends'
    BY <2>1 DEF Typed, HolderSends
  <2>4. OldStreams'
    BY <2>1 DEF OldStreams, Typed
  <2> QED BY <2>2, <2>3, <2>4
<1>2. CASE OpenFails \/ Identify \/ RecvFails \/ ReRegister \/ Backoff
  <2>1. /\ UNCHANGED <<current, mu, pc, on, down>>
        /\ reader' # "identify"
        /\ reader' = "recv" => reader = "identify"
    BY <1>2 DEF OpenFails, Identify, RecvFails, ReRegister, Backoff
  <2>2. UnderWay'
    BY <2>1, ShrinksUnderWay DEF Shrinks, Typed
  <2> QED BY <2>1, <2>2 DEF Typed, HolderSends, OldStreams
<1>3. CASE Recv
  <2> DEFINE c == Head(down[current])
  <2>1. /\ current \in Streams /\ down[current] \in Seq(Commands)
        /\ down[current] # <<>> /\ reader = "recv"
    BY <1>3 DEF Recv, Typed
  <2>2. c \in Commands /\ c = down[current][1] /\ 1 \in 1..Len(down[current])
    BY <2>1
  <2>3. pc[c] = "sent"
    BY <2>1, <2>2 DEF UnderWay, AllSent, Distinct
  <2>4. /\ pc' = [pc EXCEPT ![c] = "tosend"]
        /\ on' = [on EXCEPT ![c] = current]
        /\ down' = [down EXCEPT ![current] = Tail(@)]
        /\ UNCHANGED <<reader, current, mu>>
    BY <1>3 DEF Recv
  <2>5. Typed'
    BY <2>1, <2>2, <2>4 DEF Typed
  <2> DEFINE Old(s, i) == IF s = current THEN i + 1 ELSE i
  <2>6. \A s \in Streams : \A i \in 1..Len(down'[s]) :
          Old(s, i) \in 1..Len(down[s]) /\ down'[s][i] = down[s][Old(s, i)]
    BY <2>1, <2>4 DEF Typed
  <2>7. \A s \in Streams : \A i \in 1..Len(down'[s]) : down'[s][i] # c
    <3> SUFFICES ASSUME NEW s \in Streams, NEW i \in 1..Len(down'[s]),
                        down'[s][i] = c
                 PROVE  FALSE
      OBVIOUS
    <3>1. Distinct
      BY DEF UnderWay
    <3>2. Old(s, i) \in 1..Len(down[s]) /\ down[s][Old(s, i)] = down[current][1]
      BY <2>2, <2>6
    <3>3. s = current /\ Old(s, i) = 1
      <4> HIDE DEF Old
      <4> QED BY <2>1, <2>2, <3>1, <3>2 DEF Distinct
    <3>4. i \in Nat /\ i > 0
      OBVIOUS
    <3> QED BY <3>3, <3>4
  <2>8. UnderWay'
    <3>1. \A s \in Streams : \A i \in 1..Len(down'[s]) :
            down'[s][i] \in Commands
      BY <2>5 DEF Typed
    <3>2. \A s \in Streams : \A i \in 1..Len(down'[s]) :
            pc'[down'[s][i]] = "sent"
      BY <2>4, <2>6, <2>7, <3>1 DEF UnderWay, AllSent, Distinct, Typed
    <3>3. \A s, t \in Streams :
            \A i \in 1..Len(down'[s]) : \A j \in 1..Len(down'[t]) :
              down'[s][i] = down'[t][j] => s = t /\ i = j
      <4> SUFFICES ASSUME NEW s \in Streams, NEW t \in Streams,
                          NEW i \in 1..Len(down'[s]), NEW j \in 1..Len(down'[t]),
                          down'[s][i] = down'[t][j]
                   PROVE  s = t /\ i = j
        OBVIOUS
      <4>1. s = t /\ Old(s, i) = Old(t, j)
        <5> HIDE DEF Old
        <5>1. /\ Old(s, i) \in 1..Len(down[s]) /\ Old(t, j) \in 1..Len(down[t])
              /\ down'[s][i] = down[s][Old(s, i)]
              /\ down'[t][j] = down[t][Old(t, j)]
          BY <2>6, Zenon
        <5>2. down[s][Old(s, i)] = down[t][Old(t, j)]
          BY <5>1
        <5>3. Distinct
          BY DEF UnderWay
        <5> QED BY <5>1, <5>2, <5>3 DEF Distinct
      <4>2. i \in Nat /\ j \in Nat
        OBVIOUS
      <4> QED BY <4>1, <4>2
    <3> QED BY <3>2, <3>3 DEF UnderWay, AllSent, Distinct
  <2>9. HolderSends'
    BY <2>2, <2>4 DEF HolderSends, Typed
  <2>10. OldStreams'
    BY <2>1, <2>2, <2>4 DEF OldStreams, Typed
  <2> QED BY <2>5, <2>8, <2>9, <2>10
<1>4. ASSUME NEW c \in Commands, Execute(c) PROVE SendInv'
  <2>1. pc[c] # "sent" /\ pc[c] # "unsent"
    BY <1>4 DEF Execute, LockSend, SendReturns, Emit, Finish, Acknowledge,
                SignalReconnect
  <2>2. CASE SignalReconnect(c)
    <3>1. pc' = [pc EXCEPT ![c] = "done"] /\ UNCHANGED <<reader, current, on, mu>>
      BY <2>2 DEF SignalReconnect
    <3>2. HolderSends' /\ OldStreams'
      BY <3>1 DEF HolderSends, OldStreams, Typed
    <3>3. UNCHANGED down \/ Fail(Streams, "broken")
      BY <2>2 DEF SignalReconnect
    <3>4. Shrinks
      BY <3>3, FailShrinks DEF Shrinks, Typed
    <3>5. \A s \in Streams : \A i \in 1..Len(down[s]) : down[s][i] # c
      BY <2>1 DEF UnderWay, AllSent, Distinct
    <3>6. Typed'
      BY <3>1, <3>4 DEF Typed, Shrinks
    <3>7. UnderWay'
      <4>1. \A s \in Streams : \A i \in 1..Len(down'[s]) :
              down'[s][i] \in Commands /\ down'[s][i] # c /\ pc[down'[s][i]] = "sent"
        <5> SUFFICES ASSUME NEW s \in Streams, NEW i \in 1..Len(down'[s])
                     PROVE  /\ down'[s][i] \in Commands /\ down'[s][i] # c
                            /\ pc[down'[s][i]] = "sent"
          OBVIOUS
        <5>1. i \in 1..Len(down[s]) /\ down'[s][i] = down[s][i]
          BY <3>4 DEF Shrinks
        <5>2. down[s][i] \in Commands
          <6>1. down[s] \in Seq(Commands)
            BY DEF Typed
          <6> QED BY <5>1, <6>1
        <5>3. pc[down[s][i]] = "sent"
          BY <5>1 DEF UnderWay, AllSent
        <5> QED BY <3>5, <5>1, <5>2, <5>3
      <4>2. \A s \in Streams : \A i \in 1..Len(down'[s]) :
              pc'[down'[s][i]] = "sent"
        BY <3>1, <4>1 DEF Typed
      <4> QED BY <3>4, <4>2, ShrinksDistinct DEF UnderWay, AllSent, Distinct
    <3> QED BY <3>2, <3>6, <3>7
  <2>3. CASE LockSend(c) \/ SendReturns(c) \/ Emit(c) \/ Finish(c) \/ Acknowledge(c)
    <3>1. /\ pc' = [pc EXCEPT ![c] = pc'[c]] /\ pc'[c] \in Steps
          /\ UNCHANGED <<reader, current, on, down>>
      BY <2>3 DEF LockSend, SendReturns, Emit, Finish, Acknowledge, After, Typed
    <3>2. Typed'
      BY <3>1 DEF Typed
    <3>3. UnderWay'
      BY <2>1, <3>1 DEF UnderWay, AllSent, Distinct, Typed
    <3>4. HolderSends'
      BY <2>3 DEF HolderSends, Typed, LockSend, SendReturns, Emit, Finish,
                  Acknowledge, After
    <3>5. OldStreams'
      BY <3>1 DEF OldStreams
    <3> QED BY <3>2, <3>3, <3>4, <3>5
  <2> QED BY <1>4, <2>2, <2>3 DEF Execute
<1>5. ASSUME NEW c \in Commands, NEW s \in Streams, PanelSends(c, s)
      PROVE SendInv'
  <2>1. /\ pc[c] = "unsent"
        /\ pc' = [pc EXCEPT ![c] = "sent"]
        /\ down' = [down EXCEPT ![s] = Append(@, c)]
        /\ UNCHANGED <<reader, current, on, mu>>
    BY <1>5 DEF PanelSends
  <2>2. Typed' /\ HolderSends' /\ OldStreams'
    BY <2>1 DEF Typed, HolderSends, OldStreams
  <2>3. \A t \in Streams : \A i \in 1..Len(down'[t]) :
          \/ i \in 1..Len(down[t]) /\ down'[t][i] = down[t][i] /\ down[t][i] # c
          \/ t = s /\ i = Len(down[s]) + 1 /\ down'[t][i] = c
    <3>1. \A t \in Streams : \A i \in 1..Len(down[t]) : down[t][i] # c
      BY <2>1 DEF UnderWay, AllSent, Distinct
    <3> QED BY <2>1, <3>1 DEF Typed
  <2>4. UnderWay'
    <3>1. \A t \in Streams : \A i \in 1..Len(down'[t]) :
            pc'[down'[t][i]] = "sent"
      BY <2>1, <2>2, <2>3 DEF UnderWay, AllSent, Distinct, Typed
    <3>2. \A t, u \in Streams :
            \A i \in 1..Len(down'[t]) : \A j \in 1..Len(down'[u]) :
              down'[t][i] = down'[u][j] => t = u /\ i = j
      <4> SUFFICES ASSUME NEW t \in Streams, NEW u \in Streams,
                          NEW i \in 1..Len(down'[t]), NEW j \in 1..Len(down'[u]),
                          down'[t][i] = down'[u][j]
                   PROVE  t = u /\ i = j
        OBVIOUS
      <4>1. CASE down'[t][i] = c
        BY <2>3, <4>1
      <4>2. CASE down'[t][i] # c
        <5>1. /\ i \in 1..Len(down[t]) /\ down'[t][i] = down[t][i]
              /\ j \in 1..Len(down[u]) /\ down'[u][j] = down[u][j]
          BY <2>3, <4>2
        <5>2. down[t][i] = down[u][j]
          BY <5>1
        <5>3. Distinct
          BY DEF UnderWay
        <5> QED BY <5>1, <5>2, <5>3 DEF Distinct
      <4> QED BY <4>1, <4>2
    <3> QED BY <3>1, <3>2 DEF UnderWay, AllSent, Distinct
  <2> QED BY <2>2, <2>4
<1>6. CASE SessionLost \/ PanelForgets \/ \E s \in Streams : Break(s)
  <2>1. /\ UNCHANGED <<pc, on, current, reader, mu>>
        /\ \E ended, how : Fail(ended, how)
    BY <1>6 DEF SessionLost, PanelForgets, Break
  <2>2. Shrinks
    BY <2>1, FailShrinks
  <2>3. Typed' /\ UnderWay'
    BY <2>1, <2>2, ShrinksUnderWay DEF Typed, Shrinks
  <2> QED BY <2>1, <2>3 DEF HolderSends, OldStreams
<1>7. ASSUME NEW s \in Streams, PanelReads(s) PROVE SendInv'
  <2>1. /\ UNCHANGED <<pc, on, current, reader, mu>>
        /\ UNCHANGED down \/ \E ended, how : Fail(ended, how)
    BY <1>7 DEF PanelReads
  <2>2. Shrinks
    BY <2>1, FailShrinks DEF Shrinks, Typed
  <2>3. Typed' /\ UnderWay'
    BY <2>1, <2>2, ShrinksUnderWay DEF Typed, Shrinks
  <2> QED BY <2>1, <2>3 DEF HolderSends, OldStreams
<1>8. CASE UNCHANGED vars
  BY <1>8 DEF vars, Typed, UnderWay, AllSent, Distinct, HolderSends, OldStreams
<1> QED BY <1>1, <1>2, <1>3, <1>4, <1>5, <1>6, <1>7, <1>8 DEF Next, Reader

(* No two goroutines are ever inside Send of one command stream. *)
THEOREM SendsNeverConcurrent == Spec => []OneSenderPerStream
<1>1. SendInv => OneSenderPerStream
  BY DEF SendInv, HolderSends, OldStreams, OneSenderPerStream, Senders, Typed
<1> QED BY <1>1, SendInit, SendStep, PTL DEF Spec

-----------------------------------------------------------------------------
(* CommandStream: what is sent. *)

(* The types, in parts that the provers take one at a time.               *)
Numbers == current \in 0..MaxStreams /\ breaks \in 0..MaxBreaks
Switches == cancelled \in BOOLEAN /\ known \in [Streams -> BOOLEAN] /\ registered \in BOOLEAN
Channels ==
  /\ stream \in [Streams -> {"none", "up", "refused", "broken"}]
  /\ down \in [Streams -> Seq(Commands)] /\ up \in [Streams -> Seq(Messages)]
Goroutines ==
  /\ reader \in {"open", "identify", "recv", "reregister", "backoff", "done"}
  /\ mu \in Commands \cup {None}
  /\ pc \in [Commands -> Steps]
  /\ msg \in [Commands -> {"RUNNING"} \cup Verdicts]
  /\ on \in [Commands -> 0..MaxStreams] /\ chunks \in [Commands -> 0..MaxChunks]
Answers == got \in [Commands -> Seq({"RUNNING"} \cup Verdicts)]

LEMMA TypesParts == TypeOK <=> Numbers /\ Switches /\ Channels /\ Goroutines /\ Answers
BY DEF TypeOK, Numbers, Switches, Channels, Goroutines, Answers

LEMMA TypesInit == Init => TypeOK
<1> SUFFICES ASSUME Init PROVE Numbers /\ Switches /\ Channels /\ Goroutines /\ Answers
  BY TypesParts
<1> USE CommandStreamAssumption DEF Init
<1>1. Numbers /\ Goroutines
  BY DEF Numbers, Goroutines, Steps
<1>2. Switches
  BY DEF Switches
<1>3. Channels /\ Answers
  BY DEF Channels, Answers
<1> QED BY <1>1, <1>2, <1>3

LEMMA NumbersStep == Numbers /\ [Next]_vars => Numbers'
<1> SUFFICES ASSUME Numbers, [Next]_vars PROVE Numbers'
  OBVIOUS
<1>1. /\ current' = current \/ (current < MaxStreams /\ current' = current + 1)
      /\ breaks' = breaks \/ (breaks < MaxBreaks /\ breaks' = breaks + 1)
  BY Zenon DEF Next, Reader, Execute, vars, Open, OpenFails, Identify, Recv, RecvFails, ReRegister,
    Backoff, LockSend, SendReturns, Emit, Finish, Acknowledge, SignalReconnect, SessionLost,
    Break, PanelForgets, PanelReads, PanelSends, readerVars, cmdVars, panelVars, netVars
<1> QED BY <1>1, CommandStreamAssumption DEF Numbers

LEMMA SwitchesStep == Switches /\ [Next]_vars => Switches'
<1> SUFFICES ASSUME Switches, [Next]_vars PROVE Switches'
  OBVIOUS
<1>1. /\ cancelled' = cancelled \/ cancelled' = TRUE
      /\ registered' = registered \/ registered' = TRUE \/ registered' = FALSE
      /\ known' = known \/ \E s \in Streams : known' = [known EXCEPT ![s] = TRUE]
  BY Zenon DEF Next, Reader, Execute, vars, Open, OpenFails, Identify, Recv, RecvFails, ReRegister,
    Backoff, LockSend, SendReturns, Emit, Finish, Acknowledge, SignalReconnect, SessionLost,
    Break, PanelForgets, PanelReads, PanelSends, readerVars, cmdVars, panelVars, netVars
<1>2. cancelled' \in BOOLEAN /\ registered' \in BOOLEAN
  BY <1>1, Zenon DEF Switches
<1>3. known' \in [Streams -> BOOLEAN]
  BY <1>1 DEF Switches
<1> QED BY <1>2, <1>3 DEF Switches

LEMMA FailTypes ==
  ASSUME Channels, NEW ended, NEW how \in {"refused", "broken"}, Fail(ended, how)
  PROVE  Channels'
<1>1. <<>> \in Seq(Commands) /\ <<>> \in Seq(Messages)
  OBVIOUS
<1>2. down' = [s \in Streams |-> IF s \in ended THEN <<>> ELSE down[s]]
  BY DEF Fail
<1>3. up' = [s \in Streams |-> IF s \in ended THEN <<>> ELSE up[s]]
  BY DEF Fail
<1>4. stream' = [s \in Streams |->
                  IF s \in ended /\ stream[s] # "none" THEN how ELSE stream[s]]
  BY DEF Fail
<1>5. /\ stream \in [Streams -> {"none", "up", "refused", "broken"}]
      /\ down \in [Streams -> Seq(Commands)]
      /\ up \in [Streams -> Seq(Messages)]
  BY DEF Channels
<1>6. stream' \in [Streams -> {"none", "up", "refused", "broken"}]
  BY <1>4, <1>5
<1>7. down' \in [Streams -> Seq(Commands)]
  BY <1>1, <1>2, <1>5
<1>8. up' \in [Streams -> Seq(Messages)]
  BY <1>1, <1>3, <1>5
<1> QED BY <1>6, <1>7, <1>8 DEF Channels


LEMMA AppendTyped ==
  ASSUME Channels, NEW s, NEW m \in Messages, up' = [up EXCEPT ![s] = Append(@, m)]
  PROVE  up' \in [Streams -> Seq(Messages)]
<1>1. \A t \in Streams : Append(up[t], m) \in Seq(Messages)
  BY DEF Channels
<1> QED BY <1>1 DEF Channels

LEMMA RestStep ==
  ASSUME Channels, Goroutines, Answers, SendInv, [Next]_vars
  PROVE  Channels' /\ Goroutines' /\ Answers'
<1>a. reader \in {"identify", "recv"} => current \in Streams
  BY DEF SendInv, Typed
<1>b. current \in Nat /\ current <= MaxStreams
  BY CommandStreamAssumption DEF SendInv, Typed
<1> USE CommandStreamAssumption DEF readerVars, cmdVars, panelVars, netVars, Steps
<1>1. CASE Open
  BY <1>1, <1>b DEF Open, Channels, Goroutines, Answers, Streams
<1>2. CASE OpenFails \/ RecvFails \/ ReRegister \/ Backoff
  BY <1>2 DEF OpenFails, RecvFails, ReRegister, Backoff, Channels, Goroutines, Answers
<1>3. CASE Identify
  <2>1. Identification \in Messages
    BY DEF Messages
  <2>2. up' = up \/ (current \in Streams /\ up' = [up EXCEPT ![current] = Append(@, Identification)])
    BY <1>3, <1>a DEF Identify
  <2>3. up' \in [Streams -> Seq(Messages)]
    <3>1. CASE up' = up
      BY <3>1 DEF Channels
    <3> QED BY <2>1, <2>2, <3>1, AppendTyped
  <2> QED BY <1>3, <2>3 DEF Identify, Channels, Goroutines, Answers
<1>4. CASE Recv
  <2> DEFINE c == Head(down[current])
  <2>1. current \in Streams /\ down[current] \in Seq(Commands) /\ down[current] # <<>>
    BY <1>4, <1>a DEF Recv, Channels
  <2>2. c \in Commands /\ Tail(down[current]) \in Seq(Commands)
    BY <2>1
  <2>3. /\ pc' = [pc EXCEPT ![c] = "tosend"] /\ on' = [on EXCEPT ![c] = current]
        /\ down' = [down EXCEPT ![current] = Tail(@)]
    BY <1>4 DEF Recv
  <2>4. /\ pc' \in [Commands -> Steps] /\ on' \in [Commands -> 0..MaxStreams]
        /\ down' \in [Streams -> Seq(Commands)]
    BY <1>b, <2>1, <2>2, <2>3 DEF Channels, Goroutines
  <2> QED BY <1>4, <2>4 DEF Recv, Channels, Goroutines, Answers
<1>5. ASSUME NEW c \in Commands, LockSend(c) \/ Emit(c) \/ Finish(c) \/ Acknowledge(c)
      PROVE  Channels' /\ Goroutines' /\ Answers'
  <2>1. /\ UNCHANGED <<reader, on, netVars, got>>
        /\ mu' = mu \/ mu' = c
        /\ \E p \in Steps : pc' = [pc EXCEPT ![c] = p]
        /\ msg' = msg \/ \E v \in {"RUNNING"} \cup Verdicts : msg' = [msg EXCEPT ![c] = v]
    BY <1>5, Zenon DEF LockSend, Emit, Finish, Acknowledge, Verdicts
  <2>2. chunks' = chunks \/ (chunks[c] < MaxChunks /\ chunks' = [chunks EXCEPT ![c] = @ + 1])
    BY <1>5 DEF LockSend, Emit, Finish, Acknowledge
  <2>3. chunks' \in [Commands -> 0..MaxChunks]
    BY <2>2 DEF Goroutines
  <2>4. pc' \in [Commands -> Steps] /\ msg' \in [Commands -> {"RUNNING"} \cup Verdicts]
    BY <2>1 DEF Goroutines
  <2>5. mu' \in Commands \cup {None}
    BY <2>1 DEF Goroutines
  <2> QED BY <2>1, <2>3, <2>4, <2>5 DEF Channels, Goroutines, Answers
<1>6. ASSUME NEW c \in Commands, SendReturns(c) PROVE Channels' /\ Goroutines' /\ Answers'
  <2>1. <<c, msg[c]>> \in Messages
    BY DEF Messages, Goroutines
  <2>2. up' = up \/ up' = [up EXCEPT ![on[c]] = Append(@, <<c, msg[c]>>)]
    BY <1>6 DEF SendReturns
  <2>3. up' \in [Streams -> Seq(Messages)]
    <3>1. CASE up' = up
      BY <3>1 DEF Channels
    <3> QED BY <2>1, <2>2, <3>1, AppendTyped
  <2>4. pc' \in [Commands -> Steps]
    BY <1>6 DEF SendReturns, After, Goroutines
  <2> QED BY <1>6, <2>3, <2>4 DEF SendReturns, Channels, Goroutines, Answers
<1>7. ASSUME NEW c \in Commands, SignalReconnect(c) PROVE Channels' /\ Goroutines' /\ Answers'
  <2>1. UNCHANGED netVars \/ Fail(Streams, "broken")
    BY <1>7 DEF SignalReconnect
  <2>2. Channels'
    BY <2>1, FailTypes DEF Channels
  <2> QED BY <1>7, <2>2 DEF SignalReconnect, Goroutines, Answers
<1>8. ASSUME NEW c \in Commands, NEW s \in Streams, PanelSends(c, s)
      PROVE  Channels' /\ Goroutines' /\ Answers'
  <2>1. down' \in [Streams -> Seq(Commands)]
    BY <1>8 DEF PanelSends, Channels
  <2> QED BY <1>8, <2>1 DEF PanelSends, Channels, Goroutines, Answers
<1>9. ASSUME SessionLost \/ PanelForgets \/ \E s \in Streams : Break(s)
      PROVE  Channels' /\ Goroutines' /\ Answers'
  <2>1. \E ended : Fail(ended, "broken")
    BY <1>9 DEF SessionLost, PanelForgets, Break
  <2>2. Channels'
    BY <2>1, FailTypes
  <2> QED BY <1>9, <2>2 DEF SessionLost, PanelForgets, Break, Goroutines, Answers
<1>10. ASSUME NEW s \in Streams, PanelReads(s) PROVE Channels' /\ Goroutines' /\ Answers'
  <2> DEFINE m == Head(up[s])
  <2>1. m \in Messages /\ Tail(up[s]) \in Seq(Messages)
    BY <1>10 DEF PanelReads, Channels
  <2>2. CASE Fail({s}, "refused") /\ UNCHANGED got
    <3>1. Channels'
      BY <2>2, FailTypes
    <3> QED BY <1>10, <2>2, <3>1 DEF PanelReads, Goroutines, Answers
  <2>3. CASE up' = [up EXCEPT ![s] = Tail(@)] /\ UNCHANGED <<stream, down, got>>
    BY <1>10, <2>1, <2>3 DEF PanelReads, Channels, Goroutines, Answers
  <2>4. CASE /\ m # Identification
             /\ got' = [got EXCEPT ![m[1]] = Append(@, m[2])]
             /\ up' = [up EXCEPT ![s] = Tail(@)]
             /\ UNCHANGED <<stream, down>>
    <3>1. m[1] \in Commands /\ m[2] \in {"RUNNING"} \cup Verdicts
      BY <2>1, <2>4 DEF Messages
    <3>2. got[m[1]] \in Seq({"RUNNING"} \cup Verdicts)
      BY <3>1 DEF Answers
    <3>3. Answers'
      <4> HIDE DEF m
      <4>1. Append(got[m[1]], m[2]) \in Seq({"RUNNING"} \cup Verdicts)
        BY <3>1, <3>2
      <4> QED BY <2>4, <3>1, <4>1 DEF Answers
    <3> QED BY <1>10, <2>1, <2>4, <3>3 DEF PanelReads, Channels, Goroutines
  <2> QED BY <1>10, <2>2, <2>3, <2>4 DEF PanelReads
<1>11. CASE UNCHANGED vars
  BY <1>11 DEF vars, Channels, Goroutines, Answers
<1> QED BY <1>1, <1>2, <1>3, <1>4, <1>5, <1>6, <1>7, <1>8, <1>9, <1>10, <1>11
        DEF Next, Reader, Execute

LEMMA TypesStep == TypeOK /\ SendInv /\ [Next]_vars => TypeOK'
BY TypesParts, NumbersStep, SwitchesStep, RestStep
   DEF TypeOK, Numbers, Switches, Channels, Goroutines, Answers

Started(c) == pc[c] \notin {"unsent", "sent"}
Ended(c) == pc[c] \in {"signal", "done"}
PastFirst(c) ==
  \/ pc[c] \in {"exec", "acknowledge", "signal", "done"}
  \/ Started(c) /\ msg[c] \in Verdicts

(* What is under way to the panel comes from a goroutine that this very    *)
(* stream started, and the stream is up.                                   *)
OnOwnStream ==
  /\ \A c \in Commands : Started(c) => on[c] \in 1..current
  /\ \A s \in Streams : up[s] # <<>> => stream[s] = "up"
  /\ \A s \in Streams : \A i \in 1..Len(up[s]) :
       up[s][i] = Identification \/ (Started(up[s][i][1]) /\ on[up[s][i][1]] = s)

(* A verdict under way is its command's last message, and not its first.   *)
VerdictsLast ==
  \A s \in Streams : \A i \in 1..Len(up[s]) : up[s][i][2] \in Verdicts =>
    /\ Ended(up[s][i][1])
    /\ got[up[s][i][1]] # <<>> \/ \E j \in 1..(i - 1) : up[s][j][1] = up[s][i][1]
    /\ \A j \in 1..Len(up[s]) : up[s][j][1] = up[s][i][1] => j <= i

(* So is one that the panel has: nothing follows it.                       *)
ReceivedLast ==
  \A c \in Commands :
    /\ \A i \in 1..Len(got[c]) : got[c][i] \in Verdicts => i = Len(got[c]) /\ i > 1
    /\ HasVerdict(c) =>
         Ended(c) /\ \A s \in Streams : \A i \in 1..Len(up[s]) : up[s][i][1] # c

(* Who is past its first status has sent it, unless its stream has ended.  *)
SentFirst ==
  \A c \in Commands : PastFirst(c) =>
    \/ got[c] # <<>> \/ stream[on[c]] # "up"
    \/ \E i \in 1..Len(up[on[c]]) : up[on[c]][i][1] = c

VerdictInv == OnOwnStream /\ VerdictsLast /\ ReceivedLast /\ SentFirst

LEMMA MessageKinds ==
  ASSUME NEW m \in Messages
  PROVE  /\ Identification[1] \notin Commands /\ Identification[2] \notin Verdicts
         /\ m # Identification => m[1] \in Commands /\ m[2] \in {"RUNNING"} \cup Verdicts
         /\ m[2] \in Verdicts => m[1] \in Commands
BY CommandStreamAssumption DEF Messages, Identification, Verdicts

LEMMA VerdictInit == Init => VerdictInv
BY CommandStreamAssumption
DEF Init, VerdictInv, OnOwnStream, VerdictsLast, ReceivedLast, SentFirst, Started, Ended,
    PastFirst, HasVerdict

(* What a step leaves of the goroutines' progress. *)
Onward ==
  \A c \in Commands :
    /\ Started(c) => Started(c)' /\ on'[c] = on[c]
    /\ Ended(c) => Ended(c)'
    /\ Started(c)' => on'[c] \in 1..current'

LEMMA OnwardStep == TypeOK /\ SendInv /\ OnOwnStream /\ [Next]_vars => Onward
<1> SUFFICES ASSUME TypeOK, SendInv, OnOwnStream, [Next]_vars PROVE Onward
  OBVIOUS
<1> USE DEF readerVars, cmdVars, panelVars, netVars
<1>1. current' = current \/ current' = current + 1
  BY Zenon DEF Next, Reader, Execute, vars, Open, OpenFails, Identify, Recv, RecvFails,
     ReRegister, Backoff, LockSend, SendReturns, Emit, Finish, Acknowledge, SignalReconnect,
     SessionLost, Break, PanelForgets, PanelReads, PanelSends
<1>2. current \in Nat /\ \A c \in Commands : Started(c) => on[c] \in 1..current'
  BY <1>1, CommandStreamAssumption DEF TypeOK, OnOwnStream
<1>3. CASE Recv
  <2> DEFINE c == Head(down[current])
  <2>1. current \in Streams /\ down[current] \in Seq(Commands) /\ down[current] # <<>>
    BY <1>3 DEF Recv, SendInv, Typed
  <2>2. c \in Commands /\ c = down[current][1] /\ 1 \in 1..Len(down[current])
    BY <2>1
  <2>3. pc[c] = "sent"
    BY <2>1, <2>2 DEF SendInv, UnderWay, AllSent
  <2>4. /\ pc' = [pc EXCEPT ![c] = "tosend"] /\ on' = [on EXCEPT ![c] = current]
        /\ current' = current
    BY <1>3 DEF Recv
  <2> HIDE DEF c
  <2>5. current \in 1..current'
    BY <2>1, <2>4 DEF Streams
  <2>6. on \in [Commands -> 0..MaxStreams] /\ pc \in [Commands -> Steps]
    BY DEF TypeOK
  <2> QED BY <1>2, <2>2, <2>3, <2>4, <2>5, <2>6 DEF Onward, Started, Ended
<1>4. ASSUME NEW c \in Commands, Execute(c) PROVE Onward
  <2>1. /\ Started(c) /\ Started(c)' /\ (Ended(c) => Ended(c)')
        /\ \E p : pc' = [pc EXCEPT ![c] = p]
        /\ UNCHANGED <<on, current>>
    BY <1>4 DEF Execute, LockSend, SendReturns, Emit, Finish, Acknowledge, SignalReconnect,
                After, Started, Ended, TypeOK
  <2> QED BY <1>2, <2>1 DEF Onward, Started, Ended, TypeOK
<1>5. ASSUME NEW c \in Commands, NEW s \in Streams, PanelSends(c, s) PROVE Onward
  <2>1. pc[c] = "unsent" /\ pc' = [pc EXCEPT ![c] = "sent"] /\ UNCHANGED <<on, current>>
    BY <1>5 DEF PanelSends
  <2> QED BY <1>2, <2>1 DEF Onward, Started, Ended, TypeOK
<1>6. CASE UNCHANGED <<pc, on>>
  BY <1>2, <1>6 DEF Onward, Started, Ended
<1> QED BY <1>3, <1>4, <1>5, <1>6, Zenon DEF Next, Reader, vars, Open, OpenFails, Identify,
     RecvFails, ReRegister, Backoff, SessionLost, Break, PanelForgets, PanelReads

(* What Append and Tail leave at each place. *)
LEMMA Appended ==
  ASSUME NEW S, NEW q \in Seq(S), NEW x \in S
  PROVE  /\ Len(q) \in Nat /\ Len(Append(q, x)) = Len(q) + 1
         /\ \A i \in 1..Len(q) : Append(q, x)[i] = q[i]
         /\ Append(q, x)[Len(q) + 1] = x
OBVIOUS

LEMMA Tailed ==
  ASSUME NEW S, NEW q \in Seq(S), q # <<>>
  PROVE  /\ Len(q) \in Nat /\ Len(q) >= 1 /\ Len(Tail(q)) = Len(q) - 1
         /\ \A i \in 1..Len(Tail(q)) : i + 1 \in 1..Len(q) /\ Tail(q)[i] = q[i + 1]
         /\ Head(q) = q[1] /\ q[1] \in S
OBVIOUS

LEMMA MessagesTyped ==
  ASSUME TypeOK, NEW s \in Streams, NEW i \in 1..Len(up[s])
  PROVE  up[s][i] \in Messages
BY DEF TypeOK

(* A step that sends and receives nothing. *)
LEMMA QuietStep ==
  ASSUME TypeOK, VerdictInv, Onward, UNCHANGED <<up, got>>,
         \A c \in Commands : PastFirst(c)' => PastFirst(c),
         \A s \in Streams : stream'[s] # stream[s] => s > current /\ stream'[s] = "up"
  PROVE  VerdictInv'
<1>1. \A s \in Streams : \A i \in 1..Len(up[s]) :
        up[s][i] # Identification => up[s][i][1] \in Commands
  BY MessageKinds, MessagesTyped
<1>2. \A s \in Streams : \A i \in 1..Len(up[s]) :
        up[s][i][2] \in Verdicts => up[s][i][1] \in Commands
  BY MessageKinds, MessagesTyped
<1>3. current \in Nat
  BY CommandStreamAssumption DEF TypeOK
<1>4. OnOwnStream'
  BY <1>1, <1>3 DEF VerdictInv, OnOwnStream, Onward
<1>5. VerdictsLast'
  BY <1>2 DEF VerdictInv, VerdictsLast, Onward
<1>6. ReceivedLast'
  BY DEF VerdictInv, ReceivedLast, HasVerdict, Onward
<1>7. SentFirst'
  <2> SUFFICES ASSUME NEW c \in Commands, PastFirst(c)'
               PROVE  \/ got[c] # <<>> \/ stream'[on'[c]] # "up"
                      \/ \E i \in 1..Len(up[on'[c]]) : up[on'[c]][i][1] = c
    BY DEF SentFirst
  <2>1. PastFirst(c) /\ Started(c)
    BY DEF PastFirst, Started
  <2>2. on'[c] = on[c] /\ on[c] \in 1..current /\ on[c] \in Streams
    BY <2>1, <1>3 DEF Onward, VerdictInv, OnOwnStream, TypeOK, Streams
  <2>3. stream'[on[c]] = stream[on[c]]
    BY <2>2, <1>3
  <2> QED BY <2>1, <2>2, <2>3 DEF VerdictInv, SentFirst
<1> QED BY <1>4, <1>5, <1>6, <1>7 DEF VerdictInv

(* A step with which streams end. *)
LEMMA EndingStep ==
  ASSUME TypeOK, VerdictInv, Onward, UNCHANGED got,
         NEW ended, NEW how \in {"broken", "refused"}, Fail(ended, how),
         \A c \in Commands : PastFirst(c)' => PastFirst(c)
  PROVE  VerdictInv'
<1>1. \A s \in Streams :
        \/ up'[s] = up[s] /\ stream'[s] = stream[s]
        \/ up'[s] = <<>> /\ stream'[s] # "up"
  BY DEF Fail
<1>2. \A s \in Streams : \A i \in 1..Len(up'[s]) :
        up'[s] = up[s] /\ stream'[s] = stream[s]
  BY <1>1
<1>3. \A s \in Streams : \A i \in 1..Len(up[s]) :
        /\ up[s][i] # Identification => up[s][i][1] \in Commands
        /\ up[s][i][2] \in Verdicts => up[s][i][1] \in Commands
  BY MessageKinds, MessagesTyped
<1>4. OnOwnStream'
  <2>1. \A c \in Commands : Started(c)' => on'[c] \in 1..current'
    BY DEF Onward
  <2>2. \A s \in Streams : up'[s] # <<>> => stream'[s] = "up"
    BY <1>1 DEF VerdictInv, OnOwnStream
  <2>3. ASSUME NEW s \in Streams, NEW i \in 1..Len(up'[s])
        PROVE  (up[s][i] = Identification \/ (Started(up[s][i][1]) /\ on[up[s][i][1]] = s))'
    <3>1. up'[s] = up[s] /\ i \in 1..Len(up[s])
      BY <1>2
    <3> QED BY <3>1, <1>3 DEF VerdictInv, OnOwnStream, Onward, Started
  <2> QED BY <2>1, <2>2, <2>3 DEF OnOwnStream
<1>5. VerdictsLast'
  <2> SUFFICES ASSUME NEW s \in Streams, NEW i \in 1..Len(up'[s]), up'[s][i][2] \in Verdicts
               PROVE  (/\ Ended(up[s][i][1])
                       /\ got[up[s][i][1]] # <<>>
                            \/ \E j \in 1..(i - 1) : up[s][j][1] = up[s][i][1]
                       /\ \A j \in 1..Len(up[s]) : up[s][j][1] = up[s][i][1] => j <= i)'
    BY DEF VerdictsLast
  <2>1. up'[s] = up[s] /\ i \in 1..Len(up[s]) /\ up[s][i][1] \in Commands
    BY <1>2, <1>3
  <2> QED BY <2>1 DEF VerdictInv, VerdictsLast, Onward, Ended
<1>6. ReceivedLast'
  BY <1>2 DEF VerdictInv, ReceivedLast, HasVerdict, Onward
<1>7. SentFirst'
  <2> SUFFICES ASSUME NEW c \in Commands, PastFirst(c)'
               PROVE  \/ got[c] # <<>> \/ stream'[on'[c]] # "up"
                      \/ \E i \in 1..Len(up'[on'[c]]) : up'[on'[c]][i][1] = c
    BY DEF SentFirst
  <2>1. PastFirst(c) /\ Started(c)
    BY DEF PastFirst, Started
  <2>2. on'[c] = on[c] /\ on[c] \in Streams
    BY <2>1, CommandStreamAssumption DEF Onward, VerdictInv, OnOwnStream, TypeOK, Streams
  <2> QED BY <1>1, <2>1, <2>2 DEF VerdictInv, SentFirst
<1> QED BY <1>4, <1>5, <1>6, <1>7 DEF VerdictInv

(* Who is at work has sent no verdict yet. *)
LEMMA NoVerdictYet ==
  ASSUME TypeOK, VerdictInv, NEW c \in Commands, ~Ended(c)
  PROVE  /\ ~HasVerdict(c)
         /\ \A s \in Streams : \A i \in 1..Len(up[s]) :
              up[s][i][1] = c => up[s][i][2] \notin Verdicts
BY DEF VerdictInv, ReceivedLast, VerdictsLast

LEMMA IdentifyStep ==
  ASSUME TypeOK, SendInv, VerdictInv, Onward, Identify PROVE VerdictInv'
<1>0. UNCHANGED <<pc, msg, on, got, current, stream>>
  BY DEF Identify, cmdVars, panelVars
<1>1. CASE UNCHANGED up
  BY <1>0, <1>1, QuietStep DEF PastFirst, Started
<1>2. CASE stream[current] = "up" /\ up' = [up EXCEPT ![current] = Append(@, Identification)]
  <2>1. /\ Identification[1] \notin Commands /\ Identification[2] \notin Verdicts
        /\ \A s \in Streams : \A i \in 1..Len(up[s]) :
             up[s][i][2] \in Verdicts => up[s][i][1] \in Commands
    BY MessageKinds, MessagesTyped DEF Messages
  <2> DEFINE id == Identification
  <2>2. /\ \A s \in Streams : \A i \in 1..Len(up'[s]) :
             \/ i \in 1..Len(up[s]) /\ up'[s][i] = up[s][i]
             \/ up'[s][i] = id /\ s = current
        /\ \A s \in Streams : Len(up[s]) \in Nat /\ Len(up'[s]) \in Nat /\ Len(up'[s]) >= Len(up[s])
        /\ \A s \in Streams : \A i \in 1..Len(up[s]) : up'[s][i] = up[s][i]
    BY <1>2 DEF TypeOK
  <2>3. \A s \in Streams : up'[s] # <<>> => stream[s] = "up"
    BY <1>2 DEF VerdictInv, OnOwnStream, TypeOK
  <2>4. OnOwnStream'
    BY <1>0, <2>2, <2>3 DEF VerdictInv, OnOwnStream, Started
  <2> HIDE DEF id
  <2>5. id[1] \notin Commands /\ id[2] \notin Verdicts
    BY <2>1 DEF id
  <2>6. VerdictsLast'
    <3> SUFFICES ASSUME NEW s \in Streams, NEW i \in 1..Len(up'[s]), up'[s][i][2] \in Verdicts
                 PROVE  (/\ Ended(up[s][i][1])
                         /\ got[up[s][i][1]] # <<>>
                              \/ \E j \in 1..(i - 1) : up[s][j][1] = up[s][i][1]
                         /\ \A j \in 1..Len(up[s]) : up[s][j][1] = up[s][i][1] => j <= i)'
      BY DEF VerdictsLast
    <3>1. i \in 1..Len(up[s]) /\ up'[s][i] = up[s][i] /\ up[s][i][1] \in Commands
      BY <2>1, <2>2, <2>5
    <3>2. /\ Ended(up[s][i][1])
          /\ got[up[s][i][1]] # <<>> \/ \E j \in 1..(i - 1) : up[s][j][1] = up[s][i][1]
          /\ \A j \in 1..Len(up[s]) : up[s][j][1] = up[s][i][1] => j <= i
      BY <3>1 DEF VerdictInv, VerdictsLast
    <3>3. got[up[s][i][1]] # <<>> \/ \E j \in 1..(i - 1) : up'[s][j][1] = up[s][i][1]
      BY <2>2, <3>1, <3>2
    <3>4. \A j \in 1..Len(up'[s]) : up'[s][j][1] = up[s][i][1] => j <= i
      BY <2>2, <2>5, <3>1, <3>2
    <3> QED BY <1>0, <3>1, <3>2, <3>3, <3>4 DEF Ended
  <2>7. ReceivedLast'
    BY <1>0, <2>2, <2>5 DEF VerdictInv, ReceivedLast, HasVerdict, Ended
  <2>8. \A c \in Commands : PastFirst(c) => on[c] \in Streams
    BY CommandStreamAssumption DEF VerdictInv, OnOwnStream, TypeOK, Streams, PastFirst, Started
  <2>9. SentFirst'
    BY <1>0, <2>2, <2>8 DEF VerdictInv, SentFirst, PastFirst, Started
  <2> QED BY <2>4, <2>6, <2>7, <2>9 DEF VerdictInv
<1> QED BY <1>1, <1>2 DEF Identify

LEMMA SendReturnsStep ==
  ASSUME TypeOK, VerdictInv, Onward, NEW c \in Commands, SendReturns(c) PROVE VerdictInv'
<1> DEFINE m == <<c, msg[c]>>
<1>0. /\ UNCHANGED <<msg, on, got, current, stream>> /\ pc[c] = "sending"
      /\ pc' = [pc EXCEPT ![c] = After(c)]
      /\ ~Ended(c) /\ Started(c)
  BY DEF SendReturns, Ended, Started, readerVars, panelVars
<1>1. /\ msg[c] \in Verdicts => Ended(c)'
      /\ \A d \in Commands : d # c => (PastFirst(d)' <=> PastFirst(d))
  BY <1>0 DEF After, Ended, PastFirst, Started, TypeOK
<1>2. on[c] \in Streams /\ on[c] \in 1..current
  BY <1>0, CommandStreamAssumption DEF VerdictInv, OnOwnStream, TypeOK, Streams
<1>3. m[1] = c /\ m[2] = msg[c] /\ m # Identification
  BY CommandStreamAssumption DEF Identification
<1>4. CASE stream[on[c]] # "up" /\ UNCHANGED up
  <2>1. OnOwnStream' /\ VerdictsLast' /\ ReceivedLast'
    <3>1. \A s \in Streams : \A i \in 1..Len(up[s]) :
             /\ up[s][i] # Identification => up[s][i][1] \in Commands
             /\ up[s][i][2] \in Verdicts => up[s][i][1] \in Commands
      BY MessageKinds, MessagesTyped
    <3> QED BY <1>0, <1>4, <3>1
            DEF VerdictInv, OnOwnStream, VerdictsLast, ReceivedLast, HasVerdict, Onward
  <2>2. SentFirst'
    BY <1>0, <1>1, <1>4 DEF VerdictInv, SentFirst
  <2> QED BY <2>1, <2>2 DEF VerdictInv
<1>5. CASE stream[on[c]] = "up" /\ up' = [up EXCEPT ![on[c]] = Append(@, m)]
  <2> DEFINE t == on[c]
  <2>1. \A s \in Streams : \A i \in 1..Len(up[s]) :
             /\ up[s][i] # Identification => up[s][i][1] \in Commands
             /\ up[s][i][2] \in Verdicts => up[s][i][1] \in Commands
    BY MessageKinds, MessagesTyped
  <2>2. /\ \A s \in Streams : \A i \in 1..Len(up'[s]) :
             \/ i \in 1..Len(up[s]) /\ up'[s][i] = up[s][i]
             \/ up'[s][i] = m /\ s = t /\ i = Len(up[s]) + 1
        /\ \A s \in Streams : Len(up[s]) \in Nat /\ Len(up'[s]) \in Nat /\ Len(up'[s]) >= Len(up[s])
        /\ \A s \in Streams : \A i \in 1..Len(up[s]) : up'[s][i] = up[s][i]
        /\ Len(up'[t]) = Len(up[t]) + 1 /\ up'[t][Len(up[t]) + 1] = m
    <3>1. m \in Messages
      BY DEF TypeOK, Messages
    <3> HIDE DEF m
    <3>2. up'[t] = Append(up[t], m) /\ \A s \in Streams : s # t => up'[s] = up[s]
      BY <1>2, <1>5 DEF TypeOK
    <3>3. \A s \in Streams : up[s] \in Seq(Messages)
      BY DEF TypeOK
    <3>4. t \in Streams
      BY <1>2
    <3> HIDE DEF t
    <3>5. /\ Len(up[t]) \in Nat /\ Len(up'[t]) = Len(up[t]) + 1
          /\ \A i \in 1..Len(up[t]) : up'[t][i] = up[t][i]
          /\ up'[t][Len(up[t]) + 1] = m
      BY <3>1, <3>2, <3>3, <3>4, Appended
    <3>6. \A u \in Streams : Len(up[u]) \in Nat
      BY <3>3
    <3>7. ASSUME NEW s \in Streams, NEW i \in 1..Len(up'[s])
          PROVE  \/ i \in 1..Len(up[s]) /\ up'[s][i] = up[s][i]
                 \/ up'[s][i] = m /\ s = t /\ i = Len(up[s]) + 1
      <4>1. CASE s = t
        <5>1. i \in 1..(Len(up[t]) + 1)
          BY <3>5, <4>1
        <5>2. i \in 1..Len(up[t]) \/ i = Len(up[t]) + 1
          BY <3>5, <5>1
        <5> QED BY <3>5, <4>1, <5>2
      <4>2. CASE s # t
        BY <3>2, <4>2
      <4> QED BY <4>1, <4>2
    <3>8. \A s \in Streams : Len(up'[s]) \in Nat /\ Len(up'[s]) >= Len(up[s])
      <4>1. \A s \in Streams : s # t => Len(up'[s]) = Len(up[s])
        BY <3>2
      <4> QED BY <3>5, <3>6, <4>1
    <3>9. \A s \in Streams : \A i \in 1..Len(up[s]) : up'[s][i] = up[s][i]
      BY <3>2, <3>5
    <3> QED BY <3>5, <3>6, <3>7, <3>8, <3>9
  <2>3. \A s \in Streams : up'[s] # <<>> => stream[s] = "up"
    BY <1>2, <1>5 DEF VerdictInv, OnOwnStream, TypeOK
  <2>4. OnOwnStream'
    BY <1>0, <1>3, <2>1, <2>2, <2>3 DEF VerdictInv, OnOwnStream, Onward
  <2> HIDE DEF m
  <2>5. /\ ~HasVerdict(c)
        /\ \A s \in Streams : \A i \in 1..Len(up[s]) :
             up[s][i][1] = c => up[s][i][2] \notin Verdicts
    BY <1>0, NoVerdictYet
  <2>6. msg[c] \in Verdicts =>
          got[c] # <<>> \/ \E i \in 1..Len(up[t]) : up[t][i][1] = c
    BY <1>0, <1>5 DEF VerdictInv, SentFirst, PastFirst
  <2>7. VerdictsLast'
    <3> SUFFICES ASSUME NEW s \in Streams, NEW i \in 1..Len(up'[s]), up'[s][i][2] \in Verdicts
                 PROVE  (/\ Ended(up[s][i][1])
                         /\ got[up[s][i][1]] # <<>>
                              \/ \E j \in 1..(i - 1) : up[s][j][1] = up[s][i][1]
                         /\ \A j \in 1..Len(up[s]) : up[s][j][1] = up[s][i][1] => j <= i)'
      BY DEF VerdictsLast
    <3>1. CASE i \in 1..Len(up[s]) /\ up'[s][i] = up[s][i]
      <4>1. up[s][i][1] \in Commands /\ up[s][i][1] # c
        BY <2>1, <2>5, <3>1
      <4>2. /\ Ended(up[s][i][1])
            /\ got[up[s][i][1]] # <<>> \/ \E j \in 1..(i - 1) : up[s][j][1] = up[s][i][1]
            /\ \A j \in 1..Len(up[s]) : up[s][j][1] = up[s][i][1] => j <= i
        BY <3>1 DEF VerdictInv, VerdictsLast
      <4>3. Ended(up[s][i][1])'
        BY <3>1, <4>1, <4>2 DEF Onward, Ended
      <4>4. got'[up'[s][i][1]] # <<>> \/ \E j \in 1..(i - 1) : up'[s][j][1] = up'[s][i][1]
        BY <1>0, <2>2, <3>1, <4>2
      <4>5. \A j \in 1..Len(up'[s]) : up'[s][j][1] = up'[s][i][1] => j <= i
        BY <1>3, <2>2, <3>1, <4>1, <4>2
      <4> QED BY <4>3, <4>4, <4>5
    <3>2. CASE up'[s][i] = m /\ s = t /\ i = Len(up[s]) + 1
      <4>1. up'[s][i][1] = c /\ msg[c] \in Verdicts
        BY <1>3, <3>2
      <4>2. got[c] # <<>> \/ \E j \in 1..(i - 1) : up'[s][j][1] = c
        <5>1. CASE got[c] # <<>>
          BY <5>1
        <5>2. CASE \E j \in 1..Len(up[t]) : up[t][j][1] = c
          <6>1. PICK j \in 1..Len(up[t]) : up[t][j][1] = c
            BY <5>2
          <6>2. j \in 1..(i - 1) /\ up'[s][j][1] = c
            BY <1>2, <2>2, <3>2, <6>1
          <6> QED BY <6>2
        <5> QED BY <2>6, <4>1, <5>1, <5>2
      <4>3. \A j \in 1..Len(up'[s]) : j <= i
        BY <2>2, <3>2
      <4> QED BY <1>0, <1>1, <4>1, <4>2, <4>3 DEF Ended
    <3> QED BY <2>2, <3>1, <3>2
  <2>8. ReceivedLast'
    <3> SUFFICES ASSUME NEW d \in Commands
                 PROVE  (/\ \A i \in 1..Len(got[d]) : got[d][i] \in Verdicts => i = Len(got[d]) /\ i > 1
                         /\ HasVerdict(d) => Ended(d) /\
                              \A s \in Streams : \A i \in 1..Len(up[s]) : up[s][i][1] # d)'
      BY DEF ReceivedLast
    <3>1. HasVerdict(d)' <=> HasVerdict(d)
      BY <1>0 DEF HasVerdict
    <3>2. HasVerdict(d) => \A s \in Streams : \A i \in 1..Len(up'[s]) : up'[s][i][1] # d
      BY <1>3, <2>2, <2>5 DEF VerdictInv, ReceivedLast
    <3> QED BY <1>0, <3>1, <3>2 DEF VerdictInv, ReceivedLast, Onward
  <2>9. SentFirst'
    <3>1. \A d \in Commands : PastFirst(d) => on[d] \in Streams
      BY CommandStreamAssumption DEF VerdictInv, OnOwnStream, TypeOK, Streams, PastFirst, Started
    <3>2. \E i \in 1..Len(up'[t]) : up'[t][i][1] = c
      BY <1>3, <2>2, <1>2
    <3> SUFFICES ASSUME NEW d \in Commands, PastFirst(d)', d # c
                 PROVE  (\/ got[d] # <<>> \/ stream[on[d]] # "up"
                         \/ \E i \in 1..Len(up[on[d]]) : up[on[d]][i][1] = d)'
      BY <1>0, <3>2 DEF SentFirst
    <3>3. on[d] \in Streams
      BY <1>1, <3>1
    <3> QED BY <1>0, <1>1, <2>2, <3>3 DEF VerdictInv, SentFirst
  <2> QED BY <2>4, <2>7, <2>8, <2>9 DEF VerdictInv
<1> QED BY <1>4, <1>5 DEF SendReturns

LEMMA PanelReadsStep ==
  ASSUME TypeOK, VerdictInv, Onward, NEW s \in Streams, PanelReads(s) PROVE VerdictInv'
<1> DEFINE m == Head(up[s])
<1>0. /\ UNCHANGED <<pc, msg, on, current>>
      /\ up[s] \in Seq(Messages) /\ up[s] # <<>> /\ m = up[s][1] /\ 1 \in 1..Len(up[s])
      /\ m \in Messages
  BY DEF PanelReads, TypeOK, cmdVars, readerVars
<1>1. CASE Fail({s}, "refused") /\ UNCHANGED got
  BY <1>0, <1>1, EndingStep DEF PastFirst, Started
<1>2. CASE /\ up' = [up EXCEPT ![s] = Tail(@)] /\ UNCHANGED stream
           /\ \/ UNCHANGED got /\ m = Identification
              \/ m # Identification /\ got' = [got EXCEPT ![m[1]] = Append(@, m[2])]
  <2> DEFINE Old(t, i) == IF t = s THEN i + 1 ELSE i
  <2>1. /\ \A t \in Streams : Len(up[t]) \in Nat /\ Len(up'[t]) \in Nat
        /\ \A t \in Streams : \A i \in 1..Len(up'[t]) :
             Old(t, i) \in 1..Len(up[t]) /\ up'[t][i] = up[t][Old(t, i)]
        /\ \A t \in Streams : \A i \in 1..Len(up[t]) :
             \/ t = s /\ i = 1
             \/ \E j \in 1..Len(up'[t]) : i = Old(t, j)
    <3>1. /\ \A t \in Streams : Len(up[t]) \in Nat
          /\ up'[s] = Tail(up[s]) /\ \A t \in Streams : t # s => up'[t] = up[t]
      BY <1>2 DEF TypeOK
    <3>2. /\ Len(up[s]) >= 1 /\ Len(Tail(up[s])) = Len(up[s]) - 1
          /\ \A i \in 1..Len(Tail(up[s])) :
               i + 1 \in 1..Len(up[s]) /\ Tail(up[s])[i] = up[s][i + 1]
      BY <1>0, Tailed
    <3>3. /\ \A t \in Streams : Len(up'[t]) \in Nat
          /\ \A t \in Streams : \A i \in 1..Len(up'[t]) :
               Old(t, i) \in 1..Len(up[t]) /\ up'[t][i] = up[t][Old(t, i)]
      <4>1. Len(up'[s]) = Len(up[s]) - 1 /\ Len(up'[s]) \in Nat
        BY <3>1, <3>2
      <4>2. \A t \in Streams : t # s => Len(up'[t]) = Len(up[t])
        BY <3>1
      <4>3. \A i \in 1..Len(up'[s]) : i + 1 \in 1..Len(up[s]) /\ up'[s][i] = up[s][i + 1]
        BY <3>1, <3>2
      <4> QED BY <3>1, <4>1, <4>2, <4>3
    <3>4. ASSUME NEW t \in Streams, NEW i \in 1..Len(up[t]), ~(t = s /\ i = 1)
          PROVE  \E j \in 1..Len(up'[t]) : i = Old(t, j)
      <4>1. CASE t = s
        <5>1. i - 1 \in 1..Len(up'[t]) /\ i = Old(t, i - 1)
          <6>1. Len(up'[s]) = Len(up[s]) - 1 /\ Len(up[s]) \in Nat
            BY <3>1, <3>2
          <6>2. i \in 1..Len(up[s]) /\ i # 1
            BY <3>4, <4>1
          <6>3. i - 1 \in 1..Len(up'[s])
            BY <6>1, <6>2
          <6> QED BY <4>1, <6>2, <6>3
        <5> QED BY <5>1
      <4>2. CASE t # s
        BY <3>1, <4>2
      <4> QED BY <4>1, <4>2
    <3> QED BY <3>1, <3>3, <3>4
  <2>2. \A t \in Streams : \A i \in 1..Len(up[t]) :
             /\ up[t][i] # Identification => up[t][i][1] \in Commands
             /\ up[t][i][2] \in Verdicts => up[t][i][1] \in Commands
    BY MessageKinds, MessagesTyped
  <2>3. OnOwnStream'
    <3>1. \A t \in Streams : up'[t] # <<>> => stream[t] = "up"
      BY <1>0, <1>2 DEF VerdictInv, OnOwnStream, TypeOK
    <3>2. ASSUME NEW t \in Streams, NEW i \in 1..Len(up'[t])
          PROVE  (up[t][i] = Identification \/ (Started(up[t][i][1]) /\ on[up[t][i][1]] = t))'
      <4> HIDE DEF Old
      <4>1. Old(t, i) \in 1..Len(up[t]) /\ up'[t][i] = up[t][Old(t, i)]
        BY <2>1
      <4> QED BY <1>0, <4>1 DEF VerdictInv, OnOwnStream, Started
    <3> QED BY <1>0, <1>2, <3>1, <3>2 DEF VerdictInv, OnOwnStream, Started
  <2>4. \/ UNCHANGED got /\ m = Identification
        \/ /\ m # Identification /\ m[1] \in Commands /\ m[2] \in {"RUNNING"} \cup Verdicts
           /\ got' = [got EXCEPT ![m[1]] = Append(@, m[2])]
    BY <1>0, <1>2, MessageKinds
  <2>5. Identification[1] \notin Commands /\ Identification[2] \notin Verdicts
    BY <1>0, MessageKinds
  <2> HIDE DEF Old, m
  <2>6. /\ m[1] \in Commands => got'[m[1]] = Append(got[m[1]], m[2])
        /\ \A c \in Commands : c # m[1] => got'[c] = got[c]
        /\ \A c \in Commands : got[c] \in Seq({"RUNNING"} \cup Verdicts)
    BY <2>4, <2>5 DEF TypeOK
  <2>7. \A c \in Commands : c = m[1] \/ got[c] # <<>> => got'[c] # <<>>
    <3>1. \A c \in Commands : c = m[1] => Len(got'[c]) = Len(got[c]) + 1 /\ Len(got[c]) \in Nat
      BY <2>4, <2>5, <2>6, Appended
    <3> QED BY <2>6, <3>1
  <2>8. VerdictsLast'
    <3> SUFFICES ASSUME NEW t \in Streams, NEW i \in 1..Len(up'[t]), up'[t][i][2] \in Verdicts
                 PROVE  (/\ Ended(up[t][i][1])
                         /\ got[up[t][i][1]] # <<>>
                              \/ \E j \in 1..(i - 1) : up[t][j][1] = up[t][i][1]
                         /\ \A j \in 1..Len(up[t]) : up[t][j][1] = up[t][i][1] => j <= i)'
      BY DEF VerdictsLast
    <3> DEFINE k == Old(t, i)
               c == up[t][k][1]
    <3>1. k \in 1..Len(up[t]) /\ up'[t][i] = up[t][k] /\ c \in Commands
      BY <2>1, <2>2
    <3>2. /\ Ended(c)
          /\ got[c] # <<>> \/ \E j \in 1..(k - 1) : up[t][j][1] = c
          /\ \A j \in 1..Len(up[t]) : up[t][j][1] = c => j <= k
      BY <3>1 DEF VerdictInv, VerdictsLast
    <3> HIDE DEF c
    <3>3. got'[c] # <<>> \/ \E j \in 1..(i - 1) : up'[t][j][1] = c
      <4>1. CASE got[c] # <<>>
        BY <2>7, <3>1, <4>1
      <4>2. CASE \E j \in 1..(k - 1) : up[t][j][1] = c
        <5>1. PICK j \in 1..(k - 1) : up[t][j][1] = c
          BY <4>2
        <5>2. j \in 1..Len(up[t]) /\ i \in Nat
          BY <2>1, <3>1
        <5>3. CASE t = s /\ j = 1
          BY <1>0, <2>7, <3>1, <5>1, <5>3 DEF m
        <5>4. CASE ~(t = s /\ j = 1)
          <6>1. PICK l \in 1..Len(up'[t]) : j = Old(t, l)
            BY <2>1, <5>2, <5>4
          <6>2. up'[t][l][1] = c
            BY <2>1, <5>1, <6>1
          <6>3. i \in Nat /\ l \in Nat /\ l >= 1 /\ j <= k - 1 /\ j \in Nat
            BY <2>1, <5>1
          <6>4. l \in 1..(i - 1)
            BY <6>1, <6>3 DEF Old
          <6> QED BY <6>2, <6>4
        <5> QED BY <5>3, <5>4
      <4> QED BY <3>2, <4>1, <4>2
    <3>4. \A j \in 1..Len(up'[t]) : up'[t][j][1] = c => j <= i
      <4> SUFFICES ASSUME NEW j \in 1..Len(up'[t]), up'[t][j][1] = c PROVE j <= i
        OBVIOUS
      <4>1. Old(t, j) \in 1..Len(up[t]) /\ up[t][Old(t, j)][1] = c
        BY <2>1
      <4>2. Old(t, j) <= k
        BY <3>2, <4>1
      <4>3. i \in Nat /\ j \in Nat
        OBVIOUS
      <4> QED BY <4>2, <4>3 DEF Old
    <3> QED BY <1>0, <3>1, <3>2, <3>3, <3>4 DEF Ended, c
  <2>9. ReceivedLast'
    <3> SUFFICES ASSUME NEW c \in Commands
                 PROVE  (/\ \A i \in 1..Len(got[c]) : got[c][i] \in Verdicts => i = Len(got[c]) /\ i > 1
                         /\ HasVerdict(c) => Ended(c) /\
                              \A t \in Streams : \A i \in 1..Len(up[t]) : up[t][i][1] # c)'
      BY DEF ReceivedLast
    <3>1. CASE c # m[1]
      <4>1. got'[c] = got[c]
        BY <2>6, <3>1
      <4>2. HasVerdict(c) => \A t \in Streams : \A i \in 1..Len(up'[t]) : up'[t][i][1] # c
        BY <2>1 DEF VerdictInv, ReceivedLast
      <4> QED BY <1>0, <4>1, <4>2 DEF VerdictInv, ReceivedLast, HasVerdict, Ended
    <3>2. CASE c = m[1]
      <4>1. m = up[s][1] /\ m # Identification /\ m[2] \in {"RUNNING"} \cup Verdicts
        BY <1>0, <2>4, <2>5, <3>2 DEF m
      <4>2. ~HasVerdict(c) /\ on[c] = s
        BY <1>0, <3>2, <4>1 DEF VerdictInv, ReceivedLast, OnOwnStream
      <4>3. /\ Len(got[c]) \in Nat /\ Len(got'[c]) = Len(got[c]) + 1
            /\ \A i \in 1..Len(got[c]) : got'[c][i] = got[c][i] /\ got[c][i] \notin Verdicts
            /\ got'[c][Len(got[c]) + 1] = m[2]
        BY <2>6, <3>2, <4>1, <4>2, Appended DEF HasVerdict
      <4>4. CASE m[2] \notin Verdicts
        <5>1. \A i \in 1..Len(got'[c]) : got'[c][i] \notin Verdicts
          <6> SUFFICES ASSUME NEW i \in 1..Len(got'[c]) PROVE got'[c][i] \notin Verdicts
            OBVIOUS
          <6>1. i \in 1..Len(got[c]) \/ i = Len(got[c]) + 1
            BY <4>3
          <6> QED BY <4>3, <4>4, <6>1
        <5> QED BY <5>1 DEF HasVerdict
      <4>5. CASE m[2] \in Verdicts
        <5>1. /\ Ended(c) /\ got[c] # <<>>
              /\ \A j \in 1..Len(up[s]) : up[s][j][1] = c => j <= 1
          BY <1>0, <3>2, <4>1, <4>5 DEF VerdictInv, VerdictsLast
        <5>2. Len(got[c]) >= 1
          BY <2>6, <4>3, <5>1
        <5>3. \A t \in Streams : \A i \in 1..Len(up'[t]) : up'[t][i][1] # c
          <6> SUFFICES ASSUME NEW t \in Streams, NEW i \in 1..Len(up'[t]), up'[t][i][1] = c
                       PROVE  FALSE
            OBVIOUS
          <6>1. Old(t, i) \in 1..Len(up[t]) /\ up[t][Old(t, i)][1] = c
            BY <2>1
          <6>2. up[t][Old(t, i)] # Identification
            BY <2>5, <6>1
          <6>3. t = s
            BY <4>2, <6>1, <6>2 DEF VerdictInv, OnOwnStream
          <6>4. i + 1 <= 1 /\ i >= 1
            BY <5>1, <6>1, <6>3 DEF Old
          <6> QED BY <6>4
        <5> QED BY <1>0, <4>3, <5>1, <5>2, <5>3 DEF Ended
      <4> QED BY <4>4, <4>5
    <3> QED BY <3>1, <3>2
  <2>10. SentFirst'
    <3> SUFFICES ASSUME NEW c \in Commands, PastFirst(c)'
                 PROVE  (\/ got[c] # <<>> \/ stream[on[c]] # "up"
                         \/ \E i \in 1..Len(up[on[c]]) : up[on[c]][i][1] = c)'
      BY DEF SentFirst
    <3>1. PastFirst(c) /\ on[c] \in Streams
      BY <1>0, CommandStreamAssumption
      DEF VerdictInv, OnOwnStream, TypeOK, Streams, PastFirst, Started
    <3>2. CASE got[c] # <<>> \/ stream[on[c]] # "up"
      BY <1>0, <1>2, <2>7, <3>2
    <3>3. CASE \E i \in 1..Len(up[on[c]]) : up[on[c]][i][1] = c
      <4>1. PICK i \in 1..Len(up[on[c]]) : up[on[c]][i][1] = c
        BY <3>3
      <4>2. CASE on[c] = s /\ i = 1
        BY <1>0, <2>7, <4>1, <4>2 DEF m
      <4>3. CASE ~(on[c] = s /\ i = 1)
        <5>1. PICK j \in 1..Len(up'[on[c]]) : i = Old(on[c], j)
          BY <2>1, <3>1, <4>3
        <5>2. up'[on[c]][j][1] = c
          BY <2>1, <3>1, <4>1, <5>1
        <5> QED BY <1>0, <5>2
      <4> QED BY <4>2, <4>3
    <3> QED BY <3>1, <3>2, <3>3 DEF VerdictInv, SentFirst
  <2> QED BY <2>3, <2>8, <2>9, <2>10 DEF VerdictInv
<1> QED BY <1>1, <1>2 DEF PanelReads

(* Before its goroutine a command has no verdict to send. *)
Fresh == \A c \in Commands : Started(c) \/ msg[c] = "RUNNING"

LEMMA FreshStep == TypeOK /\ SendInv /\ OnOwnStream /\ Fresh /\ [Next]_vars => Fresh'
<1> SUFFICES ASSUME TypeOK, SendInv, OnOwnStream, Fresh, [Next]_vars PROVE Fresh'
  OBVIOUS
<1>1. msg' = msg \/ \E c \in Commands : \E v : Started(c) /\ msg' = [msg EXCEPT ![c] = v]
  BY DEF Next, Reader, Execute, vars, Open, OpenFails, Identify, Recv, RecvFails, ReRegister,
    Backoff, LockSend, SendReturns, Emit, Finish, Acknowledge, SignalReconnect, SessionLost,
    Break, PanelForgets, PanelReads, PanelSends, readerVars, cmdVars, panelVars, netVars, Started
<1>2. \A c \in Commands : Started(c) => Started(c)'
  BY OnwardStep DEF Onward
<1> QED BY <1>1, <1>2 DEF Fresh, Started, TypeOK

LEMMA VerdictStep ==
  TypeOK /\ SendInv /\ Fresh /\ VerdictInv /\ [Next]_vars => VerdictInv'
<1> SUFFICES ASSUME TypeOK, SendInv, Fresh, VerdictInv, [Next]_vars PROVE VerdictInv'
  OBVIOUS
<1>0. Onward
  BY OnwardStep DEF VerdictInv
<1> USE DEF readerVars, cmdVars, panelVars, netVars
<1>1. CASE Open
  <2>1. /\ UNCHANGED <<pc, msg, up, got>> /\ current \in Nat
        /\ UNCHANGED stream \/ stream' = [stream EXCEPT ![current + 1] = "up"]
    BY <1>1, CommandStreamAssumption DEF Open, TypeOK
  <2>2. \A s \in Streams : stream'[s] # stream[s] => s > current /\ stream'[s] = "up"
    BY <2>1 DEF TypeOK
  <2> QED BY <1>0, <2>1, <2>2, QuietStep DEF PastFirst, Started
<1>2. CASE OpenFails \/ RecvFails \/ ReRegister \/ Backoff \/ UNCHANGED vars
  <2>1. UNCHANGED <<pc, msg, up, got, stream>>
    BY <1>2, Zenon DEF OpenFails, RecvFails, ReRegister, Backoff, vars
  <2> QED BY <1>0, <2>1, QuietStep DEF PastFirst, Started
<1>3. CASE Identify
  BY <1>0, <1>3, IdentifyStep
<1>4. CASE Recv
  <2>1. /\ \E c : pc' = [pc EXCEPT ![c] = "tosend"]
        /\ UNCHANGED <<msg, up, got, stream>>
    BY <1>4 DEF Recv
  <2>2. \A c \in Commands : PastFirst(c)' => PastFirst(c)
    BY <2>1 DEF PastFirst, Started, TypeOK, Fresh, Verdicts
  <2> QED BY <1>0, <2>1, <2>2, QuietStep
<1>5. ASSUME NEW c \in Commands, LockSend(c) \/ Emit(c) \/ Finish(c) \/ Acknowledge(c)
      PROVE  VerdictInv'
  <2>1. /\ UNCHANGED <<up, got, stream>>
        /\ \E p \in {"sending", "tosend"} : pc' = [pc EXCEPT ![c] = p]
        /\ msg' = msg \/ \E v : msg' = [msg EXCEPT ![c] = v]
        /\ PastFirst(c)' => PastFirst(c)
    BY <1>5 DEF LockSend, Emit, Finish, Acknowledge, PastFirst, Started, TypeOK, Verdicts
  <2>2. \A d \in Commands : PastFirst(d)' => PastFirst(d)
    BY <2>1 DEF PastFirst, Started, TypeOK
  <2> QED BY <1>0, <2>1, <2>2, QuietStep
<1>6. ASSUME NEW c \in Commands, SendReturns(c) PROVE VerdictInv'
  BY <1>0, <1>6, SendReturnsStep
<1>7. ASSUME NEW c \in Commands, SignalReconnect(c) PROVE VerdictInv'
  <2>1. /\ pc[c] = "signal" /\ pc' = [pc EXCEPT ![c] = "done"] /\ UNCHANGED <<msg, got>>
        /\ UNCHANGED <<up, stream>> \/ Fail(Streams, "broken")
    BY <1>7 DEF SignalReconnect
  <2>2. \A d \in Commands : PastFirst(d)' => PastFirst(d)
    BY <2>1 DEF PastFirst, Started, TypeOK
  <2> QED BY <1>0, <2>1, <2>2, QuietStep, EndingStep
<1>8. ASSUME NEW c \in Commands, NEW s \in Streams, PanelSends(c, s) PROVE VerdictInv'
  <2>1. pc' = [pc EXCEPT ![c] = "sent"] /\ UNCHANGED <<msg, up, got, stream>>
    BY <1>8 DEF PanelSends
  <2>2. \A d \in Commands : PastFirst(d)' => PastFirst(d)
    BY <2>1 DEF PastFirst, Started, TypeOK
  <2> QED BY <1>0, <2>1, <2>2, QuietStep
<1>9. CASE SessionLost \/ PanelForgets \/ \E s \in Streams : Break(s)
  <2>1. UNCHANGED <<pc, msg, got>> /\ \E ended : Fail(ended, "broken")
    BY <1>9 DEF SessionLost, PanelForgets, Break
  <2> QED BY <1>0, <2>1, EndingStep DEF PastFirst, Started
<1>10. ASSUME NEW s \in Streams, PanelReads(s) PROVE VerdictInv'
  BY <1>0, <1>10, PanelReadsStep
<1> QED BY <1>1, <1>2, <1>3, <1>4, <1>5, <1>6, <1>7, <1>8, <1>9, <1>10
        DEF Next, Reader, Execute

(* Whatever streams break and whatever the panel forgets, what it has of a *)
(* command is a run of RUNNING and at most one verdict after it, and none  *)
(* of a command that is still at work.                                     *)
THEOREM VerdictsAlwaysFinal == Spec => []OneVerdict
<1>1. TypeOK /\ VerdictInv => OneVerdict
  BY DEF VerdictInv, ReceivedLast, OneVerdict, Ended
<1>2. Init => Fresh
  BY DEF Init, Fresh
<1>3. TypeOK /\ SendInv /\ Fresh /\ VerdictInv /\ [Next]_vars => Fresh'
  BY FreshStep DEF VerdictInv
<1> QED BY <1>1, <1>2, <1>3, TypesInit, TypesStep, SendInit, SendStep, VerdictInit, VerdictStep, PTL
        DEF Spec

-----------------------------------------------------------------------------
(* Executor *)

Pipes == {"out", "err"}
ShellOver == shell \in {"exited", "killed"}

ExTyped ==
  /\ mode \in Modes
  /\ written \in [Pipes -> Int] /\ read \in [Pipes -> Int]
  /\ copied \subseteq Outputs
  /\ place \in {"check", "refused", "shell", "readers", "done"}
  /\ shell \in {"none", "alive", "exited", "killed"} /\ child \in {"none", "holds", "gone"}
  /\ exit \in {0, 1, -1, NoExit}

(* What is read was written, and what is not fits the pipe. *)
OutputsCounted ==
  \A f \in Pipes : 0 <= read[f] /\ read[f] <= written[f] /\ written[f] - read[f] <= PipeSize

(* An output that was read to its end gets nothing more. *)
CopiedWhole ==
  /\ \A f \in copied : read[f] = written[f]
  /\ copied # {} => ShellOver /\ child # "holds"

(* Nothing is written before the shell is there, nor to an output that the *)
(* mode does not have.                                                     *)
Unused ==
  /\ \A f \in Pipes \ Outputs : read[f] = written[f]
  /\ shell = "none" => child # "holds" /\ \A f \in Pipes : read[f] = written[f]

(* Where the call is says what it has waited for. *)
Order ==
  /\ place = "check" => shell = "none"
  /\ place = "shell" /\ mode = "ExecuteStream" => copied = Outputs
  /\ place = "readers" /\ mode # "ExecuteStream" => ShellOver
  /\ place = "done" => exit # NoExit /\ (shell = "none" \/ (ShellOver /\ copied = Outputs))
  /\ ShellOver => exit # NoExit

NoneAround == shell # "none" /\ command.hard => mode = "runShellInternal"

ExecInv == ExTyped /\ OutputsCounted /\ CopiedWhole /\ Unused /\ Order /\ NoneAround

LEMMA ExecInvInit == ExInit => ExecInv
BY ExecutorAssumption
DEF ExInit, ExecInv, ExTyped, OutputsCounted, CopiedWhole, Unused, Order, NoneAround, Pipes, ShellOver, Outputs,
       NoExit

LEMMA ExecInvNext == ExecInv /\ [ExNext]_exVars => ExecInv'
<1> SUFFICES ASSUME ExecInv, [ExNext]_exVars PROVE ExecInv'
  OBVIOUS
<1> USE DEF ExecInv, ExTyped, OutputsCounted, CopiedWhole, Unused, Order, NoneAround, Pipes, ShellOver, Outputs,
            NoExit, Modes
<1>1. CASE Refuse
  BY <1>1 DEF Refuse
<1>2. CASE StartFails
  BY <1>2 DEF StartFails
<1>3. CASE Start
  BY <1>3 DEF Start, Refuses, FirstWait, isHardBlocked, isBlocked, isAllowed
<1>4. CASE Writes
  <2> USE <1>4 DEF Writes
  <2>1. PICK f \in Outputs :
          /\ written[f] < MaxWrites /\ written[f] - read[f] < PipeSize
          /\ written' = [written EXCEPT ![f] = @ + 1]
    OBVIOUS
  <2>2. written[f] \in Int /\ read[f] \in Int /\ PipeSize \in Int /\ f \in Pipes
    BY <2>1, ExecutorAssumption
  <2>3. OutputsCounted'
    BY <2>1, <2>2
  <2>4. ExTyped' /\ CopiedWhole' /\ Unused'
    BY <2>1, <2>2
  <2>5. Order' /\ NoneAround'
    OBVIOUS
  <2> QED BY <2>3, <2>4, <2>5
<1>5. CASE StartsChild
  BY <1>5 DEF StartsChild
<1>6. CASE ChildEnds
  BY <1>6 DEF ChildEnds
<1>7. CASE ShellExits
  BY <1>7 DEF ShellExits
<1>8. CASE Deadline
  BY <1>8 DEF Deadline
<1>9. ASSUME NEW f \in Pipes, Read(f) PROVE ExecInv'
  <2> USE <1>9 DEF Read
  <2>1. read[f] \in Int /\ written[f] \in Int /\ read' = [read EXCEPT ![f] = read[f] + 1]
    OBVIOUS
  <2>2. OutputsCounted'
    BY <2>1, ExecutorAssumption
  <2>3. ExTyped' /\ CopiedWhole' /\ Unused'
    BY <2>1
  <2>4. Order' /\ NoneAround'
    OBVIOUS
  <2> QED BY <2>2, <2>3, <2>4
<1>10. ASSUME NEW f \in Pipes, ReadEOF(f) PROVE ExecInv'
  BY <1>10 DEF ReadEOF
<1>11. CASE WaitShell
  BY <1>11 DEF WaitShell
<1>12. CASE WaitReaders
  BY <1>12 DEF WaitReaders
<1>13. CASE UNCHANGED exVars
  BY <1>13 DEF exVars
<1> QED BY <1>1, <1>2, <1>3, <1>4, <1>5, <1>6, <1>7, <1>8, <1>9, <1>10, <1>11, <1>12,
           <1>13 DEF ExNext, Agent, Waits

(* The patterns that a command matches do not change. *)
CommandTyped == command \in CommandLines

LEMMA CommandKept ==
  /\ ExInit => CommandTyped
  /\ CommandTyped /\ [ExNext]_exVars => CommandTyped'
<1>1. [ExNext]_exVars => command' = command
  BY DEF ExNext, exVars, Agent, Waits, Refuse, StartFails, Start, Writes, StartsChild,
         ChildEnds, ShellExits, Deadline, Read, ReadEOF, WaitShell, WaitReaders
<1> QED BY <1>1 DEF ExInit, CommandTyped

(* An answer has all that was written, and the code of a shell that is     *)
(* over; and no shell is started with what every way refuses.              *)
THEOREM OutputAlwaysWhole == ExSpec => []OutputWhole
<1>1. ExecInv /\ CommandTyped => OutputWhole
  <2> SUFFICES ASSUME ExecInv, CommandTyped PROVE OutputWhole
    OBVIOUS
  <2>1. \A f \in Pipes : read[f] \in 0 .. written[f] /\ written[f] - read[f] <= PipeSize
    BY DEF ExecInv, ExTyped, OutputsCounted, Pipes
  <2>2. ExTypeOK
    BY <2>1 DEF ExecInv, ExTyped, CommandTyped, ExTypeOK, Pipes
  <2>3. place = "done" => \A f \in Pipes : read[f] = written[f]
    BY DEF ExecInv, CopiedWhole, Unused, Order, Pipes
  <2>4. place = "done" => read = written
    BY <2>3 DEF ExecInv, ExTyped
  <2>5. place = "done" => exit # NoExit /\ shell # "alive" /\ child # "holds"
    BY DEF ExecInv, CopiedWhole, Unused, Order, ShellOver, Outputs
  <2> QED BY <2>2, <2>4, <2>5 DEF ExecInv, NoneAround, OutputWhole
<1> QED BY <1>1, ExecInvInit, ExecInvNext, CommandKept, PTL DEF ExSpec

-----------------------------------------------------------------------------
(* SelfManage *)

Kinds == ByOperator \cup ByAgent
StepsOf(kind) == {ScriptSteps[kind][n] : n \in DOMAIN ScriptSteps[kind]}
JobsOK ==
  /\ DOMAIN job = Jobs
  /\ \A j \in Jobs : \E kind \in Kinds :
       \E step \in Over \cup StepsOf(kind) : job[j] = [kind |-> kind, step |-> step]

(* How far an install has come. *)
Installing(j) ==
  /\ At(j, "fetched") => fetched["install"] = "part"
  /\ At(j, "move") => fetched["install"] = "new"
  /\ job[j].step \in {"config", "unit", "enable", "start", "ended"} => binary = "new"
  /\ job[j].step \in {"unit", "enable", "start", "ended"} => "config" \in files
  /\ job[j].step \in {"enable", "start", "ended"} => "unit" \in files
  /\ job[j].step \in {"start", "ended"} => enabled
  /\ At(j, "ended") => service \in Versions

(* How far an upgrade has come, which the finisher ends. *)
Upgrading(j) ==
  /\ At(j, "fetched") => fetched["upgrade"] = "part"
  /\ job[j].step \in {"script", "run"} \/ finisher \in {"stop", "copy"}
       => fetched["upgrade"] = "new"
  /\ At(j, "ended") /\ finisher \in {"clean", "start", "none"} => binary = "new"
  /\ At(j, "ended") /\ finisher \in {"copy", "clean", "start"} => service = "stopped"
  /\ At(j, "ended") /\ finisher = "none" /\ "unit" \in files => service = "new"

Removing(j) ==
  /\ job[j].step \in {"disable", "unlink", "rmbinary", "rmconfig", "rmlog", "ended"} =>
       service = "stopped"
  /\ job[j].step \in {"unlink", "rmbinary", "rmconfig", "rmlog", "ended"} => ~enabled
  /\ job[j].step \in {"rmbinary", "rmconfig", "rmlog", "ended"} => "unit" \notin files
  /\ job[j].step \in {"rmconfig", "rmlog", "ended"} => binary = "none"
  /\ job[j].step \in {"rmlog", "ended"} => "config" \notin files
  /\ At(j, "ended") => "log" \notin files

(* The job that nothing disturbs acts alone, but for its finisher. *)
Lone(j) ==
  /\ \A k \in Jobs : k # j => ~Active(k)
  /\ finisher # "none" => job[j].kind \in {"upgrade", "update"} /\ At(j, "ended")
  /\ job[j].kind = "install" => Installing(j)
  /\ job[j].kind \in {"upgrade", "update"} => Upgrading(j)
  /\ job[j].kind = "remove" => Removing(j)
  /\ job[j].kind = "uninstall" => job[j].step \in {"stop", "killed"}

ScriptsInv == ScriptsTypeOK /\ JobsOK /\ \A j \in alone : Lone(j)

LEMMA StepAfterIs ==
  ASSUME NEW steps, NEW n \in DOMAIN steps,
         \A m \in DOMAIN steps : steps[m] = steps[n] => m = n
  PROVE  StepAfter(steps, steps[n]) = IF n = Len(steps) THEN "ended" ELSE steps[n + 1]
<1>1. (CHOOSE m \in DOMAIN steps : steps[m] = steps[n]) = n
  OBVIOUS
<1> QED BY <1>1 DEF StepAfter

LEMMA FinisherGoes ==
  /\ {FinisherSteps[n] : n \in DOMAIN FinisherSteps} = {"stop", "copy", "clean", "start"}
  /\ StepAfter(FinisherSteps, "stop") = "copy" /\ StepAfter(FinisherSteps, "copy") = "clean"
  /\ StepAfter(FinisherSteps, "clean") = "start" /\ StepAfter(FinisherSteps, "start") = "ended"
<1> DEFINE s == FinisherSteps
<1>1. /\ Len(s) = 4 /\ DOMAIN s = 1 .. 4
      /\ s[1] = "stop" /\ s[2] = "copy" /\ s[3] = "clean" /\ s[4] = "start"
  BY DEF FinisherSteps
<1> HIDE DEF s
<1>2. \A m \in 1 .. 4 : m = 1 \/ m = 2 \/ m = 3 \/ m = 4
  OBVIOUS
<1>3. \A m, n \in 1 .. 4 : s[m] = s[n] => m = n
  BY <1>1, <1>2
<1>4. ASSUME NEW n \in 1 .. 4
      PROVE  StepAfter(s, s[n]) = IF n = 4 THEN "ended" ELSE s[n + 1]
  <2>1. n \in DOMAIN s /\ \A m \in DOMAIN s : s[m] = s[n] => m = n
    BY <1>1, <1>3
  <2>2. StepAfter(s, s[n]) = IF n = Len(s) THEN "ended" ELSE s[n + 1]
    BY <2>1, StepAfterIs
  <2> QED BY <1>1, <2>2
<1>5. 1 \in 1 .. 4 /\ 2 \in 1 .. 4 /\ 3 \in 1 .. 4 /\ 4 \in 1 .. 4
  OBVIOUS
<1>6. /\ StepAfter(s, s[1]) = s[2] /\ StepAfter(s, s[2]) = s[3]
      /\ StepAfter(s, s[3]) = s[4] /\ StepAfter(s, s[4]) = "ended"
  BY <1>4, <1>5
<1>7. {s[n] : n \in DOMAIN s} = {"stop", "copy", "clean", "start"}
  BY <1>1, <1>2, <1>5
<1> QED BY <1>1, <1>6, <1>7 DEF s

LEMMA InstallGoes ==
  LET s == ScriptSteps["install"]
  IN  /\ StepsOf("install") =
           {"fetch", "fetched", "move", "config", "unit", "enable", "start"}
      /\ s[1] = "fetch"
      /\ StepAfter(s, "fetch") = "fetched" /\ StepAfter(s, "fetched") = "move"
      /\ StepAfter(s, "move") = "config" /\ StepAfter(s, "config") = "unit"
      /\ StepAfter(s, "unit") = "enable" /\ StepAfter(s, "enable") = "start"
      /\ StepAfter(s, "start") = "ended"
<1> DEFINE s == ScriptSteps["install"]
<1>1. /\ Len(s) = 7 /\ DOMAIN s = 1 .. 7
      /\ s[1] = "fetch" /\ s[2] = "fetched" /\ s[3] = "move" /\ s[4] = "config"
      /\ s[5] = "unit" /\ s[6] = "enable" /\ s[7] = "start"
  BY DEF ScriptSteps
<1>s. StepsOf("install") = {s[n] : n \in DOMAIN s}
  BY DEF StepsOf
<1> HIDE DEF s
<1>2. \A m \in 1 .. 7 : m = 1 \/ m = 2 \/ m = 3 \/ m = 4 \/ m = 5 \/ m = 6 \/ m = 7
  OBVIOUS
<1>3. \A m, n \in 1 .. 7 : s[m] = s[n] => m = n
  BY <1>1, <1>2
<1>4. ASSUME NEW n \in 1 .. 7
      PROVE  StepAfter(s, s[n]) = IF n = 7 THEN "ended" ELSE s[n + 1]
  <2>1. n \in DOMAIN s /\ \A m \in DOMAIN s : s[m] = s[n] => m = n
    BY <1>1, <1>3
  <2>2. StepAfter(s, s[n]) = IF n = Len(s) THEN "ended" ELSE s[n + 1]
    BY <2>1, StepAfterIs
  <2> QED BY <1>1, <2>2
<1>5. /\ 1 \in 1 .. 7 /\ 2 \in 1 .. 7 /\ 3 \in 1 .. 7 /\ 4 \in 1 .. 7 /\ 5 \in 1 .. 7
      /\ 6 \in 1 .. 7 /\ 7 \in 1 .. 7
  OBVIOUS
<1>6. /\ StepAfter(s, s[1]) = s[2] /\ StepAfter(s, s[2]) = s[3] /\ StepAfter(s, s[3]) = s[4]
      /\ StepAfter(s, s[4]) = s[5] /\ StepAfter(s, s[5]) = s[6] /\ StepAfter(s, s[6]) = s[7]
      /\ StepAfter(s, s[7]) = "ended"
  BY <1>4, <1>5
<1>7. StepsOf("install") =
        {"fetch", "fetched", "move", "config", "unit", "enable", "start"}
  BY <1>1, <1>2, <1>5, <1>s
<1> QED BY <1>1, <1>6, <1>7 DEF s

LEMMA UpgradeGoes ==
  LET s == ScriptSteps["upgrade"]
  IN  /\ StepsOf("upgrade") = {"check", "fetch", "fetched", "script", "run"}
      /\ s[1] = "check"
      /\ StepAfter(s, "check") = "fetch" /\ StepAfter(s, "fetch") = "fetched"
      /\ StepAfter(s, "fetched") = "script" /\ StepAfter(s, "script") = "run"
      /\ StepAfter(s, "run") = "ended"
<1> DEFINE s == ScriptSteps["upgrade"]
<1>1. /\ Len(s) = 5 /\ DOMAIN s = 1 .. 5
      /\ s[1] = "check" /\ s[2] = "fetch" /\ s[3] = "fetched" /\ s[4] = "script" /\ s[5] = "run"
  BY DEF ScriptSteps, Upgrade
<1>s. StepsOf("upgrade") = {s[n] : n \in DOMAIN s}
  BY DEF StepsOf
<1> HIDE DEF s
<1>2. \A m \in 1 .. 5 : m = 1 \/ m = 2 \/ m = 3 \/ m = 4 \/ m = 5
  OBVIOUS
<1>3. \A m, n \in 1 .. 5 : s[m] = s[n] => m = n
  BY <1>1, <1>2
<1>4. ASSUME NEW n \in 1 .. 5
      PROVE  StepAfter(s, s[n]) = IF n = 5 THEN "ended" ELSE s[n + 1]
  <2>1. n \in DOMAIN s /\ \A m \in DOMAIN s : s[m] = s[n] => m = n
    BY <1>1, <1>3
  <2>2. StepAfter(s, s[n]) = IF n = Len(s) THEN "ended" ELSE s[n + 1]
    BY <2>1, StepAfterIs
  <2> QED BY <1>1, <2>2
<1>5. 1 \in 1 .. 5 /\ 2 \in 1 .. 5 /\ 3 \in 1 .. 5 /\ 4 \in 1 .. 5 /\ 5 \in 1 .. 5
  OBVIOUS
<1>6. /\ StepAfter(s, s[1]) = s[2] /\ StepAfter(s, s[2]) = s[3] /\ StepAfter(s, s[3]) = s[4]
      /\ StepAfter(s, s[4]) = s[5] /\ StepAfter(s, s[5]) = "ended"
  BY <1>4, <1>5
<1>7. StepsOf("upgrade") = {"check", "fetch", "fetched", "script", "run"}
  BY <1>1, <1>2, <1>5, <1>s
<1> QED BY <1>1, <1>6, <1>7 DEF s

LEMMA ConsIs ==
  ASSUME NEW S, NEW x \in S, NEW u \in Seq(S)
  PROVE  /\ Len(<<x>> \o u) = Len(u) + 1 /\ DOMAIN (<<x>> \o u) = 1 .. (Len(u) + 1)
         /\ (<<x>> \o u)[1] = x
         /\ \A i \in 1 .. Len(u) : (<<x>> \o u)[i + 1] = u[i]
OBVIOUS

LEMMA UpdateGoes ==
  LET s == ScriptSteps["update"]
  IN  /\ StepsOf("update") = {"get", "check", "fetch", "fetched", "script", "run"}
      /\ s[1] = "get"
      /\ StepAfter(s, "get") = "check"
      /\ StepAfter(s, "check") = "fetch" /\ StepAfter(s, "fetch") = "fetched"
      /\ StepAfter(s, "fetched") = "script" /\ StepAfter(s, "script") = "run"
      /\ StepAfter(s, "run") = "ended"
<1> DEFINE s == ScriptSteps["update"]
           u == Upgrade
           Words == {"get", "check", "fetch", "fetched", "script", "run"}
<1>0. /\ u \in Seq(Words) /\ "get" \in Words /\ Len(u) = 5
      /\ u[1] = "check" /\ u[2] = "fetch" /\ u[3] = "fetched" /\ u[4] = "script" /\ u[5] = "run"
  BY DEF Upgrade
<1>u. s = <<"get">> \o u
  BY DEF ScriptSteps
<1> HIDE DEF s, u, Words
<1>1. /\ Len(s) = 6 /\ DOMAIN s = 1 .. 6
      /\ s[1] = "get" /\ s[2] = "check" /\ s[3] = "fetch" /\ s[4] = "fetched"
      /\ s[5] = "script" /\ s[6] = "run"
  <2>0. \A x \in Words : \A b \in Seq(Words) :
          /\ Len(<<x>> \o b) = Len(b) + 1 /\ DOMAIN (<<x>> \o b) = 1 .. (Len(b) + 1)
          /\ (<<x>> \o b)[1] = x
          /\ \A i \in 1 .. Len(b) : (<<x>> \o b)[i + 1] = b[i]
    BY ConsIs
  <2>1. /\ Len(s) = 6 /\ DOMAIN s = 1 .. 6 /\ s[1] = "get"
        /\ \A i \in 1 .. 5 : s[i + 1] = u[i]
    <3>1. /\ Len(s) = Len(u) + 1 /\ DOMAIN s = 1 .. (Len(u) + 1) /\ s[1] = "get"
          /\ \A i \in 1 .. Len(u) : s[i + 1] = u[i]
      <4>1. u \in Seq(Words) /\ "get" \in Words
        BY <1>0
      <4> QED BY <1>u, <2>0, <4>1, Zenon
    <3> QED BY <1>0, <3>1
  <2>2. s[2] = u[1] /\ s[3] = u[2] /\ s[4] = u[3] /\ s[5] = u[4] /\ s[6] = u[5]
    BY <2>1
  <2> QED BY <1>0, <2>1, <2>2
<1>s. StepsOf("update") = {s[n] : n \in DOMAIN s}
  BY DEF StepsOf, s
<1>2. \A m \in 1 .. 6 : m = 1 \/ m = 2 \/ m = 3 \/ m = 4 \/ m = 5 \/ m = 6
  OBVIOUS
<1>3. \A m, n \in 1 .. 6 : s[m] = s[n] => m = n
  BY <1>1, <1>2
<1>4. ASSUME NEW n \in 1 .. 6
      PROVE  StepAfter(s, s[n]) = IF n = 6 THEN "ended" ELSE s[n + 1]
  <2>1. n \in DOMAIN s /\ \A m \in DOMAIN s : s[m] = s[n] => m = n
    BY <1>1, <1>3
  <2>2. StepAfter(s, s[n]) = IF n = Len(s) THEN "ended" ELSE s[n + 1]
    BY <2>1, StepAfterIs
  <2> QED BY <1>1, <2>2
<1>5. /\ 1 \in 1 .. 6 /\ 2 \in 1 .. 6 /\ 3 \in 1 .. 6 /\ 4 \in 1 .. 6 /\ 5 \in 1 .. 6
      /\ 6 \in 1 .. 6
  OBVIOUS
<1>6. /\ StepAfter(s, s[1]) = s[2] /\ StepAfter(s, s[2]) = s[3] /\ StepAfter(s, s[3]) = s[4]
      /\ StepAfter(s, s[4]) = s[5] /\ StepAfter(s, s[5]) = s[6] /\ StepAfter(s, s[6]) = "ended"
  BY <1>4, <1>5
<1>7. StepsOf("update") = {"get", "check", "fetch", "fetched", "script", "run"}
  BY <1>1, <1>2, <1>5, <1>s
<1> QED BY <1>1, <1>6, <1>7 DEF s

LEMMA RemoveGoes ==
  LET s == ScriptSteps["remove"]
      t == ScriptSteps["uninstall"]
  IN  /\ StepsOf("remove") = {"stop", "disable", "unlink", "rmbinary", "rmconfig", "rmlog"}
      /\ StepsOf("uninstall") = {"stop", "disable", "unlink", "rmbinary", "rmconfig"}
      /\ s[1] = "stop" /\ t[1] = "stop"
      /\ StepAfter(s, "stop") = "disable" /\ StepAfter(t, "stop") = "disable"
      /\ StepAfter(s, "disable") = "unlink" /\ StepAfter(t, "disable") = "unlink"
      /\ StepAfter(s, "unlink") = "rmbinary" /\ StepAfter(t, "unlink") = "rmbinary"
      /\ StepAfter(s, "rmbinary") = "rmconfig" /\ StepAfter(t, "rmbinary") = "rmconfig"
      /\ StepAfter(s, "rmconfig") = "rmlog" /\ StepAfter(t, "rmconfig") = "ended"
      /\ StepAfter(s, "rmlog") = "ended"
<1> DEFINE s == ScriptSteps["remove"]
           t == ScriptSteps["uninstall"]
<1>1. /\ Len(s) = 6 /\ DOMAIN s = 1 .. 6
      /\ s[1] = "stop" /\ s[2] = "disable" /\ s[3] = "unlink" /\ s[4] = "rmbinary"
      /\ s[5] = "rmconfig" /\ s[6] = "rmlog"
  BY DEF ScriptSteps
<1>t. /\ Len(t) = 5 /\ DOMAIN t = 1 .. 5
      /\ t[1] = "stop" /\ t[2] = "disable" /\ t[3] = "unlink" /\ t[4] = "rmbinary"
      /\ t[5] = "rmconfig"
  BY DEF ScriptSteps
<1>s. /\ StepsOf("remove") = {s[n] : n \in DOMAIN s}
      /\ StepsOf("uninstall") = {t[n] : n \in DOMAIN t}
  BY DEF StepsOf
<1> HIDE DEF s, t
<1>2. /\ \A m \in 1 .. 6 : m = 1 \/ m = 2 \/ m = 3 \/ m = 4 \/ m = 5 \/ m = 6
      /\ \A m \in 1 .. 5 : m = 1 \/ m = 2 \/ m = 3 \/ m = 4 \/ m = 5
  OBVIOUS
<1>3. /\ \A m, n \in 1 .. 6 : s[m] = s[n] => m = n
      /\ \A m, n \in 1 .. 5 : t[m] = t[n] => m = n
  BY <1>1, <1>t, <1>2
<1>4s. ASSUME NEW n \in 1 .. 6
       PROVE  StepAfter(s, s[n]) = IF n = 6 THEN "ended" ELSE s[n + 1]
  <2>1. n \in DOMAIN s /\ \A m \in DOMAIN s : s[m] = s[n] => m = n
    BY <1>1, <1>3
  <2>2. StepAfter(s, s[n]) = IF n = Len(s) THEN "ended" ELSE s[n + 1]
    BY <2>1, StepAfterIs
  <2> QED BY <1>1, <2>2
<1>4t. ASSUME NEW n \in 1 .. 5
       PROVE  StepAfter(t, t[n]) = IF n = 5 THEN "ended" ELSE t[n + 1]
  <2>1. n \in DOMAIN t /\ \A m \in DOMAIN t : t[m] = t[n] => m = n
    BY <1>t, <1>3
  <2>2. StepAfter(t, t[n]) = IF n = Len(t) THEN "ended" ELSE t[n + 1]
    BY <2>1, StepAfterIs
  <2> QED BY <1>t, <2>2
<1>5. /\ 1 \in 1 .. 6 /\ 2 \in 1 .. 6 /\ 3 \in 1 .. 6 /\ 4 \in 1 .. 6 /\ 5 \in 1 .. 6
      /\ 6 \in 1 .. 6
      /\ 1 \in 1 .. 5 /\ 2 \in 1 .. 5 /\ 3 \in 1 .. 5 /\ 4 \in 1 .. 5 /\ 5 \in 1 .. 5
  OBVIOUS
<1>6. /\ StepAfter(s, s[1]) = s[2] /\ StepAfter(s, s[2]) = s[3] /\ StepAfter(s, s[3]) = s[4]
      /\ StepAfter(s, s[4]) = s[5] /\ StepAfter(s, s[5]) = s[6] /\ StepAfter(s, s[6]) = "ended"
      /\ StepAfter(t, t[1]) = t[2] /\ StepAfter(t, t[2]) = t[3] /\ StepAfter(t, t[3]) = t[4]
      /\ StepAfter(t, t[4]) = t[5] /\ StepAfter(t, t[5]) = "ended"
  BY <1>4s, <1>4t, <1>5
<1>7. /\ StepsOf("remove") = {"stop", "disable", "unlink", "rmbinary", "rmconfig", "rmlog"}
      /\ StepsOf("uninstall") = {"stop", "disable", "unlink", "rmbinary", "rmconfig"}
  BY <1>1, <1>t, <1>2, <1>5, <1>s
<1> QED BY <1>1, <1>t, <1>6, <1>7 DEF s, t

(* Where a script goes on to. *)
LEMMA Following ==
  ASSUME JobsOK, NEW j \in Jobs, Active(j), NEW q,
         q = StepAfter(ScriptSteps[job[j].kind], job[j].step)
  PROVE  LET k == job[j].kind
             p == job[j].step
         IN  /\ k \in Kinds /\ q \in Over \cup StepsOf(k)
             /\ p = "get" => k = "update" /\ q = "check"
             /\ p = "check" => k \in {"upgrade", "update"} /\ q = "fetch"
             /\ p = "fetch" => k \in {"install", "upgrade", "update"} /\ q = "fetched"
             /\ p = "fetched" =>
                  \/ k = "install" /\ q = "move"
                  \/ k \in {"upgrade", "update"} /\ q = "script"
             /\ p = "script" => k \in {"upgrade", "update"} /\ q = "run"
             /\ p = "run" => k \in {"upgrade", "update"} /\ q = "ended"
             /\ p = "move" => k = "install" /\ q = "config"
             /\ p = "config" => k = "install" /\ q = "unit"
             /\ p = "unit" => k = "install" /\ q = "enable"
             /\ p = "enable" => k = "install" /\ q = "start"
             /\ p = "start" => k = "install" /\ q = "ended"
             /\ p = "stop" => k \in {"remove", "uninstall"} /\ q = "disable"
             /\ p = "disable" => k \in {"remove", "uninstall"} /\ q = "unlink"
             /\ p = "unlink" => k \in {"remove", "uninstall"} /\ q = "rmbinary"
             /\ p = "rmbinary" => k \in {"remove", "uninstall"} /\ q = "rmconfig"
             /\ p = "rmconfig" =>
                  \/ k = "remove" /\ q = "rmlog"
                  \/ k = "uninstall" /\ q = "ended"
             /\ p = "rmlog" => k = "remove" /\ q = "ended"
<1> DEFINE k == job[j].kind
           p == job[j].step
<1>1. PICK kk \in Kinds : \E step \in Over \cup StepsOf(kk) : job[j] = [kind |-> kk, step |-> step]
  BY DEF JobsOK
<1>2. k = kk /\ p \in Over \cup StepsOf(k) /\ p \notin Over /\ q = StepAfter(ScriptSteps[k], p)
  BY <1>1 DEF Active
<1>3. p \in StepsOf(k) /\ k \in {"install", "upgrade", "remove", "update", "uninstall"} /\ k \in Kinds
  BY <1>2 DEF Kinds, ByOperator, ByAgent
<1>4. "ended" \in Over
  BY DEF Over
<1> HIDE DEF k, p
<1>5. CASE k = "install"
  BY <1>2, <1>3, <1>4, <1>5, InstallGoes DEF k, p
<1>6. CASE k = "upgrade"
  BY <1>2, <1>3, <1>4, <1>6, UpgradeGoes DEF k, p
<1>7. CASE k = "update"
  BY <1>2, <1>3, <1>4, <1>7, UpdateGoes DEF k, p
<1>8. CASE k = "remove"
  BY <1>2, <1>3, <1>4, <1>8, RemoveGoes DEF k, p
<1>9. CASE k = "uninstall"
  BY <1>2, <1>3, <1>4, <1>9, RemoveGoes DEF k, p
<1> QED BY <1>3, <1>5, <1>6, <1>7, <1>8, <1>9

LEMMA JobIs ==
  ASSUME JobsOK, NEW j \in Jobs
  PROVE  /\ job[j] = [kind |-> job[j].kind, step |-> job[j].step]
         /\ job[j].kind \in Kinds /\ job[j].step \in Over \cup StepsOf(job[j].kind)
<1>1. PICK kk \in Kinds : \E step \in Over \cup StepsOf(kk) : job[j] = [kind |-> kk, step |-> step]
  BY DEF JobsOK
<1> QED BY <1>1

(* A job takes a step of its script, or fails. *)
LEMMA Moved ==
  ASSUME JobsOK, NEW j \in Jobs, NEW p \in Over \cup StepsOf(job[j].kind), Goes(j, p)
  PROVE  /\ JobsOK' /\ job'[j].kind = job[j].kind /\ job'[j].step = p
         /\ \A k \in Jobs : k # j => job'[k] = job[k]
<1>1. /\ DOMAIN job = Jobs /\ DOMAIN job' = Jobs
      /\ \A k \in Jobs : k # j => job'[k] = job[k]
      /\ job'[j] = [job[j] EXCEPT !.step = p]
  BY DEF JobsOK, Goes
<1>2. job'[j] = [kind |-> job[j].kind, step |-> p] /\ job[j].kind \in Kinds
  BY <1>1, JobIs
<1>3. ASSUME NEW k \in Jobs
      PROVE  \E kind \in Kinds : \E step \in Over \cup StepsOf(kind) :
               job'[k] = [kind |-> kind, step |-> step]
  <2>1. CASE k = j
    BY <1>2, <2>1
  <2>2. CASE k # j
    BY <1>1, <2>2 DEF JobsOK
  <2> QED BY <2>1, <2>2
<1> QED BY <1>1, <1>2, <1>3 DEF JobsOK

LEMMA Advanced ==
  ASSUME JobsOK, NEW j \in Jobs, Active(j), Advances(j)
  PROVE  /\ JobsOK' /\ job'[j].kind = job[j].kind
         /\ job'[j].step = StepAfter(ScriptSteps[job[j].kind], job[j].step)
         /\ \A k \in Jobs : k # j => job'[k] = job[k]
<1> DEFINE q == StepAfter(ScriptSteps[job[j].kind], job[j].step)
<1>1. q \in Over \cup StepsOf(job[j].kind)
  BY Following
<1>2. Goes(j, q)
  BY DEF Advances
<1> QED BY <1>1, <1>2, Moved

LEMMA FailedIs ==
  ASSUME JobsOK, NEW j \in Jobs, Goes(j, "failed")
  PROVE  /\ JobsOK' /\ job'[j].kind = job[j].kind /\ job'[j].step = "failed"
         /\ \A k \in Jobs : k # j => job'[k] = job[k]
BY Moved DEF Over

LEMMA KilledIs ==
  ASSUME JobsOK
  PROVE  /\ DOMAIN Killed = Jobs
         /\ \A k \in Jobs : \E kind \in Kinds : \E step \in Over \cup StepsOf(kind) :
              Killed[k] = [kind |-> kind, step |-> step]
         /\ \A k \in Jobs :
              /\ Killed[k].kind = job[k].kind
              /\ Active(k) /\ job[k].kind \in ByAgent => Killed[k].step = "killed"
              /\ ~Active(k) \/ job[k].kind \notin ByAgent => Killed[k] = job[k]
<1>1. ASSUME NEW k \in Jobs
      PROVE  /\ \E kind \in Kinds : \E step \in Over \cup StepsOf(kind) :
                  Killed[k] = [kind |-> kind, step |-> step]
             /\ Killed[k].kind = job[k].kind
             /\ Active(k) /\ job[k].kind \in ByAgent => Killed[k].step = "killed"
             /\ ~Active(k) \/ job[k].kind \notin ByAgent => Killed[k] = job[k]
  <2>1. /\ job[k] = [kind |-> job[k].kind, step |-> job[k].step]
        /\ job[k].kind \in Kinds /\ job[k].step \in Over \cup StepsOf(job[k].kind)
    BY JobIs
  <2>2. CASE Active(k) /\ job[k].kind \in ByAgent
    <3>1. Killed[k] = [kind |-> job[k].kind, step |-> "killed"]
      BY <2>1, <2>2 DEF Killed
    <3>2. "killed" \in Over \cup StepsOf(job[k].kind)
      BY DEF Over
    <3>3. Killed[k].kind = job[k].kind /\ Killed[k].step = "killed"
      BY <3>1
    <3> QED BY <2>1, <2>2, <3>1, <3>2, <3>3
  <2>3. CASE ~(Active(k) /\ job[k].kind \in ByAgent)
    <3>1. Killed[k] = job[k]
      BY <2>3 DEF Killed
    <3> QED BY <2>1, <2>3, <3>1
  <2> QED BY <2>2, <2>3
<1>2. DOMAIN Killed = Jobs
  BY DEF Killed
<1> QED BY <1>1, <1>2

(* Only the job that nothing disturbs can act while there is one. *)
LEMMA LoneActs ==
  ASSUME ScriptsInv, NEW j \in Jobs, Active(j), alone' \subseteq alone,
         j \in alone /\ Lone(j) => Lone(j)'
  PROVE  \A i \in alone' : Lone(i)'
<1> SUFFICES ASSUME NEW i \in alone' PROVE Lone(i)'
  OBVIOUS
<1>1. i \in alone /\ i \in Jobs /\ Lone(i)
  BY DEF ScriptsInv, ScriptsTypeOK
<1>2. i = j
  BY <1>1 DEF Lone
<1> QED BY <1>1, <1>2

LEMMA Onwards ==
  ASSUME NEW j \in Jobs,
         \/ Fetch(j) \/ Fetched(j) \/ Move(j) \/ WriteFile(j, "config") \/ WriteFile(j, "unit")
         \/ Enable(j) \/ StartUp(j) \/ GetScript(j) \/ Check(j) \/ WriteScript(j) \/ Run(j)
         \/ Disable(j) \/ RemoveBinary(j)
         \/ Removes(j, "unlink", "unit") \/ Removes(j, "rmconfig", "config")
         \/ Removes(j, "rmlog", "log")
  PROVE  Active(j) /\ (Advances(j) \/ Goes(j, "failed")) /\ UNCHANGED <<alone, errors>>
BY DEF Fetch, Fetched, Move, WriteFile, Enable, StartUp, GetScript, Check, WriteScript, Run,
       Disable, RemoveBinary, Removes, At, Active, Over

(* The host stays what it can be. *)
LEMMA ScriptsTypeStep ==
  ASSUME ScriptsTypeOK, [ScriptsNext]_scriptVars
  PROVE  ScriptsTypeOK'
<1> USE DEF ScriptsTypeOK
<1>1. service' \in Versions \cup {"stopped", "failing"}
  <2>1. \/ service' = service \/ service' = "stopped" \/ StartService
    BY DEF ScriptsNext, scriptVars, FinisherStops, FinisherCopies, FinisherCleans, FinisherStarts,
           Begin, Fetch, Fetched, Errs, FetchesPage, Puts, Move, WriteFile, Enable, StartUp,
           GetScript, Check, WriteScript, Run, Stop, Disable, RemoveBinary, Removes
  <2> QED BY <2>1 DEF StartService
<1>2. enabled' \in BOOLEAN
  BY DEF ScriptsNext, scriptVars, FinisherStops, FinisherCopies, FinisherCleans, FinisherStarts,
         Begin, Fetch, Fetched, Errs, FetchesPage, Puts, Move, WriteFile, Enable, StartUp,
         GetScript, Check, WriteScript, Run, Stop, Disable, RemoveBinary, Removes
<1>3. files' \subseteq {"unit", "config", "log"}
  <2>1. \/ files' = files
        \/ \E f \in {"unit", "config", "log"} : files' = files \cup {f} \/ files' = files \ {f}
    BY DEF ScriptsNext, scriptVars, FinisherStops, FinisherCopies, FinisherCleans, FinisherStarts,
           Begin, Fetch, Fetched, Errs, FetchesPage, Puts, Move, WriteFile, Enable, StartUp,
           GetScript, Check, WriteScript, Run, Stop, Disable, RemoveBinary, Removes
  <2> QED BY <2>1
<1>4. binary' \in Binaries
  <2>1. binary' \in {binary, "part", "none", fetched["install"], fetched["upgrade"]}
    BY DEF ScriptsNext, scriptVars, FinisherStops, FinisherCopies, FinisherCleans, FinisherStarts,
           Begin, Fetch, Fetched, Errs, FetchesPage, Puts, Move, WriteFile, Enable, StartUp,
           GetScript, Check, WriteScript, Run, Stop, Disable, RemoveBinary, Removes
  <2> QED BY <2>1 DEF Binaries
<1>5. fetched' \in [{"install", "upgrade"} -> Binaries]
  <2>1. \/ fetched' = fetched
        \/ \E p \in {"install", "upgrade"}, b \in Binaries : fetched' = [fetched EXCEPT ![p] = b]
    <3>1. /\ \A j : Path(j) \in {"install", "upgrade"}
          /\ {"part", "new", "none", "page"} \subseteq Binaries
      BY DEF Path, Binaries, Versions
    <3>2. ASSUME NEW j \in Jobs, Fetch(j) \/ Fetched(j) \/ FetchesPage(j)
          PROVE  \E p \in {"install", "upgrade"}, b \in Binaries : fetched' = [fetched EXCEPT ![p] = b]
      BY <3>1, <3>2 DEF Fetch, Fetched, FetchesPage, Puts
    <3>3. ASSUME NEW j \in Jobs, Errs(j)
          PROVE  fetched' = fetched \/ FetchesPage(j)
      BY <3>3 DEF Errs
    <3>4. CASE FinisherCleans \/ \E j \in Jobs : Move(j)
      BY <3>1, <3>4 DEF FinisherCleans, Move
    <3>5. \/ fetched' = fetched \/ FinisherCleans
          \/ \E j \in Jobs : Move(j) \/ Fetch(j) \/ Fetched(j) \/ Errs(j)
      BY DEF ScriptsNext, scriptVars, FinisherStops, FinisherCopies, FinisherStarts,
             Begin, WriteFile, Enable, StartUp, GetScript, Check, WriteScript, Run, Stop, Disable,
             RemoveBinary, Removes
    <3> QED BY <3>2, <3>3, <3>4, <3>5
  <2> QED BY <2>1
<1>6. finisher' \in {"none"} \cup {FinisherSteps[n] : n \in DOMAIN FinisherSteps}
  <2>1. \/ finisher' = finisher \/ finisher' = "none" \/ finisher' = FinisherSteps[1]
        \/ \E p \in {"stop", "copy", "clean", "start"} : FinisherAt(p)
    BY DEF ScriptsNext, scriptVars, FinisherStops, FinisherCopies, FinisherCleans, FinisherStarts,
           Begin, Fetch, Fetched, Errs, FetchesPage, Puts, Move, WriteFile, Enable, StartUp,
           GetScript, Check, WriteScript, Run, Stop, Disable, RemoveBinary, Removes
  <2>2. FinisherSteps[1] = "stop"
    BY DEF FinisherSteps
  <2> QED BY <2>1, <2>2, FinisherGoes DEF FinisherAt
<1>7. alone' \subseteq Jobs
  <2>1. \/ alone' = alone \/ alone' = {} \/ \E j \in Jobs : alone' = {j}
    BY DEF ScriptsNext, scriptVars, FinisherStops, FinisherCopies, FinisherCleans, FinisherStarts,
           Begin, Fetch, Fetched, Errs, FetchesPage, Puts, Move, WriteFile, Enable, StartUp,
           GetScript, Check, WriteScript, Run, Stop, Disable, RemoveBinary, Removes
  <2> QED BY <2>1
<1>8. errors' \in 0 .. MaxErrors
  <2>1. errors' = errors \/ (errors < MaxErrors /\ errors' = errors + 1)
    BY DEF ScriptsNext, scriptVars, FinisherStops, FinisherCopies, FinisherCleans, FinisherStarts,
           Begin, Fetch, Fetched, Errs, FetchesPage, Puts, Move, WriteFile, Enable, StartUp,
           GetScript, Check, WriteScript, Run, Stop, Disable, RemoveBinary, Removes
  <2> QED BY <2>1, ScriptsAssumption
<1> QED BY <1>1, <1>2, <1>3, <1>4, <1>5, <1>6, <1>7, <1>8

(* Steps of a download, an install and an upgrade. *)
LEMMA InstallStep ==
  ASSUME ScriptsInv, NEW j \in Jobs,
         \/ Fetch(j) \/ Fetched(j) \/ Move(j) \/ WriteFile(j, "config") \/ WriteFile(j, "unit")
         \/ Enable(j) \/ StartUp(j) \/ GetScript(j) \/ Check(j) \/ WriteScript(j) \/ Run(j)
         \/ Disable(j) \/ RemoveBinary(j)
         \/ Removes(j, "unlink", "unit") \/ Removes(j, "rmconfig", "config")
         \/ Removes(j, "rmlog", "log")
  PROVE  JobsOK' /\ \A i \in alone' : Lone(i)'
<1> USE DEF ScriptsInv
<1>1. Active(j) /\ (Advances(j) \/ Goes(j, "failed")) /\ alone' = alone
  BY Onwards
<1> DEFINE q == StepAfter(ScriptSteps[job[j].kind], job[j].step)
<1>2. /\ JobsOK' /\ job'[j].kind = job[j].kind
      /\ job'[j].step = q \/ job'[j].step = "failed"
      /\ \A k \in Jobs : k # j => job'[k] = job[k]
  BY <1>1, Advanced, FailedIs
<1>3. LET k == job[j].kind
          p == job[j].step
      IN  /\ k \in Kinds
          /\ p = "get" => k = "update" /\ q = "check"
          /\ p = "check" => k \in {"upgrade", "update"} /\ q = "fetch"
          /\ p = "fetch" => k \in {"install", "upgrade", "update"} /\ q = "fetched"
          /\ p = "fetched" =>
               \/ k = "install" /\ q = "move"
               \/ k \in {"upgrade", "update"} /\ q = "script"
          /\ p = "script" => k \in {"upgrade", "update"} /\ q = "run"
          /\ p = "run" => k \in {"upgrade", "update"} /\ q = "ended"
          /\ p = "move" => k = "install" /\ q = "config"
          /\ p = "config" => k = "install" /\ q = "unit"
          /\ p = "unit" => k = "install" /\ q = "enable"
          /\ p = "enable" => k = "install" /\ q = "start"
          /\ p = "start" => k = "install" /\ q = "ended"
          /\ p = "disable" => k \in {"remove", "uninstall"} /\ q = "unlink"
          /\ p = "unlink" => k \in {"remove", "uninstall"} /\ q = "rmbinary"
          /\ p = "rmbinary" => k \in {"remove", "uninstall"} /\ q = "rmconfig"
          /\ p = "rmconfig" =>
               \/ k = "remove" /\ q = "rmlog"
               \/ k = "uninstall" /\ q = "ended"
          /\ p = "rmlog" => k = "remove" /\ q = "ended"
  BY <1>1, Following
<1> HIDE DEF q
<1>4. ASSUME j \in alone, Lone(j) PROVE Lone(j)'
  <2>1. \A k \in Jobs : k # j => ~Active(k)'
    BY <1>2, <1>4 DEF Lone, Active
  <2>2. job[j].step \notin Over /\ finisher = "none" /\ fetched \in [{"install", "upgrade"} -> Binaries]
    BY <1>1, <1>4 DEF Active, Lone, At, Over, ScriptsTypeOK
  <2>3. CASE Fetch(j)
    <3>1. /\ job[j].step = "fetch" /\ job'[j].step = "fetched"
          /\ fetched' = [fetched EXCEPT ![Path(j)] = "part"] /\ finisher' = finisher
      BY <1>1, <1>2, <1>3, <2>3, Advanced DEF Fetch, Puts, At, q
    <3>2. fetched'[Path(j)] = "part"
      BY <2>2, <3>1 DEF Path
    <3> QED BY <1>2, <1>3, <2>1, <2>2, <3>1, <3>2
            DEF Lone, Installing, Upgrading, Removing, At, Path
  <2>4. CASE Fetched(j)
    <3>1. /\ job[j].step = "fetched" /\ finisher' = finisher /\ fetched[Path(j)] = "part"
      BY <1>3, <1>4, <2>4 DEF Fetched, Puts, At, Path, Lone, Installing, Upgrading
    <3>2. \A k \in Jobs \ {j} : ~At(k, "fetched")
      BY <1>4 DEF Lone, At, Active, Over
    <3>3. /\ Advances(j) /\ fetched' = [fetched EXCEPT ![Path(j)] = "new"]
      BY <2>4, <3>1, <3>2 DEF Fetched, Puts
    <3>4. fetched'[Path(j)] = "new" /\ job'[j].step = q
      BY <1>1, <2>2, <3>3, Advanced DEF Path, q
    <3> QED BY <1>2, <1>3, <2>1, <2>2, <3>1, <3>4
            DEF Lone, Installing, Upgrading, Removing, At, Path
  <2>5. CASE Move(j) \/ WriteFile(j, "config") \/ WriteFile(j, "unit")
    <3>1. /\ job'[j].step = q /\ finisher' = finisher /\ job[j].kind = "install"
          /\ job[j].step \in {"move", "config", "unit"}
      BY <1>1, <1>3, <2>5, Advanced DEF Move, WriteFile, At, q
    <3>2. Installing(j)'
      BY <1>3, <1>4, <2>5, <3>1 DEF Lone, Installing, Move, WriteFile, At
    <3> QED BY <1>2, <2>1, <2>2, <3>1, <3>2 DEF Lone
  <2>6. CASE Enable(j)
    <3>1. finisher' = finisher /\ job[j].kind = "install" /\ job[j].step = "enable"
      BY <1>3, <2>6 DEF Enable, At
    <3>2. Advances(j) /\ enabled' = TRUE /\ UNCHANGED <<service, files, binary, fetched>>
      BY <1>4, <2>6, <3>1 DEF Enable, Lone, Installing
    <3>3. job'[j].step = "start"
      BY <1>1, <1>3, <3>1, <3>2, Advanced DEF q
    <3>4. Installing(j)'
      BY <1>4, <3>1, <3>2, <3>3 DEF Lone, Installing, At
    <3> QED BY <1>2, <2>1, <2>2, <3>1, <3>4 DEF Lone
  <2>7. CASE StartUp(j)
    <3>1. /\ finisher' = finisher /\ job[j].kind = "install" /\ job[j].step = "start"
          /\ job'[j].step = "ended"
      BY <1>1, <1>3, <2>7, Advanced DEF StartUp, At, q
    <3>2. /\ binary = "new" /\ {"config", "unit"} \subseteq files /\ enabled
          /\ files' = files \cup {"log"} /\ UNCHANGED <<enabled, binary>> /\ StartService
      BY <1>4, <2>7, <3>1 DEF StartUp, Lone, Installing
    <3>3. service' \in Versions
      BY <3>2 DEF StartService, Versions
    <3>4. Installing(j)'
      BY <3>1, <3>2, <3>3 DEF Installing, At
    <3> QED BY <1>2, <2>1, <2>2, <3>1, <3>4 DEF Lone
  <2>8. CASE GetScript(j) \/ WriteScript(j)
    <3>1. /\ finisher' = finisher /\ fetched' = fetched /\ job'[j].step = q
          /\ job[j].step \in {"get", "script"}
      BY <1>1, <2>8, Advanced DEF GetScript, WriteScript, At, q
    <3> QED BY <1>2, <1>3, <1>4, <2>1, <2>2, <3>1 DEF Lone, Installing, Upgrading, Removing, At
  <2>9. CASE Check(j)
    <3>1. /\ finisher' = finisher /\ job'[j].step \in {q, "failed"} /\ job[j].step = "check"
      BY <1>2, <2>9 DEF Check, At
    <3>2. CASE job'[j].step = q
      BY <1>2, <1>3, <1>4, <2>1, <2>2, <3>1, <3>2 DEF Lone, Installing, Upgrading, Removing, At
    <3>3. CASE job'[j].step = "failed"
      BY <1>2, <1>3, <2>1, <2>2, <3>1, <3>3 DEF Lone, Upgrading, At
    <3> QED BY <3>1, <3>2, <3>3
  <2>10. CASE Run(j)
    <3>1. /\ job[j].step = "run" /\ Advances(j) /\ finisher' = "stop" /\ fetched' = fetched
      BY <2>2, <2>10 DEF Run, At, FinisherSteps
    <3>2. job'[j].step = "ended" /\ job[j].kind \in {"upgrade", "update"}
      BY <1>1, <1>3, <3>1, Advanced DEF q
    <3> QED BY <1>2, <1>4, <2>1, <3>1, <3>2 DEF Lone, Upgrading, At
  <2>11. CASE Disable(j) \/ RemoveBinary(j) \/ Removes(j, "unlink", "unit")
              \/ Removes(j, "rmconfig", "config") \/ Removes(j, "rmlog", "log")
    <3>1. /\ finisher' = finisher /\ service' = service /\ job'[j].step = q
          /\ job[j].step \in {"disable", "unlink", "rmbinary", "rmconfig", "rmlog"}
      BY <1>1, <2>11, Advanced DEF Disable, RemoveBinary, Removes, At, q
    <3>2. job[j].kind = "remove"
      BY <1>3, <1>4, <3>1 DEF Lone
    <3>3. Removing(j)'
      BY <1>3, <1>4, <2>11, <3>1, <3>2 DEF Lone, Removing, Disable, RemoveBinary, Removes, At
    <3> QED BY <1>2, <2>1, <2>2, <3>1, <3>2, <3>3 DEF Lone
  <2> QED BY <2>3, <2>4, <2>5, <2>6, <2>7, <2>8, <2>9, <2>10, <2>11
<1> QED BY <1>1, <1>2, <1>4, LoneActs

LEMMA ErrsStep ==
  ASSUME ScriptsInv, NEW j \in Jobs, Errs(j)
  PROVE  JobsOK' /\ \A i \in alone' : Lone(i)'
<1> USE DEF ScriptsInv
<1>1. Active(j) /\ alone' = {}
  BY DEF Errs
<1>2. Goes(j, "ended") \/ Goes(j, "failed") \/ Advances(j)
  BY DEF Errs, FetchesPage
<1>3. "ended" \in Over
  BY DEF Over
<1> QED BY <1>1, <1>2, <1>3, Advanced, FailedIs, Moved

LEMMA BeginStep ==
  ASSUME ScriptsInv, NEW j \in Jobs, NEW kind \in Kinds, Begin(j, kind)
  PROVE  JobsOK' /\ \A i \in alone' : Lone(i)'
<1> USE DEF ScriptsInv
<1> DEFINE p == ScriptSteps[kind][1]
<1>1. /\ job' = [job EXCEPT ![j] = [kind |-> kind, step |-> p]]
      /\ DOMAIN job = Jobs /\ finisher' = finisher
      /\ alone' = IF finisher = "none" /\ \A k \in Jobs : ~Active(k) THEN {j} ELSE {}
  BY DEF Begin, JobsOK
<1>2. /\ p \in StepsOf(kind)
      /\ kind = "install" => p = "fetch"
      /\ kind = "upgrade" => p = "check"
      /\ kind = "update" => p = "get"
      /\ kind \in {"remove", "uninstall"} => p = "stop"
  BY InstallGoes, UpgradeGoes, UpdateGoes, RemoveGoes DEF Kinds, ByOperator, ByAgent
<1> HIDE DEF p
<1>3. /\ DOMAIN job' = Jobs /\ job'[j].kind = kind /\ job'[j].step = p
      /\ job'[j] = [kind |-> kind, step |-> p]
      /\ \A k \in Jobs : k # j => job'[k] = job[k]
  BY <1>1
<1>4. JobsOK'
  <2>1. ASSUME NEW k \in Jobs
        PROVE  \E kd \in Kinds : \E step \in Over \cup StepsOf(kd) :
                 job'[k] = [kind |-> kd, step |-> step]
    <3>1. CASE k = j
      BY <1>2, <1>3, <3>1
    <3>2. CASE k # j
      BY <1>3, <3>2 DEF JobsOK
    <3> QED BY <3>1, <3>2
  <2> QED BY <1>3, <2>1 DEF JobsOK
<1>5. ASSUME finisher = "none", \A k \in Jobs : ~Active(k) PROVE Lone(j)'
  <2>1. \A k \in Jobs : k # j => ~Active(k)'
    BY <1>3, <1>5 DEF Active
  <2> QED BY <1>1, <1>2, <1>3, <1>5, <2>1
          DEF Lone, Installing, Upgrading, Removing, At, Kinds, ByOperator, ByAgent
<1> QED BY <1>1, <1>4, <1>5

LEMMA StopStep ==
  ASSUME ScriptsInv, NEW j \in Jobs, Stop(j)
  PROVE  JobsOK' /\ \A i \in alone' : Lone(i)'
<1> USE DEF ScriptsInv
<1>1. /\ Active(j) /\ job[j].step = "stop" /\ service' = "stopped"
      /\ UNCHANGED <<enabled, files, binary, fetched, finisher, alone, errors>>
  BY DEF Stop, At, Active, Over
<1>2. job[j].kind \in {"remove", "uninstall"}
  BY <1>1, Following
<1>3. /\ DOMAIN job' = Jobs
      /\ job[j].kind = "remove" => job'[j] = [kind |-> "remove", step |-> "disable"]
      /\ job[j].kind = "uninstall" => job'[j] = Killed[j]
      /\ \A k \in Jobs : k # j => job'[k] = Killed[k]
  <2>1. CASE job[j].kind = "remove"
    <3>1. job' = [Killed EXCEPT ![j].step = "disable"]
      BY <2>1, RemoveGoes DEF Stop, ByAgent
    <3>2. Killed[j] = [kind |-> "remove", step |-> "stop"]
      <4>1. Killed[j] = job[j]
        BY <2>1, KilledIs DEF ByAgent
      <4> QED BY <1>1, <2>1, <4>1, JobIs
    <3> QED BY <2>1, <3>1, <3>2, KilledIs
  <2>2. CASE job[j].kind = "uninstall"
    <3>1. job' = Killed
      BY <2>2 DEF Stop, ByAgent
    <3> QED BY <2>2, <3>1, KilledIs
  <2> QED BY <1>2, <2>1, <2>2
<1>4. JobsOK'
  <2>1. "remove" \in Kinds /\ "disable" \in StepsOf("remove")
    BY RemoveGoes DEF Kinds, ByOperator
  <2>2. ASSUME NEW k \in Jobs
        PROVE  \E kd \in Kinds : \E step \in Over \cup StepsOf(kd) :
                 job'[k] = [kind |-> kd, step |-> step]
    <3>1. CASE k = j /\ job[j].kind = "remove"
      BY <1>3, <2>1, <3>1
    <3>2. CASE ~(k = j /\ job[j].kind = "remove")
      <4>1. job'[k] = Killed[k]
        BY <1>2, <1>3, <3>2
      <4> QED BY <4>1, KilledIs
    <3> QED BY <3>1, <3>2
  <2> QED BY <1>3, <2>2 DEF JobsOK
<1>5. ASSUME j \in alone, Lone(j) PROVE Lone(j)'
  <2>1. \A k \in Jobs : k # j => job'[k] = job[k] /\ ~Active(k)'
    <3>1. \A k \in Jobs : k # j => ~Active(k)
      BY <1>5 DEF Lone
    <3>2. \A k \in Jobs : k # j => job'[k] = job[k]
      BY <1>3, <3>1, KilledIs
    <3> QED BY <3>1, <3>2 DEF Active
  <2>2. finisher' = "none"
    BY <1>1, <1>5 DEF Lone, At
  <2>3. CASE job[j].kind = "remove"
    <3>1. job'[j].kind = "remove" /\ job'[j].step = "disable"
      BY <1>3, <2>3
    <3> QED BY <1>1, <2>1, <2>2, <3>1 DEF Lone, Removing, At
  <2>4. CASE job[j].kind = "uninstall"
    <3>1. job'[j].kind = "uninstall" /\ job'[j].step = "killed"
      BY <1>1, <1>3, <2>4, KilledIs DEF ByAgent
    <3> QED BY <2>1, <2>2, <3>1 DEF Lone
  <2> QED BY <1>2, <2>3, <2>4
<1> QED BY <1>1, <1>4, <1>5, LoneActs

LEMMA FinisherStep ==
  ASSUME ScriptsInv, FinisherStops \/ FinisherCopies \/ FinisherCleans \/ FinisherStarts
  PROVE  JobsOK' /\ \A i \in alone' : Lone(i)'
<1> USE DEF ScriptsInv
<1>1. finisher \in {"stop", "copy", "clean", "start"}
  BY DEF FinisherStops, FinisherCopies, FinisherCleans, FinisherStarts, FinisherAt
<1>2. JobsOK'
  <2>1. job' = job \/ job' = Killed
    BY DEF FinisherStops, FinisherCopies, FinisherCleans, FinisherStarts
  <2>2. CASE job' = job
    BY <2>2 DEF JobsOK
  <2>3. CASE job' = Killed
    BY <2>3, KilledIs DEF JobsOK
  <2> QED BY <2>1, <2>2, <2>3
<1>3. alone' = alone \/ alone' = {}
  BY DEF FinisherStops, FinisherCopies, FinisherCleans, FinisherStarts
<1>4. ASSUME NEW i \in alone, alone' = alone PROVE Lone(i)'
  <2>1. /\ i \in Jobs /\ Lone(i) /\ fetched \in [{"install", "upgrade"} -> Binaries]
    BY DEF ScriptsTypeOK
  <2>2. /\ job[i].kind \in {"upgrade", "update"} /\ job[i].step = "ended" /\ Upgrading(i)
        /\ \A k \in Jobs : ~Active(k)
    BY <1>1, <2>1 DEF Lone, At, Active, Over
  <2>3. \A k \in Jobs : job'[k] = job[k]
    <3>1. job' = job \/ job' = Killed
      BY DEF FinisherStops, FinisherCopies, FinisherCleans, FinisherStarts
    <3> QED BY <2>2, <3>1, KilledIs
  <2>4. \A k \in Jobs : k # i => ~Active(k)'
    BY <2>2, <2>3 DEF Active
  <2>5. job'[i].kind = job[i].kind /\ job'[i].step = "ended"
    BY <2>1, <2>2, <2>3
  <2>6. Upgrading(i)'
    <3>1. CASE FinisherStops
      <4>1. /\ finisher = "stop" /\ finisher' = "copy" /\ service' = "stopped"
            /\ fetched' = fetched
        BY <3>1, FinisherGoes DEF FinisherStops, FinisherAt
      <4> QED BY <2>2, <2>5, <4>1 DEF Upgrading, At
    <3>2. CASE FinisherCopies
      <4>1. finisher = "copy" /\ finisher' = "clean" /\ UNCHANGED <<service, fetched>>
        BY <3>2, FinisherGoes DEF FinisherCopies, FinisherAt
      <4>2. fetched["upgrade"] = "new" /\ service = "stopped"
        BY <2>2, <4>1 DEF Upgrading, At
      <4>3. binary' = "new"
        BY <1>4, <3>2, <4>2 DEF FinisherCopies
      <4> QED BY <2>5, <4>1, <4>2, <4>3 DEF Upgrading, At
    <3>3. CASE FinisherCleans
      <4>1. finisher = "clean" /\ finisher' = "start" /\ UNCHANGED <<service, binary>>
        BY <3>3, FinisherGoes DEF FinisherCleans, FinisherAt
      <4> QED BY <2>2, <2>5, <4>1 DEF Upgrading, At
    <3>4. CASE FinisherStarts
      <4>1. /\ finisher = "start" /\ finisher' = "none" /\ UNCHANGED <<binary, files>>
            /\ StartService
        BY <3>4, FinisherGoes DEF FinisherStarts, FinisherAt
      <4>2. service = "stopped" /\ binary = "new"
        BY <2>2, <4>1 DEF Upgrading, At
      <4>3. "unit" \in files => service' = "new"
        BY <4>1, <4>2 DEF StartService, Versions
      <4> QED BY <2>5, <4>1, <4>2, <4>3 DEF Upgrading, At
    <3> QED BY <3>1, <3>2, <3>3, <3>4
  <2> QED BY <2>2, <2>4, <2>5, <2>6 DEF Lone, At
<1> QED BY <1>2, <1>3, <1>4

LEMMA ScriptsInvInit == ScriptsInit => ScriptsInv
<1> SUFFICES ASSUME ScriptsInit PROVE ScriptsInv
  OBVIOUS
<1>1. ScriptsTypeOK
  <2>1. errors \in 0 .. MaxErrors /\ alone \subseteq Jobs
    BY ScriptsAssumption DEF ScriptsInit
  <2>2. /\ service \in Versions \cup {"stopped", "failing"} /\ enabled \in BOOLEAN
        /\ files \subseteq {"unit", "config", "log"} /\ binary \in Binaries
        /\ finisher \in {"none"}
    BY DEF ScriptsInit, Versions, Binaries
  <2>3. fetched \in [{"install", "upgrade"} -> Binaries]
    BY DEF ScriptsInit, Binaries
  <2> QED BY <2>1, <2>2, <2>3 DEF ScriptsTypeOK
<1>2. JobsOK
  <2>1. "install" \in Kinds /\ "idle" \in Over
    BY DEF Kinds, ByOperator, Over
  <2> QED BY <2>1 DEF ScriptsInit, JobsOK
<1> QED BY <1>1, <1>2 DEF ScriptsInit, ScriptsInv

LEMMA ScriptsInvNext == ScriptsInv /\ [ScriptsNext]_scriptVars => ScriptsInv'
<1> SUFFICES ASSUME ScriptsInv, [ScriptsNext]_scriptVars PROVE ScriptsInv'
  OBVIOUS
<1>1. ScriptsTypeOK'
  BY ScriptsTypeStep DEF ScriptsInv
<1>2. CASE UNCHANGED scriptVars
  BY <1>1, <1>2 DEF ScriptsInv, JobsOK, Lone, Installing, Upgrading, Removing, At, Active, scriptVars
<1>3. CASE FinisherStops \/ FinisherCopies \/ FinisherCleans \/ FinisherStarts
  BY <1>1, <1>3, FinisherStep DEF ScriptsInv
<1>4. ASSUME NEW j \in Jobs,
             \/ \E kind \in ByOperator \cup ByAgent : Begin(j, kind)
             \/ Fetch(j) \/ Fetched(j) \/ Errs(j)
             \/ Move(j) \/ WriteFile(j, "config") \/ WriteFile(j, "unit") \/ Enable(j)
             \/ StartUp(j)
             \/ GetScript(j) \/ Check(j) \/ WriteScript(j) \/ Run(j)
             \/ Stop(j) \/ Disable(j) \/ RemoveBinary(j)
             \/ Removes(j, "unlink", "unit") \/ Removes(j, "rmconfig", "config")
             \/ Removes(j, "rmlog", "log")
      PROVE  ScriptsInv'
  <2>1. CASE \E kind \in ByOperator \cup ByAgent : Begin(j, kind)
    BY <1>1, <2>1, BeginStep DEF ScriptsInv, Kinds
  <2>2. CASE Errs(j)
    BY <1>1, <2>2, ErrsStep DEF ScriptsInv
  <2>3. CASE Stop(j)
    BY <1>1, <2>3, StopStep DEF ScriptsInv
  <2>4. JobsOK' /\ (\A i \in alone' : Lone(i)') => ScriptsInv'
    BY <1>1 DEF ScriptsInv
  <2> QED BY <1>4, <2>1, <2>2, <2>3, <2>4, InstallStep
<1> QED BY <1>2, <1>3, <1>4 DEF ScriptsNext

(* A script that nothing disturbs does what it is for, with any number of  *)
(* jobs and errors before it (install.sh, agent.go runSelfUpdate): an      *)
(* upgrade by the agent itself outlives the stop of its service.           *)
THEOREM ScriptsAlwaysWork == ScriptsSpec => []ScriptsWork
<1>1. ASSUME ScriptsInv PROVE ScriptsWork
  <2>1. ScriptsTypeOK
    BY <1>1 DEF ScriptsInv
  <2>2. ASSUME NEW j \in alone, At(j, "ended"), finisher = "none"
        PROVE  CASE job[j].kind = "install" ->
                      enabled /\ {"unit", "config"} \subseteq files /\ binary = "new"
                        /\ service \in Versions
                 [] job[j].kind \in {"upgrade", "update"} ->
                      binary = "new" /\ ("unit" \in files => service = "new")
                 [] OTHER -> Gone /\ files = {}
    <3>1. j \in Jobs /\ Lone(j) /\ JobsOK
      BY <1>1 DEF ScriptsInv, ScriptsTypeOK
    <3>2. job[j].kind \in {"install", "upgrade", "update", "remove", "uninstall"}
      BY <3>1, JobIs DEF Kinds, ByOperator, ByAgent
    <3>3. CASE job[j].kind = "install"
      BY <2>2, <3>1, <3>3 DEF Lone, Installing, At
    <3>4. CASE job[j].kind \in {"upgrade", "update"}
      BY <2>2, <3>1, <3>4 DEF Lone, Upgrading, At
    <3>5. CASE job[j].kind = "remove"
      <4>1. files \subseteq {"unit", "config", "log"}
        BY <2>1 DEF ScriptsTypeOK
      <4>2. Gone /\ files = {}
        BY <2>2, <3>1, <3>5, <4>1 DEF Lone, Removing, At, Gone
      <4> QED BY <3>5, <4>2
    <3>6. CASE job[j].kind = "uninstall"
      BY <2>2, <3>1, <3>6 DEF Lone, At
    <3> QED BY <3>2, <3>3, <3>4, <3>5, <3>6
  <2> QED BY <2>1, <2>2 DEF ScriptsWork
<1> QED BY <1>1, ScriptsInvInit, ScriptsInvNext, PTL DEF ScriptsSpec
=============================================================================
