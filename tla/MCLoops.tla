------------------------------- MODULE MCLoops -------------------------------
(***************************************************************************)
(* Instances for TLC of the agent's background loops: the session loop,    *)
(* the log shipper, the container followers, the metrics, and the way the  *)
(* secret of the operation tokens takes.  They share no variable, so that  *)
(* a behaviour is one of any of them: the variables of the others stay as  *)
(* they are.                                                               *)
(***************************************************************************)
EXTENDS AgentSession, LogFollower, LogShipper

CONSTANTS
  LastGen, IOMaxFaults,           \* see InstanceOps
  LastTime, MaxStreamFails, Window \* see Collector, MetricsStream

VARIABLES
  loop,  \* "session", "shipper", "follower", "metrics" or "secret"
  clock, over, cache, collector, since, ticked, parts, missed, latest, stalled, probeFails,
  sender, ended, wire, acks, panel, streamFails,
  ioPanel, ioSecret, ioAnswers, ioTokens, ioClock, ioVault, ioServer, ioCall,
  ioFaults, ioDone

(* No probe fails here: what is left is the snapshots' way to the panel.   *)
Metrics ==
  INSTANCE MetricsStream WITH
    cancelled <- ended, failed <- missed, MaxProbeFails <- 0, MaxStreams <- MaxSessions

(* No commands here: what is left is the secret. *)
Secret ==
  INSTANCE InstanceOps WITH
    IOCalls <- {}, IOInstances <- {}, IOPostgres <- {}, IOCommands <- {}, IODefault <- 1,
    IOMax <- 1, MostRows <- 0, IOLastTime <- 0, IOMaxTokens <- 0, This <- "this", Other <- "other"

LoopsInit ==
  /\ loop \in {"session", "shipper", "follower", "metrics", "secret"}
  /\ Init /\ LSInit /\ Metrics!Init /\ Secret!IOInit
  /\ LFInit /\ (loop # "follower" => running = {})

metricsVars == <<clock, over, cache, collector, since, ticked, parts, missed, latest, stalled, probeFails,
                 sender, ended, wire, acks, panel, streamFails>>
secretVars == <<ioPanel, ioSecret, ioAnswers, ioTokens, ioClock, ioVault, ioServer, ioCall,
                ioFaults, ioDone>>
all == <<loop, vars, lsVars, lfVars, metricsVars, secretVars>>

OfSession(Step) ==
  loop = "session" /\ Step /\ UNCHANGED <<loop, lsVars, lfVars, metricsVars, secretVars>>
OfShipper(Step) ==
  loop = "shipper" /\ Step /\ UNCHANGED <<loop, vars, lfVars, metricsVars, secretVars>>
OfFollower(Step) ==
  loop = "follower" /\ Step /\ UNCHANGED <<loop, vars, lsVars, metricsVars, secretVars>>
OfMetrics(Step) ==
  loop = "metrics" /\ Step /\ UNCHANGED <<loop, vars, lsVars, lfVars, secretVars>>
OfSecret(Step) ==
  loop = "secret" /\ Step /\ UNCHANGED <<loop, vars, lsVars, lfVars, metricsVars>>

LoopsNext ==
  \/ OfSession(Next) \/ OfShipper(LSNext) \/ OfFollower(LFNext)
  \/ OfMetrics(Metrics!Next) \/ OfSecret(Secret!IONext)

(* The fairness of each loop, where its module justifies it.  Only one     *)
(* loop runs, so that fairness of a disjunction is fairness of its action. *)
LoopsFairness ==
  /\ WF_all(\/ OfSession(Advance \/ RegisterFails)
            \/ OfShipper(StartSession)
            \/ OfFollower(Scan)
            \/ OfMetrics(\E s \in Metrics!Sessions : Metrics!StartSession(s))
            \/ OfSecret(Secret!AnswerHeartbeat))
  /\ WF_all(\/ OfSession(Signal)
            \/ OfSecret(\E a \in ioAnswers : Secret!SetOpTokenSecret(a)))
  /\ \A s \in 1..MaxSessions :
       /\ WF_all(OfShipper(Sender(s)) \/ OfMetrics(Metrics!Sender(s)))
       /\ WF_all(OfShipper(Notice(s)) \/ OfMetrics(Metrics!Deliver(s)))
       /\ WF_all(OfShipper(Receive(s)) \/ OfMetrics(Metrics!DrainAcks(s)))
  /\ \A c \in Containers :
       /\ WF_all(OfFollower(ChildWrites(c))) /\ WF_all(OfFollower(ChildExits(c)))
       /\ WF_all(OfFollower(Goroutine(c)))

LoopsSpec == LoopsInit /\ [][LoopsNext]_all /\ LoopsFairness

(* What the modules state of their loop; the followers' properties hold of *)
(* the other loops, which start no container.                              *)
SessionSettles == loop = "session" => Settles /\ Stops
ShipperDrains == loop = "shipper" => Drains
MetricsArrive == Metrics!MetricsArrive
SecretSettles == loop = "secret" => Secret!SecretSettles
=============================================================================
