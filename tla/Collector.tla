----------------------------- MODULE Collector -----------------------------
(***************************************************************************)
(* The collector that rebuilds the metrics' snapshot, one goroutine for as *)
(* long as the agent lives, and the caches of its slow probes.             *)
(*                                                                         *)
(* Time is counted in intervals of 5 seconds, and what happens takes place *)
(* at a tick: the second that the CPU sample takes is none.  A list is the *)
(* time at which it was collected, 0 for nil, and full unless an error is  *)
(* what was found.  The base collection, which asks every file system for  *)
(* its usage, and the count of the top processes' connections have no      *)
(* deadline: they take as long as they take.  A child that does not die of *)
(* the signal at its deadline is left out, and so is a base collection     *)
(* that fails, which publishes nothing.                                    *)
(***************************************************************************)
EXTENDS Integers, Sequences

CONSTANTS
  LastTime,        \* bound: the clock stops here
  MaxProbeFails    \* bound: probes that fail or reach their deadline

ASSUME CollectorAssumption == LastTime \in Nat \ {0} /\ MaxProbeFails \in Nat

VARIABLES
  clock,
  over,        \* the agent's context is cancelled
  cache,       \* list -> the cached value
  collector,   \* what the collector does: waits, collects the base, probes for
               \* a list, counts connections, publishes
  since,       \* since when it does
  ticked,      \* the tick of the ticker that this collection took
  parts,       \* list -> what this collection has of it
  failed,      \* history: the lists whose probe failed in this collection
  latest,      \* latestMetrics
  stalled,     \* history: the intervals since latest that went into what has
               \* no deadline
  probeFails

collectorVars == <<cache, collector, since, ticked, parts, failed, latest, probeFails>>

(* The lists in the order in which a collection asks for them, and how     *)
(* long a probe may take: the scan of the processes 8 seconds, a child 5;  *)
(* ufw may be looked for in two places before it is asked.                 *)
Order == <<"processes", "services", "containers", "firewall">>
Lists == {Order[i] : i \in DOMAIN Order}
Shell == Lists \ {"processes"}
Unbounded == {"base", "connections"}
Bound == [processes |-> 2, services |-> 1, containers |-> 1, firewall |-> 3]
TTL == 3

Nil == [at |-> 0, full |-> FALSE]
None == [at |-> 0, lists |-> [l \in Lists |-> Nil]]
Values == [at : 0..LastTime, full : BOOLEAN]

CollectorInit ==
  /\ clock = 1 /\ cache = [l \in Lists |-> Nil]
  /\ collector = "wait" /\ since = 1 /\ ticked = 0
  /\ parts = [l \in Lists |-> Nil] /\ failed = {}
  /\ latest = None /\ stalled = 0 /\ probeFails = 0 /\ over = FALSE

-----------------------------------------------------------------------------
Fresh(l) == cache[l] # Nil /\ clock - cache[l].at < TTL

Place(l) == CHOOSE i \in DOMAIN Order : Order[i] = l
After(l) == IF l = Order[Len(Order)] THEN "publish" ELSE Order[Place(l) + 1]

(* What the collector must do before the clock goes on. *)
Due ==
  \/ collector = "wait" /\ clock > ticked
  \/ collector = "publish"
  \/ collector \in Lists /\ (Fresh(collector) \/ clock >= since + Bound[collector])

Tick ==
  /\ ~Due /\ clock < LastTime /\ clock' = clock + 1
  /\ stalled' = IF collector \in Unbounded THEN stalled + 1 ELSE stalled
  /\ UNCHANGED collectorVars

(* Mutant: every collection has caches of its own. *)
StartCollectAnew ==
  /\ collector = "wait" /\ clock > ticked
  /\ collector' = "base" /\ since' = clock /\ ticked' = clock
  /\ parts' = [l \in Lists |-> Nil] /\ cache' = [l \in Lists |-> Nil] /\ failed' = {}
  /\ UNCHANGED <<clock, latest, stalled, probeFails>>

(* Of a tick and the end of the context that are both there select takes   *)
(* either; the first collection looks at neither.                          *)
StartCollect ==
  /\ collector = "wait" /\ clock > ticked
  /\ collector' = "base" /\ since' = clock /\ ticked' = clock
  /\ parts' = [l \in Lists |-> Nil] /\ failed' = {}
  /\ UNCHANGED <<clock, cache, latest, stalled, probeFails>>

CollectorReturns ==
  /\ collector = "wait" /\ over /\ ticked > 0
  /\ collector' = "done"
  /\ UNCHANGED <<clock, cache, since, ticked, parts, failed, latest, stalled, probeFails>>

(* What takes no probe is done; the scan of the processes has an answer.   *)
Proceed(place) ==
  /\ collector' = place /\ since' = clock
  /\ UNCHANGED <<clock, cache, ticked, parts, failed, latest, stalled, probeFails>>

CollectBase == collector = "base" /\ Proceed("processes")
ScanProcesses == collector = "processes" /\ ~Fresh("processes") /\ Proceed("connections")

(* The getter of l leaves this in the cache and returns that. *)
Serve(l, cached, served) ==
  /\ cache' = [cache EXCEPT ![l] = cached]
  /\ parts' = [parts EXCEPT ![l] = served]
  /\ collector' = After(l) /\ since' = clock
  /\ UNCHANGED <<clock, ticked, latest, stalled>>

ServeCached(l) ==
  /\ collector = l /\ Fresh(l)
  /\ Serve(l, cache[l], cache[l])
  /\ UNCHANGED <<failed, probeFails>>

(* The list of the processes is complete when the connections are counted. *)
Probe(l) ==
  LET fresh == [at |-> clock, full |-> TRUE]
  IN  /\ IF l \in Shell THEN collector = l /\ ~Fresh(l) ELSE collector = "connections"
      /\ Serve(l, fresh, fresh)
      /\ UNCHANGED <<failed, probeFails>>

ProbeFailing(l) ==
  /\ collector = l /\ ~Fresh(l) /\ probeFails < MaxProbeFails
  /\ probeFails' = probeFails + 1 /\ failed' = failed \cup {l}

(* At the deadline the scan of the processes is abandoned and nil takes    *)
(* the place of the cached list; a shell-out serves its last good value.   *)
TimesOut(l) ==
  LET left == IF l \in Shell THEN cache[l] ELSE Nil
  IN  /\ ProbeFailing(l) /\ clock = since + Bound[l]
      /\ Serve(l, left, left)

(* An error that comes earlier: for the processes and for ufw it is a      *)
(* value like any other, and cached.                                       *)
Errs(l) ==
  LET left == IF l \in {"services", "containers"} THEN cache[l]
              ELSE [at |-> clock, full |-> FALSE]
  IN  ProbeFailing(l) /\ Serve(l, left, left)

Publish ==
  /\ collector = "publish"
  /\ latest' = [at |-> clock, lists |-> parts]
  /\ collector' = "wait" /\ since' = clock /\ stalled' = 0
  /\ UNCHANGED <<clock, cache, ticked, parts, failed, probeFails>>

Collect ==
  \/ StartCollect \/ CollectorReturns \/ CollectBase \/ ScanProcesses \/ Publish
  \/ \E l \in Lists : ServeCached(l) \/ Probe(l) \/ TimesOut(l) \/ Errs(l)

(* The agent is stopped. *)
Stop == ~over /\ over' = TRUE /\ UNCHANGED <<clock, stalled, collectorVars>>

CollectorNext == ((Tick \/ Collect) /\ UNCHANGED over) \/ Stop

meVars == <<clock, over, stalled, collectorVars>>
CollectorSpec == CollectorInit /\ [][CollectorNext]_meVars

-----------------------------------------------------------------------------
CollectorTypeOK ==
  /\ clock \in 1..LastTime /\ since \in 1..LastTime /\ ticked \in 0..LastTime
  /\ cache \in [Lists -> Values] /\ parts \in [Lists -> Values] /\ failed \subseteq Lists
  /\ collector \in {"wait", "publish", "done"} \cup Unbounded \cup Lists
  /\ latest \in [at : 0..LastTime, lists : [Lists -> Values]]
  /\ over \in BOOLEAN /\ stalled \in 0..LastTime /\ probeFails \in 0..MaxProbeFails

(* What the running collection has got so far. *)
Served ==
  IF collector = "publish" THEN Lists
  ELSE {l \in Lists : collector \in Lists /\ Place(l) < Place(collector)}

(* "A wedged daemon can never block metric collection indefinitely"        *)
(* (monitor.go:151-153): the probes keep the snapshot no longer than their *)
(* bounds together; it is older than one interval and one collection only  *)
(* by what went into the base and into the connections.                    *)
SnapshotsCurrent ==
  collector = "done" \/ clock - latest.at <= 1 + 2 + 1 + 1 + 3 + stalled

(* "The last good value is served if a refresh times out" (monitor.go:127): *)
(* a list of services, containers or rules never goes back to an earlier   *)
(* one, and a good one never gives way to none or to an error, but the     *)
(* rules to a later error of ufw, which takes the place of the good value. *)
LastGoodServed ==
  \A l \in Shell \cap Served :
    /\ parts[l].at >= latest.lists[l].at
    /\ latest.lists[l].full /\ ~parts[l].full =>
         l = "firewall" /\ parts[l].at > latest.lists[l].at

(* What was not probed for in vain is less than TTL older than the         *)
(* collection, however long the probes before it took.                     *)
ListsFresh == \A l \in Served \ failed : parts[l].at > ticked - TTL

MetricsSound == CollectorTypeOK /\ SnapshotsCurrent /\ LastGoodServed /\ ListsFresh
=============================================================================
