---------------------------- MODULE LogFollower -----------------------------
(***************************************************************************)
(* The container followers of internal/agent/logshipper.go.  A scan every  *)
(* 15 seconds asks docker for the running containers and looks at them one *)
(* by one: under the mutex, whether the container is followed; if not,     *)
(* under the mutex again, it enters the followed set and a goroutine       *)
(* starts.  That one runs `docker logs --follow --tail 0`, whose lines     *)
(* reach scanLines through a pipe, until the container stops and its tail  *)
(* is drained; it waits for the child, and only then takes the container   *)
(* out of the set.  Meanwhile containers stop and start and scans go on.   *)
(*                                                                         *)
(* A line is "short" (at most truncated) or "huge": of 64 KiB or more,     *)
(* which does not fit the buffer scanLines gives its bufio.Scanner, so     *)
(* that Scan returns false and scanLines returns.  Docker and the pipe are *)
(* external; stdout and stderr are one pipe here.                          *)
(***************************************************************************)
EXTENDS Naturals, Sequences

CONSTANTS
  Containers,
  Kinds,      \* what containers log: a subset of {"short", "huge"}
  PipeCap,    \* lines the pipe holds
  MaxLines,   \* bound: lines a container logs
  MaxStops,   \* bound: containers that stop
  MaxRefused, \* bound: pipes and children that cannot be made
  Nothing     \* no container

ASSUME LogFollowerAssumption ==
  /\ PipeCap \in Nat /\ MaxLines \in Nat /\ MaxStops \in Nat /\ MaxRefused \in Nat
  /\ Nothing \notin Containers

VARIABLES
  running,   \* the running containers
  listed,    \* what docker ps said, less what the scan has looked at
  adding,    \* the container that the scan found not to be followed, or Nothing
  followed,  \* the map of runDockerFollower
  followers, \* followers[c]: how many goroutines follow container c
  child,     \* child[c]: the latest `docker logs` of container c
  scanner,   \* scanner[c]: where the latest goroutine that follows c is
  backlog,   \* backlog[c]: lines logged since the child was started
  pipe,      \* pipe[c]: lines the child wrote and scanLines has not read
  logged, stops, refused

scanVars == <<listed, adding>>
readVars == <<child, scanner, backlog, pipe>>
lfBounds == <<logged, stops, refused>>
lfVars == <<running, scanVars, followed, followers, readVars, lfBounds>>

LFInit ==
  /\ running \in SUBSET Containers
  /\ listed = {}
  /\ adding = Nothing
  /\ followed = {}
  /\ followers = [c \in Containers |-> 0]
  /\ child = [c \in Containers |-> "none"]
  /\ scanner = [c \in Containers |-> "none"]
  /\ backlog = [c \in Containers |-> <<>>]
  /\ pipe = [c \in Containers |-> <<>>]
  /\ logged = [c \in Containers |-> 0]
  /\ stops = 0
  /\ refused = 0

-----------------------------------------------------------------------------
(* Containers *)

StartContainer(c) ==
  /\ c \notin running
  /\ running' = running \cup {c}
  /\ UNCHANGED <<scanVars, followed, followers, readVars, lfBounds>>

StopContainer(c) ==
  /\ c \in running
  /\ stops < MaxStops
  /\ stops' = stops + 1
  /\ running' = running \ {c}
  /\ UNCHANGED <<scanVars, followed, followers, readVars, logged, refused>>

Log(c) ==
  /\ c \in running
  /\ logged[c] < MaxLines
  /\ logged' = [logged EXCEPT ![c] = @ + 1]
  /\ \E k \in Kinds :
       backlog' = [backlog EXCEPT ![c] =
                     IF child[c] = "alive" THEN Append(@, k) ELSE @]
  /\ UNCHANGED <<running, scanVars, followed, followers, child, scanner, pipe, stops, refused>>

-----------------------------------------------------------------------------
(* docker logs *)

ChildWrites(c) ==
  /\ child[c] = "alive"
  /\ backlog[c] # <<>>
  /\ Len(pipe[c]) < PipeCap
  /\ pipe' = [pipe EXCEPT ![c] = Append(@, Head(backlog[c]))]
  /\ backlog' = [backlog EXCEPT ![c] = Tail(@)]
  /\ UNCHANGED <<running, scanVars, followed, followers, child, scanner, lfBounds>>

(* It follows a container to its end, and past a restart if it is late.    *)
ChildExits(c) ==
  /\ child[c] = "alive"
  /\ backlog[c] = <<>>
  /\ c \notin running
  /\ child' = [child EXCEPT ![c] = "exited"]
  /\ UNCHANGED <<running, scanVars, followed, followers, scanner, backlog, pipe, lfBounds>>

-----------------------------------------------------------------------------
(* The scan *)

(* The ticker fires; docker ps answers.  By the time that the scan gets to *)
(* a container it may have stopped.                                        *)
StartScan ==
  /\ listed = {}
  /\ running # {}
  /\ listed' = running
  /\ UNCHANGED <<running, adding, followed, followers, readVars, lfBounds>>

(* mu.Lock(); _, already := followed[id]; mu.Unlock() *)
Check(c) ==
  /\ c \in listed
  /\ adding = Nothing
  /\ IF c \in followed THEN listed' = listed \ {c} /\ UNCHANGED adding
     ELSE adding' = c /\ UNCHANGED listed
  /\ UNCHANGED <<running, followed, followers, readVars, lfBounds>>

(* mu.Lock(); followed[id] = cancel; mu.Unlock(); go func *)
Follow(c) ==
  /\ adding = c
  /\ adding' = Nothing
  /\ listed' = listed \ {c}
  /\ followed' = followed \cup {c}
  /\ followers' = [followers EXCEPT ![c] = @ + 1]
  /\ scanner' = [scanner EXCEPT ![c] = "starting"]
  /\ UNCHANGED <<running, child, backlog, pipe, lfBounds>>

-----------------------------------------------------------------------------
(* The goroutine that follows a container *)

StartChild(c) ==
  /\ scanner[c] = "starting"
  /\ child' = [child EXCEPT ![c] = "alive"]
  /\ scanner' = [scanner EXCEPT ![c] = "reading"]
  /\ UNCHANGED <<running, scanVars, followed, followers, backlog, pipe, lfBounds>>

(* StdoutPipe, StderrPipe or Start fails: followContainer returns.         *)
StartFails(c) ==
  /\ scanner[c] = "starting"
  /\ refused < MaxRefused
  /\ refused' = refused + 1
  /\ scanner' = [scanner EXCEPT ![c] = "ended"]
  /\ UNCHANGED <<running, scanVars, followed, followers, child, backlog, pipe, logged, stops>>

(* scanLines reads a line into the ring, or gives up on one that is huge.  *)
ReadLine(c) ==
  /\ scanner[c] = "reading"
  /\ pipe[c] # <<>>
  /\ pipe' = [pipe EXCEPT ![c] = Tail(@)]
  /\ scanner' = IF Head(pipe[c]) = "huge"
                  THEN [scanner EXCEPT ![c] = "gaveup"] ELSE scanner
  /\ UNCHANGED <<running, scanVars, followed, followers, child, backlog, lfBounds>>

ReadEOF(c) ==
  /\ scanner[c] = "reading"
  /\ pipe[c] = <<>>
  /\ child[c] = "exited"
  /\ scanner' = [scanner EXCEPT ![c] = "gone"]
  /\ UNCHANGED <<running, scanVars, followed, followers, child, backlog, pipe, lfBounds>>

(* Mutant: followContainer returns with the readers, without cmd.Wait.     *)
WaitNot(c) ==
  /\ scanner[c] \in {"gone", "gaveup"}
  /\ scanner' = [scanner EXCEPT ![c] = "ended"]
  /\ UNCHANGED <<running, scanVars, followed, followers, child, backlog, pipe, lfBounds>>

(* wg.Wait, cmd.Wait: the readers have returned and the child has exited;  *)
(* what it left in the pipe is dropped.                                    *)
Wait(c) ==
  /\ scanner[c] \in {"gone", "gaveup"}
  /\ child[c] = "exited"
  /\ scanner' = [scanner EXCEPT ![c] = "ended"]
  /\ child' = [child EXCEPT ![c] = "none"]
  /\ pipe' = [pipe EXCEPT ![c] = <<>>]
  /\ UNCHANGED <<running, scanVars, followed, followers, backlog, lfBounds>>

(* Mutant: a follower that ends leaves its container in the set.           *)
UnfollowNot(c) ==
  /\ scanner[c] = "ended"
  /\ scanner' = [scanner EXCEPT ![c] = "none"]
  /\ followers' = [followers EXCEPT ![c] = @ - 1]
  /\ UNCHANGED <<running, scanVars, followed, child, backlog, pipe, lfBounds>>

(* mu.Lock(); delete(followed, id); mu.Unlock() *)
Unfollow(c) ==
  /\ scanner[c] = "ended"
  /\ scanner' = [scanner EXCEPT ![c] = "none"]
  /\ followed' = followed \ {c}
  /\ followers' = [followers EXCEPT ![c] = @ - 1]
  /\ UNCHANGED <<running, scanVars, child, backlog, pipe, lfBounds>>

Scan == StartScan \/ \E c \in Containers : Check(c) \/ Follow(c)
Goroutine(c) ==
  StartChild(c) \/ ReadLine(c) \/ ReadEOF(c) \/ Wait(c) \/ Unfollow(c)
LFNext ==
  \/ Scan
  \/ \E c \in Containers :
       \/ StartContainer(c) \/ StopContainer(c) \/ Log(c)
       \/ ChildWrites(c) \/ ChildExits(c)
       \/ Goroutine(c) \/ StartFails(c)

LFSpec == LFInit /\ [][LFNext]_lfVars

(* Fairness: the ticker fires, processes and goroutines run.  Containers   *)
(* may start, stop and log as they like.                                   *)
LFFairness ==
  /\ WF_lfVars(Scan)
  /\ \A c \in Containers :
       /\ WF_lfVars(ChildWrites(c)) /\ WF_lfVars(ChildExits(c))
       /\ WF_lfVars(Goroutine(c))

LFFairSpec == LFSpec /\ LFFairness

-----------------------------------------------------------------------------
LFTypeOK ==
  /\ running \subseteq Containers /\ followed \subseteq Containers
  /\ listed \subseteq Containers /\ adding \in Containers \cup {Nothing}
  /\ followers \in [Containers -> Nat]
  /\ child \in [Containers -> {"none", "alive", "exited"}]
  /\ scanner \in [Containers -> {"none", "starting", "reading", "gone", "gaveup", "ended"}]
  /\ backlog \in [Containers -> Seq(Kinds)]
  /\ pipe \in [Containers -> Seq(Kinds)]
  /\ \A c \in Containers : Len(pipe[c]) <= PipeCap
  /\ logged \in [Containers -> 0..MaxLines]
  /\ stops \in 0..MaxStops
  /\ refused \in 0..MaxRefused

(***************************************************************************)
(* A container has one follower exactly while it is in the set, though the *)
(* scan lets go of the mutex between its look and its entry, works through *)
(* a list that is out of date, and followers end beside it.  So no line is *)
(* shipped twice: nobody else reads, and no `docker logs` outlives the     *)
(* goroutine that started it.                                              *)
(***************************************************************************)
FollowedOnce ==
  /\ LFTypeOK
  /\ \A c \in Containers :
       /\ followers[c] = IF c \in followed THEN 1 ELSE 0
       /\ (c \in followed) <=> (scanner[c] # "none")
       /\ child[c] # "none" => scanner[c] \in {"reading", "gone", "gaveup"}
       /\ child[c] = "none" => pipe[c] = <<>> /\ backlog[c] = <<>>

(***************************************************************************)
(* logshipper.go:197-199, "the container drops out of the followed set so  *)
(* a restart re-follows it": a container that runs for good is in the end  *)
(* read for good, whatever stops and restarts came before, unless its      *)
(* reader gave up on a huge line; and what the child writes is read.       *)
(***************************************************************************)
RestartsAreFollowed ==
  \A c \in Containers :
    /\ (<>[](c \in running)) =>
         <>[](scanner[c] = "reading") \/ <>[](scanner[c] = "gaveup")
    /\ (pipe[c] # <<>>) ~> (pipe[c] = <<>> \/ scanner[c] = "gaveup")

(***************************************************************************)
(* logshipper.go:33-34: "longer lines are truncated with a marker so a     *)
(* megabyte JSON blob can't monopolise the stream": a container goes on    *)
(* being read after a huge line.                                           *)
(***************************************************************************)
HugeLinesTruncated ==
  \A c \in Containers : (<>[](c \in running)) => <>[](scanner[c] = "reading")
=============================================================================
