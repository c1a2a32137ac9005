------------------------------- MODULE LogRing ------------------------------
(***************************************************************************)
(* lineRing of internal/agent/logshipper.go: the bounded deque between the *)
(* log collectors and the log sender.  Each operation holds the ring's     *)
(* mutex from beginning to end, so each is one function of the buffer.     *)
(***************************************************************************)
EXTENDS Naturals, Sequences

CONSTANT Cap   \* logRingCapacity

ASSUME LogRingAssumption == Cap \in Nat \ {0}

Full(buf) == Len(buf) >= Cap

(* All but the last element. *)
Front(buf) == SubSeq(buf, 1, Len(buf) - 1)

(* Mutant: a full ring forgets its newest line. *)
PushEvictsNewest(buf, line) == Append(IF Full(buf) THEN Front(buf) ELSE buf, line)

(* push: a full ring forgets its oldest line. *)
Push(buf, line) == Append(IF Full(buf) THEN Tail(buf) ELSE buf, line)

PushEvicts(buf) == IF Full(buf) THEN {buf[1]} ELSE {}

(* pushFront: a full ring forgets its newest line. *)
PushFront(buf, line) == <<line>> \o (IF Full(buf) THEN Front(buf) ELSE buf)
PushFrontEvicts(buf) == IF Full(buf) THEN {buf[Len(buf)]} ELSE {}

(* The lines a buffer holds. *)
Held(buf) == {buf[i] : i \in 1..Len(buf)}

(* Oldest first, no line twice. *)
Ascending(buf) == \A i, j \in 1..Len(buf) : i < j => buf[i] < buf[j]
=============================================================================
