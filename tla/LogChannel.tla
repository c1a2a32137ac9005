----------------------------- MODULE LogChannel -----------------------------
(***************************************************************************)
(* What the log shipper promises about each collected line: it is pending  *)
(* until it is either delivered to the control plane, once, or dropped,    *)
(* and a dropped line is never delivered.  Collecting a line may drop      *)
(* another one (a full ring), and so may putting one back.  A broken       *)
(* connection drops the lines it carried.                                  *)
(***************************************************************************)
EXTENDS Naturals

CONSTANT Lines      \* the lines, in the order they are collected

VARIABLE fate       \* fate[l]: "new", "pending", "delivered" or "dropped"

Become(L, f) == [l \in Lines |-> IF l \in L THEN f ELSE fate[l]]
Pending == {l \in Lines : fate[l] = "pending"}

ChInit == fate = [l \in Lines |-> "new"]

Collect(l) ==
  /\ fate[l] = "new"
  /\ \E D \in SUBSET Pending :
       fate' = [Become(D, "dropped") EXCEPT ![l] = "pending"]

Deliver(l) ==
  /\ fate[l] = "pending"
  /\ fate' = [fate EXCEPT ![l] = "delivered"]

Drop(D) ==
  /\ D \subseteq Pending
  /\ fate' = Become(D, "dropped")

ChNext ==
  \/ \E l \in Lines : Collect(l) \/ Deliver(l)
  \/ \E D \in SUBSET Pending : Drop(D)

ChSpec == ChInit /\ [][ChNext]_fate
=============================================================================
