---------------------------- MODULE MCVaultStore ----------------------------
(***************************************************************************)
(* Instances of VaultStore for TLC: the goroutines of one process, and two *)
(* processes that share the vault directory.                               *)
(***************************************************************************)
EXTENDS VaultStore, TLC

CONSTANTS p1, p2, t1, t2, t3

OneProcess == [t \in {t1, t2, t3} |-> p1]
TwoProcesses == (t1 :> p1) @@ (t2 :> p2) @@ (t3 :> p1)
OneEach == (t1 :> p1) @@ (t2 :> p2)

Symmetry == Permutations(Ids) \cup Permutations(Creds) \cup Permutations(Inodes)
SymmetryOne == Symmetry \cup Permutations({t1, t2, t3})
=============================================================================
