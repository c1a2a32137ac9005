---------------------------- MODULE MCLogFollower ---------------------------
(* Instances of LogFollower for TLC: the bounds are in the .cfg files. *)
EXTENDS LogFollower
=============================================================================
