------------------------------ MODULE MCBackup ------------------------------
(* Instances of Backup for TLC: the bounds are in the .cfg file. *)
EXTENDS Backup
=============================================================================
