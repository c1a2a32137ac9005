------------------------------ MODULE VaultKey ------------------------------
(***************************************************************************)
(* How the vault's key file comes to exist: OpenVault's loadOrCreateKey    *)
(* (internal/database/vault.go), run once per agent process by             *)
(* ensureVault's sync.Once (handler.go), which keeps an error for good.    *)
(* Several agents may start in the same directory; a process may die, or a *)
(* write fail, between any two steps.                                      *)
(*                                                                         *)
(* A key is the number of the attempt that generated it: two attempts      *)
(* never draw the same 32 random bytes.                                    *)
(***************************************************************************)
EXTENDS Naturals

CONSTANTS
  Procs,        \* agent processes
  MaxCrashes,   \* bound: how often a process dies
  MaxFailures,  \* bound: how many system calls fail
  Absent,       \* no file
  Empty         \* a file of 0 bytes

ASSUME VaultKeyAssumption ==
  /\ MaxCrashes \in Nat /\ MaxFailures \in Nat
  /\ Absent \notin Nat /\ Empty \notin Nat /\ Absent # Empty

VARIABLES
  keyFile,     \* db-vault.key: Absent, Empty (created, not written) or a key
  blobKey,     \* the key db-vault.enc is encrypted with, or Absent
  pc,          \* pc[p]: where p's OpenVault is, then "ready" or "failed"
  drawn,       \* drawn[p]: the key p has generated
  generated,   \* how many keys were generated
  crashes, failures

vars == <<keyFile, blobKey, pc, drawn, generated, crashes, failures>>

IsKey(f) == f \notin {Absent, Empty}

Goto(p, step) == pc' = [pc EXCEPT ![p] = step]

Init ==
  /\ keyFile = Absent
  /\ blobKey = Absent
  /\ pc = [p \in Procs |-> "stat"]
  /\ drawn = [p \in Procs |-> 0]
  /\ generated = 0
  /\ crashes = 0
  /\ failures = 0

(* os.Stat(keyPath): generate when absent, refuse a wrong size. *)
StatKey(p) ==
  /\ pc[p] = "stat"
  /\ \/ /\ keyFile = Absent
        /\ generated' = generated + 1
        /\ drawn' = [drawn EXCEPT ![p] = generated + 1]
        /\ Goto(p, "create")
     \/ /\ keyFile # Absent
        /\ Goto(p, IF IsKey(keyFile) THEN "load" ELSE "failed")
        /\ UNCHANGED <<generated, drawn>>
  /\ UNCHANGED <<keyFile, blobKey, crashes, failures>>

(* Mutant: O_TRUNC in place of O_EXCL. *)
CreateKeyTruncates(p) ==
  /\ pc[p] = "create"
  /\ keyFile' = Empty
  /\ Goto(p, "write")
  /\ UNCHANGED <<blobKey, drawn, generated, crashes, failures>>

(* O_CREATE|O_EXCL: exactly one process creates the file, the others fall  *)
(* through to loadKey.                                                     *)
CreateKey(p) ==
  /\ pc[p] = "create"
  /\ \/ keyFile = Absent /\ keyFile' = Empty /\ Goto(p, "write")
     \/ keyFile # Absent /\ UNCHANGED keyFile /\ Goto(p, "load")
  /\ UNCHANGED <<blobKey, drawn, generated, crashes, failures>>

WriteKey(p) ==
  /\ pc[p] = "write"
  /\ keyFile' = drawn[p]
  /\ Goto(p, "ready")
  /\ UNCHANGED <<blobKey, drawn, generated, crashes, failures>>

(* The write fails: the half-made file is removed, the error is kept. *)
WriteKeyFails(p) ==
  /\ pc[p] = "write"
  /\ failures < MaxFailures
  /\ failures' = failures + 1
  /\ keyFile' = Absent
  /\ Goto(p, "failed")
  /\ UNCHANGED <<blobKey, drawn, generated, crashes>>

(* Mutant: loadKey without the check of the length. *)
LoadKeyOfAnyLength(p) ==
  /\ pc[p] = "load"
  /\ Goto(p, "ready")
  /\ UNCHANGED <<keyFile, blobKey, drawn, generated, crashes, failures>>

(* loadKey: the file must hold 32 bytes by now. *)
LoadKey(p) ==
  /\ pc[p] = "load"
  /\ Goto(p, IF IsKey(keyFile) THEN "ready" ELSE "failed")
  /\ UNCHANGED <<keyFile, blobKey, drawn, generated, crashes, failures>>

(* A Put of an opened vault: readAll decrypts what is there, writeAll      *)
(* encrypts with the key it loads from the file again.                     *)
Put(p) ==
  /\ pc[p] = "ready"
  /\ IsKey(keyFile)
  /\ blobKey \in {Absent, keyFile}
  /\ blobKey' = keyFile
  /\ UNCHANGED <<keyFile, pc, drawn, generated, crashes, failures>>

(* The process dies and is restarted: a new sync.Once. *)
Crash(p) ==
  /\ crashes < MaxCrashes
  /\ crashes' = crashes + 1
  /\ Goto(p, "stat")
  /\ drawn' = [drawn EXCEPT ![p] = 0]
  /\ UNCHANGED <<keyFile, blobKey, generated, failures>>

Next ==
  \E p \in Procs :
    \/ StatKey(p) \/ CreateKey(p) \/ WriteKey(p) \/ WriteKeyFails(p)
    \/ LoadKey(p) \/ Put(p) \/ Crash(p)

Spec == Init /\ [][Next]_vars

-----------------------------------------------------------------------------
TypeOK ==
  /\ keyFile \in {Absent, Empty} \cup Nat
  /\ blobKey \in {Absent} \cup Nat
  /\ pc \in [Procs -> {"stat", "create", "write", "load", "ready", "failed"}]
  /\ drawn \in [Procs -> Nat]
  /\ generated \in Nat

(***************************************************************************)
(* A vault that opened stays usable: the key it opened with is on disk,    *)
(* and whatever was encrypted so far decrypts with it.  Two agents that    *)
(* both believed they created the key, or a cleanup that removes another   *)
(* agent's key, would lose every stored credential (vault.go:232-268).     *)
(***************************************************************************)
OpenVaultUsable ==
  /\ \A p \in Procs : pc[p] = "ready" => IsKey(keyFile)
  /\ blobKey # Absent => keyFile = blobKey

(* Once complete, the key file never changes and never goes away, whatever *)
(* crashes, failures and other starting agents do.                         *)
KeyNeverReplaced == [][IsKey(keyFile) => keyFile' = keyFile]_vars
=============================================================================
