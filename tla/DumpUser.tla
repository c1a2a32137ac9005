------------------------------ MODULE DumpUser ------------------------------
(***************************************************************************)
(* opProvisionDumpUser of internal/database/ops_provision.go: it gives the *)
(* MySQL user cloudnan_dump a fresh password, grants it what exports need, *)
(* proves that it can log in, and stores it as the instance's credential.  *)
(* Commands run in goroutines of their own, so that several calls may be   *)
(* under way; the user belongs to the server, of which the vault may hold  *)
(* several instances.                                                      *)
(*                                                                         *)
(* A credential is the number of the password it was made from; Admin is   *)
(* the one the operator connected with.  A statement may fail, the server  *)
(* not answer in time, or the agent stop: a call fails between any two     *)
(* statements.  alone is a history variable.                               *)
(***************************************************************************)
EXTENDS Naturals

CONSTANTS
  Provisions, \* calls of provision_dump_user, each made once
  Instances,  \* instances of the vault on the one server
  MaxFails    \* bound: calls that fail

Admin == 0

ASSUME DumpUserAssumption == MaxFails \in Nat

VARIABLES
  password,  \* the server's password of cloudnan_dump, 0 if there is no user
  granted,   \* cloudnan_dump has its privileges
  vault,     \* vault[i]: the credential of instance i
  step,      \* step[c]: the statement call c is at
  target,    \* target[c]: its instance
  via,       \* via[c]: credential its connection uses (Admin: socket or operator)
  minted,    \* minted[c]: the password it made
  alone,     \* alone[c]: no other call was under way during it so far
  drawn, fails

provisionCallVars == <<target, via, minted, drawn>>
provisionVars == <<password, granted, vault, step, target, via, minted, alone,
                   drawn, fails>>

StepTo(c, place) == step' = [step EXCEPT ![c] = place]
Provisioning == {c \in Provisions : step[c] \notin {"idle", "done", "failed"}}

DUInit ==
  /\ password = 0
  /\ granted = FALSE
  /\ vault = [i \in Instances |-> Admin]
  /\ step = [c \in Provisions |-> "idle"]
  /\ target \in [Provisions -> Instances]
  /\ via = [c \in Provisions |-> Admin]
  /\ minted = [c \in Provisions |-> 0]
  /\ alone = [c \in Provisions |-> TRUE]
  /\ drawn = 0
  /\ fails = 0

(* Open via the socket as root, else with the vault's credential, which    *)
(* must still be accepted; then draw the password.                         *)
OpenForProvision(c) ==
  /\ step[c] = "idle"
  /\ StepTo(c, "create")
  /\ \E v \in {Admin, vault[target[c]]} :
       /\ v \in {Admin, password}
       /\ via' = [via EXCEPT ![c] = v]
  /\ drawn' = drawn + 1
  /\ minted' = [minted EXCEPT ![c] = drawn + 1]
  /\ alone' = [d \in Provisions |->
                 alone[d] /\ (Provisioning = {} \/ d \notin Provisioning \cup {c})]
  /\ UNCHANGED <<password, granted, vault, target, fails>>

(* Mutant: the credential is stored before the password is changed.        *)
CreateAfterPut(c) ==
  /\ step[c] = "create"
  /\ vault' = [vault EXCEPT ![target[c]] = minted[c]]
  /\ IF via[c] = Admin
       THEN /\ StepTo(c, "alter")
            /\ password' = IF password = 0 THEN minted[c] ELSE password
       ELSE StepTo(c, "failed") /\ UNCHANGED password
  /\ UNCHANGED <<granted, provisionCallVars, alone, fails>>

(* CREATE USER IF NOT EXISTS: cloudnan_dump itself may not create users.   *)
CreateDumpUser(c) ==
  /\ step[c] = "create"
  /\ IF via[c] = Admin
       THEN /\ StepTo(c, "alter")
            /\ password' = IF password = 0 THEN minted[c] ELSE password
       ELSE StepTo(c, "failed") /\ UNCHANGED password
  /\ UNCHANGED <<granted, vault, provisionCallVars, alone, fails>>

AlterUser(c) ==
  /\ step[c] = "alter"
  /\ password' = minted[c]
  /\ StepTo(c, "grant")
  /\ UNCHANGED <<granted, vault, provisionCallVars, alone, fails>>

(* GRANT and FLUSH PRIVILEGES. *)
GrantDumpUser(c) ==
  /\ step[c] = "grant"
  /\ granted' = TRUE
  /\ StepTo(c, "verify")
  /\ UNCHANGED <<password, vault, provisionCallVars, alone, fails>>

(* Open and ping as cloudnan_dump with the new password. *)
Verify(c) ==
  /\ step[c] = "verify"
  /\ StepTo(c, IF password = minted[c] THEN "put" ELSE "failed")
  /\ UNCHANGED <<password, granted, vault, provisionCallVars, alone, fails>>

(* vault.Put, atomic as VaultStore shows for one agent process. *)
PutCredential(c) ==
  /\ step[c] = "put"
  /\ vault' = [vault EXCEPT ![target[c]] = minted[c]]
  /\ StepTo(c, "done")
  /\ UNCHANGED <<password, granted, provisionCallVars, alone, fails>>

DUFail(c) ==
  /\ c \in Provisioning
  /\ fails < MaxFails
  /\ fails' = fails + 1
  /\ StepTo(c, "failed")
  /\ UNCHANGED <<password, granted, vault, provisionCallVars, alone>>

DUNext ==
  \E c \in Provisions :
    \/ OpenForProvision(c) \/ CreateDumpUser(c) \/ AlterUser(c) \/ GrantDumpUser(c) \/ Verify(c)
    \/ PutCredential(c) \/ DUFail(c)

DUSpec == DUInit /\ [][DUNext]_provisionVars

-----------------------------------------------------------------------------
DUTypeOK ==
  /\ password \in 0..drawn
  /\ granted \in BOOLEAN
  /\ vault \in [Instances -> 0..drawn]
  /\ step \in [Provisions -> {"idle", "create", "alter", "grant", "verify", "put",
                          "done", "failed"}]
  /\ target \in [Provisions -> Instances]
  /\ via \in [Provisions -> 0..drawn]
  /\ minted \in [Provisions -> 0..drawn]
  /\ alone \in [Provisions -> BOOLEAN]
  /\ drawn \in Nat /\ fails \in 0..MaxFails

(* What an export can log in with and use. *)
Works(cred) == cred = Admin \/ (cred = password /\ granted)

(***************************************************************************)
(* A credential of the vault stops working only where the login was given  *)
(* another password by a call that failed or is still under way, that was  *)
(* for another instance of the same server, or that overlapped another     *)
(* call; so a call that reports success and overlapped none leaves its     *)
(* instance with a login that works, whatever half-finished calls came     *)
(* before it.  (ops_provision.go:132-201; of the cases that are left out   *)
(* see PreviousStaysValid.)                                                *)
(***************************************************************************)
StaleOnlyByRotation ==
  \A i \in Instances : ~Works(vault[i]) =>
    \E c \in Provisions :
      /\ minted[c] = password
      /\ \/ step[c] \in {"alter", "grant", "verify", "put", "failed"}
         \/ target[c] # i
         \/ ~alone[c]

ProvisionsSound == DUTypeOK /\ StaleOnlyByRotation

(***************************************************************************)
(* ops_provision.go:11-14, "Why this is safe to run on a working instance: *)
(* it only ADDS a new user ... The previous credential stays valid in the  *)
(* database until the operator drops it": what the vault holds for an      *)
(* instance always works.                                                  *)
(***************************************************************************)
PreviousStaysValid == \A i \in Instances : Works(vault[i])
=============================================================================
