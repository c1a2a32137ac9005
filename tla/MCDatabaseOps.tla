---------------------------- MODULE MCDatabaseOps ----------------------------
(***************************************************************************)
(* Instances for TLC of CreateDatabase, DumpUser, InstanceOps and          *)
(* SupabaseMigrate, and of the vault of one agent.  As they are modelled   *)
(* they share no state of the agent, so that a behaviour is one of any of  *)
(* them: the variables of the others stay as they are.                     *)
(***************************************************************************)
EXTENDS CreateDatabase, DumpUser, InstanceOps, SupabaseMigrate, VaultStore, TLC

CONSTANTS p1

VARIABLE operation  \* the scenario: "create", "provision", "instance", "migrate"
                    \* or "vault"

(* The goroutines of one agent.  Files are interchangeable, and the first  *)
(* that is free is taken.                                                  *)
OneProcess == [t \in Threads |-> p1]
InOrder == \A i \in FreeInodes \ FreeInodes' : \A j \in FreeInodes : i <= j

(* Two instances, the first of them PostgreSQL; rows are limited to 1 by   *)
(* default and to 2 at most.                                               *)
Command(op, i, t, writes, readOnly, limit) ==
  [op |-> op, inst |-> i, target |-> t, write |-> writes, readOnly |-> readOnly, limit |-> limit]
SomeCommands ==
  {Command(op, "i1", "", FALSE, FALSE, 0) : op \in {"connect", "disconnect", "ping"}}
    \cup {Command("drop_db", i, "db", FALSE, FALSE, 0) : i \in {"i1", "i2"}}
    \cup {Command("drop_user", "i1", "u", FALSE, FALSE, 0),
          Command("exec_query", "i1", "db", FALSE, TRUE, 0),
          Command("exec_query", "i1", "db", TRUE, TRUE, 0),
          Command("exec_query", "i2", "db", TRUE, FALSE, 3)}

AnyRequest ==
  [db |-> CHOOSE n \in Names : TRUE, owner |-> NoOwner, grantAll |-> FALSE]

Creates ==
  /\ operation = "create"
  /\ Init
  /\ target = [p \in Provisions |-> CHOOSE i \in Instances : TRUE]
  /\ DUInit

(* Nothing is created, and one fixed request stays as it is. *)
Others ==
  /\ DUInit
  /\ engine = "mysql" /\ request = [c \in Calls |-> AnyRequest]
  /\ Init

OpsInit ==
  /\ IOInit /\ SMInit /\ VaultInit
  /\ \/ Creates
     \/ operation \in {"instance", "migrate", "vault"} /\ Others
          /\ target = [p \in Provisions |-> CHOOSE i \in Instances : TRUE]
     \/ operation = "provision" /\ Others

OpsNext ==
  \/ operation = "create" /\ Next
       /\ UNCHANGED <<operation, provisionVars, ioVars, smVars, vaultVars>>
  \/ operation = "provision" /\ DUNext
       /\ UNCHANGED <<operation, vars, ioVars, smVars, vaultVars>>
  \/ operation = "instance" /\ IONext
       /\ UNCHANGED <<operation, vars, provisionVars, smVars, vaultVars>>
  \/ operation = "migrate" /\ SMNext
       /\ UNCHANGED <<operation, vars, provisionVars, ioVars, vaultVars>>
  \/ operation = "vault" /\ VaultNext /\ InOrder
       /\ UNCHANGED <<operation, vars, provisionVars, ioVars, smVars>>

allVars == <<operation, vars, provisionVars, ioVars, smVars, vaultVars>>
OpsSpec == OpsInit /\ [][OpsNext]_allVars

(* All calls and goroutines are model values of one set, two of which are  *)
(* interchangeable in every operation.                                     *)
Symmetry == Permutations(Calls)
=============================================================================
