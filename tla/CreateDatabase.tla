--------------------------- MODULE CreateDatabase ---------------------------
(***************************************************************************)
(* opCreateDB of internal/database/ops_create.go: CREATE DATABASE, then    *)
(* for an owner CREATE USER, GRANT and a last statement (FLUSH PRIVILEGES  *)
(* on MySQL, ALTER DATABASE ... OWNER TO on PostgreSQL), with DROP         *)
(* statements to compensate for a failure on the way.  Commands run in     *)
(* goroutines of their own, and drop_db may come in between.               *)
(*                                                                         *)
(* The server is external: a name is taken or free, and the model keeps    *)
(* which call made what has it.  MySQL keeps privileges by name, also when *)
(* the database is gone; PostgreSQL drops them with it.  A statement may   *)
(* fail without effect, or take effect and lose its reply; both cost one   *)
(* of MaxFaults.  Errors of the compensating statements are ignored, as in *)
(* the code.  excused is a history variable.                               *)
(***************************************************************************)
EXTENDS Naturals

CONSTANTS
  Calls,      \* create_db commands, each given once
  Names,      \* names of databases
  Users,      \* names of owners
  NoOwner,    \* a request without an owner
  BadOwner,   \* an owner without a user name or a password
  Nobody,     \* a name nothing has
  MaxFaults,  \* bound: statements that fail or lose their reply
  MaxDrops    \* bound: drop_db commands

ASSUME CreateDatabaseAssumption ==
  /\ NoOwner \notin Users /\ BadOwner \notin Users /\ NoOwner # BadOwner
  /\ Nobody \notin Calls
  /\ MaxFaults \in Nat /\ MaxDrops \in Nat

Requests ==
  [db : Names, owner : Users \cup {NoOwner, BadOwner}, grantAll : BOOLEAN]

VARIABLES
  engine,  \* of the server: "mysql" or "postgresql"
  dbs,     \* dbs[n]: the call that made database n, or Nobody
  users,   \* users[u]: the call that made user u, or Nobody
  grants,  \* pairs <<database name, user name>> with privileges
  owner,   \* owner[n]: the user PostgreSQL made the owner of n, or Nobody
  request, \* request[c]: what call c asks for
  pc,      \* pc[c]: the statement call c is at
  excused, \* calls a fault hit where the code has no compensation for it
  faults, drops

server == <<dbs, users, grants, owner>>
given == <<engine, request>>
vars == <<given, server, pc, excused, faults, drops>>

Postgres == engine = "postgresql"

Goto(c, step) == pc' = [pc EXCEPT ![c] = step]
Db(c) == request[c].db
Owner(c) == request[c].owner

Init ==
  /\ engine \in {"mysql", "postgresql"}
  /\ dbs = [n \in Names |-> Nobody]
  /\ users = [u \in Users |-> Nobody]
  /\ grants = {}
  /\ owner = [n \in Names |-> Nobody]
  /\ request \in [Calls -> Requests]
  /\ pc = [c \in Calls |-> "create"]
  /\ excused = {}
  /\ faults = 0
  /\ drops = 0

Fault == faults < MaxFaults /\ faults' = faults + 1

(* The statements whose errors are returned or ignored as they are. *)
Unprotected(c) == pc[c] \in {"settle", "undo user", "undo db"}

(* A statement with the effect Effect, and where its outcomes lead: it is  *)
(* executed, refused, executed with its reply lost, or fails.              *)
Statement(c, refused, Effect, onOk, onError) ==
  \/ /\ ~refused /\ Effect
     /\ Goto(c, onOk)
     /\ UNCHANGED <<faults, excused>>
  \/ /\ refused
     /\ Goto(c, onError)
     /\ UNCHANGED <<server, faults, excused>>
  \/ /\ Fault /\ ~refused /\ Effect
     /\ Goto(c, onError)
     /\ excused' = excused \cup {c}
  \/ /\ Fault
     /\ Goto(c, onError)
     /\ excused' = IF Unprotected(c) THEN excused \cup {c} ELSE excused
     /\ UNCHANGED server

(* Mutant: an error of CREATE DATABASE is compensated like the others. *)
CreateDbCompensates(c) ==
  /\ pc[c] = "create"
  /\ Statement(c, dbs[Db(c)] # Nobody,
       dbs' = [dbs EXCEPT ![Db(c)] = c] /\ UNCHANGED <<users, grants, owner>>,
       CASE Owner(c) = NoOwner -> "done"
         [] Owner(c) = BadOwner -> "undo db"
         [] OTHER -> "user",
       "undo db")
  /\ UNCHANGED <<given, drops>>

CreateDb(c) ==
  /\ pc[c] = "create"
  /\ Statement(c, dbs[Db(c)] # Nobody,
       dbs' = [dbs EXCEPT ![Db(c)] = c] /\ UNCHANGED <<users, grants, owner>>,
       CASE Owner(c) = NoOwner -> "done"
         [] Owner(c) = BadOwner -> "undo db"
         [] OTHER -> "user",
       "failed")
  /\ UNCHANGED <<given, drops>>

CreateUser(c) ==
  /\ pc[c] = "user"
  /\ Statement(c, users[Owner(c)] # Nobody,
       users' = [users EXCEPT ![Owner(c)] = c] /\ UNCHANGED <<dbs, grants, owner>>,
       IF request[c].grantAll THEN "grant" ELSE "done",
       "undo db")
  /\ UNCHANGED <<given, drops>>

Grant(c) ==
  /\ pc[c] = "grant"
  /\ Statement(c, Postgres /\ dbs[Db(c)] = Nobody,
       grants' = grants \cup {<<Db(c), Owner(c)>>} /\ UNCHANGED <<dbs, users, owner>>,
       "settle", "undo user")
  /\ UNCHANGED <<given, drops>>

(* FLUSH PRIVILEGES, or ALTER DATABASE: an error returns at once. *)
Settle(c) ==
  /\ pc[c] = "settle"
  /\ Statement(c, Postgres /\ dbs[Db(c)] = Nobody,
       /\ owner' = IF Postgres THEN [owner EXCEPT ![Db(c)] = Owner(c)] ELSE owner
       /\ UNCHANGED <<dbs, users, grants>>,
       "done", "failed")
  /\ UNCHANGED <<given, drops>>

(* PostgreSQL refuses to drop a user that has privileges. *)
UndoUser(c) ==
  /\ pc[c] = "undo user"
  /\ LET u == Owner(c)
         held == {g \in grants : g[2] = u}
     IN
       Statement(c, users[u] = Nobody \/ (Postgres /\ held # {}),
         /\ users' = [users EXCEPT ![u] = Nobody]
         /\ grants' = grants \ held
         /\ UNCHANGED <<dbs, owner>>,
         "undo db", "undo db")
  /\ UNCHANGED <<given, drops>>

DropIt(n) ==
  /\ dbs' = [dbs EXCEPT ![n] = Nobody]
  /\ owner' = [owner EXCEPT ![n] = Nobody]
  /\ grants' = {g \in grants : Postgres => g[1] # n}
  /\ UNCHANGED users

UndoDb(c) ==
  /\ pc[c] = "undo db"
  /\ Statement(c, dbs[Db(c)] = Nobody, DropIt(Db(c)), "undone", "undone")
  /\ UNCHANGED <<given, drops>>

(* drop_db of another command. *)
DropDb(n) ==
  /\ dbs[n] # Nobody
  /\ drops < MaxDrops
  /\ drops' = drops + 1
  /\ DropIt(n)
  /\ UNCHANGED <<given, pc, excused, faults>>

Next ==
  \/ \E c \in Calls :
       \/ CreateDb(c) \/ CreateUser(c) \/ Grant(c) \/ Settle(c)
       \/ UndoUser(c) \/ UndoDb(c)
  \/ \E n \in Names : DropDb(n)

Spec == Init /\ [][Next]_vars

-----------------------------------------------------------------------------
TypeOK ==
  /\ engine \in {"mysql", "postgresql"} /\ excused \subseteq Calls
  /\ dbs \in [Names -> Calls \cup {Nobody}]
  /\ users \in [Users -> Calls \cup {Nobody}]
  /\ grants \subseteq Names \X Users
  /\ owner \in [Names -> Users \cup {Nobody}]
  /\ request \in [Calls -> Requests]
  /\ pc \in [Calls -> {"create", "user", "grant", "settle", "undo user",
                       "undo db", "undone", "done", "failed"}]
  /\ faults \in 0..MaxFaults /\ drops \in 0..MaxDrops

Made(c) ==
  {n \in Names : dbs[n] = c} \cup {u \in Users : users[u] = c}

(***************************************************************************)
(* What a call reports as created is there, until a drop_db: no rollback   *)
(* of another call with the same names, however they interleave and        *)
(* whatever fails, takes away the database, its owner or the privileges.   *)
(***************************************************************************)
NoCallUndone ==
  \A c \in Calls : pc[c] = "done" /\ drops = 0 =>
    /\ dbs[Db(c)] = c
    /\ Owner(c) # NoOwner => users[Owner(c)] = c
    /\ Owner(c) # NoOwner /\ request[c].grantAll =>
         <<Db(c), Owner(c)>> \in grants /\ (Postgres => owner[Db(c)] = Owner(c))

(***************************************************************************)
(* ops_create.go:246-248: "the caller's mental model - either the whole op *)
(* succeeded or nothing changed - holds across a partial failure": a call  *)
(* that returns an error has left nothing behind, whatever other calls do, *)
(* unless a reply was lost or the fault hit the last statement (FLUSH      *)
(* PRIVILEGES, OWNER TO) or a compensating one, which nothing compensates. *)
(***************************************************************************)
FailureLeavesNothing ==
  drops = 0 =>
    \A c \in Calls \ excused : pc[c] \in {"failed", "undone"} => Made(c) = {}

(* A create_db undoes nothing of another's, and a failed one leaves        *)
(* nothing.                                                                *)
CreatesAllOrNothing == TypeOK /\ NoCallUndone /\ FailureLeavesNothing
=============================================================================
