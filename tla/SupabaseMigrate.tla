--------------------------- MODULE SupabaseMigrate ---------------------------
(***************************************************************************)
(* The steps by which the panel moves a Supabase database onto this host   *)
(* (database/supabase_ops.go, supabase.go): dump, restore, verify, storage *)
(* sync, functions and cleanup of one run.  Each is a command with a       *)
(* goroutine of its own; the panel may repeat a step and cancel the run    *)
(* with a cleanup while another step is under way.                         *)
(*                                                                         *)
(* What the programs do (pg_dump, psql, pg_restore, docker, git) is        *)
(* external: each may fail, and then have done a part.  A file or a        *)
(* database is "none", "part" or "whole".  Passwords of the service roles  *)
(* are the stack's own, or others for at least one of them.  The stack may *)
(* be installed again at any time, with a password of its own again.       *)
(***************************************************************************)
EXTENDS Naturals

CONSTANTS
  SMCalls,    \* commands
  Container,  \* is the destination a full stack, reached through docker?
  SMMaxFaults \* bound: programs that fail, and restarts of the agent

ASSUME SMAssumption == SMMaxFaults \in Nat

Ops == {"dump", "restore", "verify", "functions", "cleanup"}
Amounts == {"none", "part", "whole"}
Count(amount) == CASE amount = "none" -> 0 [] amount = "part" -> 1 [] OTHER -> 2

VARIABLES
  smDir,   \* the run's artifacts: does the directory exist, and its two files
  smStack, \* the stack: its containers, its working tree, its data, its
           \* roles' passwords, its functions, its storage objects
  smCall,  \* smCall[c]: where call c is, and what it has found out
  smFaults

smVars == <<smDir, smStack, smCall, smFaults>>

NoDir == [there |-> FALSE, roles |-> "none", dump |-> "none"]
FreshStack == [up |-> TRUE, tree |-> TRUE, data |-> "none", pass |-> "own", functions |-> "none",
               objects |-> "none"]
NoStack == [up |-> FALSE, tree |-> FALSE, data |-> "none", pass |-> "own", functions |-> "none",
               objects |-> "none"]
NoSMCall == [pc |-> "idle", knows |-> "nothing", open |-> "no", source |-> 0, dest |-> 0]

(* The stack has been installed, and is empty. *)
SMInit ==
  /\ smDir = NoDir /\ smStack = FreshStack
  /\ smCall = [c \in SMCalls |-> NoSMCall]
  /\ smFaults = 0

SMAt(c, place) == smCall[c].pc = place
SMGoto(c, place) == smCall' = [smCall EXCEPT ![c].pc = place]
SMEnd(c, how) == smCall' = [smCall EXCEPT ![c] = [NoSMCall EXCEPT !.pc = how]]
Under(places) == {c \in SMCalls : smCall[c].pc \in places}
Restoring == Under({"pg_restore", "reset"})
Ended == {"idle", "done", "failed", "unreset", "verified"}

(* A failure is counted, and may come at most SMMaxFaults times.           *)
SMFault == smFaults < SMMaxFaults /\ smFaults' = smFaults + 1
SMNoFault == UNCHANGED smFaults

BeginDump(c) ==
  /\ SMAt(c, "idle") /\ SMGoto(c, "list schemas")
  /\ smDir' = [smDir EXCEPT !.there = TRUE]
  /\ UNCHANGED <<smStack, smFaults>>

ListSchemas(c) ==
  /\ SMAt(c, "list schemas")
  /\ \/ SMGoto(c, "dump roles") /\ SMNoFault
     \/ SMEnd(c, "failed") /\ SMFault
  /\ UNCHANGED <<smDir, smStack>>

(* Roles that cannot be dumped are left out; the file needs its directory. *)
DumpRoles(c) ==
  /\ SMAt(c, "dump roles")
  /\ IF smDir.there
     THEN /\ \/ smDir' = [smDir EXCEPT !.roles = "whole"] /\ SMNoFault
             \/ smDir' = [smDir EXCEPT !.roles = "part"] /\ SMFault
          /\ SMGoto(c, "open dump")
     ELSE SMEnd(c, "failed") /\ UNCHANGED smDir /\ SMNoFault
  /\ UNCHANGED smStack

(* The dumps that have the file open write into each other. *)
Opened(c) ==
  LET writers == {d \in SMCalls : smCall[d].open # "no"} \cup {c}
      how == IF writers = {c} THEN "alone" ELSE "shared"
  IN [d \in SMCalls |->
       IF d = c THEN [smCall[d] EXCEPT !.pc = "pg_dump", !.open = how]
       ELSE IF d \in writers THEN [smCall[d] EXCEPT !.open = how] ELSE smCall[d]]

(* runToFile: os.Create empties the file. *)
OpenDump(c) ==
  /\ SMAt(c, "open dump")
  /\ IF smDir.there
     THEN /\ smDir' = [smDir EXCEPT !.dump = "part"]
          /\ smCall' = Opened(c)
     ELSE SMEnd(c, "failed") /\ UNCHANGED smDir
  /\ SMNoFault /\ UNCHANGED smStack

(* What pg_dump writes goes to the file that was opened, whose name may be *)
(* gone by now.                                                            *)
PgDump(c) ==
  /\ SMAt(c, "pg_dump")
  /\ \/ /\ smDir' = [smDir EXCEPT !.dump = IF smCall[c].open = "alone" THEN "whole" ELSE @]
        /\ SMEnd(c, "done") /\ SMNoFault
     \/ SMEnd(c, "failed") /\ SMFault /\ UNCHANGED smDir
  /\ UNCHANGED smStack

(* The stack's password is given with the request, or read from its        *)
(* working tree, before anything else; the roles' file must be there.      *)
BeginRestore(c, given) ==
  /\ SMAt(c, "idle")
  /\ smCall' = [smCall EXCEPT ![c].pc = "apply roles", ![c].knows =
                               IF given \/ smStack.tree THEN "own" ELSE "nothing"]
  /\ UNCHANGED <<smDir, smStack, smFaults>>

ApplyRoles(c) ==
  /\ SMAt(c, "apply roles")
  /\ \/ smDir.roles # "none" /\ smStack.up /\ SMGoto(c, "pg_restore") /\ SMNoFault
     \/ (smDir.roles = "none" \/ ~smStack.up) /\ SMEnd(c, "failed") /\ SMNoFault
     \/ SMEnd(c, "failed") /\ SMFault
  /\ UNCHANGED <<smDir, smStack>>

(* What pg_restore makes of the dump, and of the passwords: it adds to the *)
(* data, all of it or a part, and may take the roles' passwords along.     *)
Restores(amount, clobbers) ==
  smStack' = [smStack EXCEPT !.data = IF Count(amount) > Count(@) THEN amount ELSE @,
                             !.pass = IF clobbers THEN "other" ELSE @]
CanRestore == smStack.up /\ smDir.dump # "none"

(* Mutant: a failed pg_restore ends the restore. *)
PgRestoreStops(c) ==
  /\ SMAt(c, "pg_restore") /\ CanRestore
  /\ \E clobbers \in BOOLEAN :
       \/ smDir.dump = "whole" /\ Restores("whole", clobbers) /\ SMNoFault /\ SMGoto(c, "reset")
       \/ Restores("part", clobbers) /\ SMFault /\ SMEnd(c, "failed")
  /\ UNCHANGED smDir

(* pg_restore: its errors are reported and not counted as a failure.       *)
PgRestore(c) ==
  /\ SMAt(c, "pg_restore")
  /\ \/ ~CanRestore /\ UNCHANGED smStack /\ SMNoFault
     \/ CanRestore /\ smDir.dump = "whole" /\ SMNoFault
          /\ \E clobbers \in BOOLEAN : Restores("whole", clobbers)
     \/ CanRestore /\ (IF smDir.dump = "part" THEN SMNoFault ELSE SMFault)
          /\ \E amount \in {"none", "part"}, clobbers \in BOOLEAN : Restores(amount, clobbers)
  /\ SMGoto(c, "reset")
  /\ UNCHANGED smDir

(* supabaseResetStackRolePasswords: for a container whose password is      *)
(* known, with the password that was known when the restore began.  Errors *)
(* are dropped, role by role, and what is reported is the same: "unreset"  *)
(* is a restore that ended, complete as its answer says, while a role may  *)
(* still have another password than the stack's.                           *)
ResetRoles(c) ==
  LET can == Container /\ smCall[c].knows # "nothing" /\ smStack.up
  IN /\ SMAt(c, "reset")
     /\ \/ /\ can /\ smCall[c].knows = "own" /\ SMNoFault
           /\ smStack' = [smStack EXCEPT !.pass = "own"] /\ SMEnd(c, "done")
        \/ /\ can /\ smCall[c].knows = "stale" /\ SMNoFault
           /\ smStack' = [smStack EXCEPT !.pass = "other"] /\ SMEnd(c, "unreset")
        \/ ~can /\ SMNoFault /\ UNCHANGED smStack /\ SMEnd(c, "unreset")
        \/ can /\ SMFault /\ UNCHANGED smStack /\ SMEnd(c, "unreset")
     /\ UNCHANGED smDir

(* supabaseScalarCount: a count that fails is 0.                           *)
CountSource(c) ==
  /\ SMAt(c, "idle")
  /\ \/ smCall' = [smCall EXCEPT ![c].pc = "count", ![c].source = Count("whole")] /\ SMNoFault
     \/ smCall' = [smCall EXCEPT ![c].pc = "count", ![c].source = 0] /\ SMFault
  /\ UNCHANGED <<smDir, smStack>>

CountDestination(c) ==
  /\ SMAt(c, "count")
  /\ LET n == IF smStack.up THEN Count(smStack.data) ELSE 0
     IN \/ SMNoFault /\ smCall' = [smCall EXCEPT ![c].pc = "verified", ![c].dest = n]
        \/ SMFault /\ smCall' = [smCall EXCEPT ![c].pc = "verified", ![c].dest = 0]
  /\ UNCHANGED <<smDir, smStack>>

(* opSupabaseDeployFunctions: git wants an empty directory, which it makes *)
(* if need be, and leaves none when it fails; a copy wants the directory's *)
(* parent, takes what is there, and may stop halfway.                      *)
DeployFunctions(c, how) ==
  LET possible == IF how = "git" THEN smStack.functions = "none" ELSE smStack.tree
  IN /\ SMAt(c, "idle")
     /\ \/ /\ possible /\ SMNoFault /\ SMEnd(c, "done")
           /\ smStack' = [smStack EXCEPT !.functions = "whole"]
        \/ ~possible /\ SMNoFault /\ SMEnd(c, "failed") /\ UNCHANGED smStack
        \/ /\ possible /\ SMFault /\ SMEnd(c, "failed")
           /\ smStack' = [smStack EXCEPT !.functions =
                            IF how = "copy" /\ @ = "none" THEN "part" ELSE @]
  /\ UNCHANGED smDir

(* opSupabaseStorageSync: rclone takes up where it stopped.                *)
StorageSync(c) ==
  /\ SMAt(c, "idle")
  /\ \/ smStack' = [smStack EXCEPT !.objects = "whole"] /\ SMEnd(c, "done") /\ SMNoFault
     \/ /\ smStack' = [smStack EXCEPT !.objects = IF @ = "none" THEN "part" ELSE @]
        /\ SMEnd(c, "failed") /\ SMFault
  /\ UNCHANGED smDir

(* opSupabaseCleanup: the artifacts first, then the containers and their   *)
(* volumes, then the working tree.                                         *)
BeginCleanup(c) ==
  /\ SMAt(c, "idle") /\ SMGoto(c, "remove artifacts")
  /\ UNCHANGED <<smDir, smStack, smFaults>>

(* os.RemoveAll goes file by file: a dump that is under way writes into a  *)
(* file that has no name any more, or makes it again behind it.            *)
RemoveRoles(c) ==
  /\ SMAt(c, "remove artifacts") /\ smDir.roles # "none"
  /\ smDir' = [smDir EXCEPT !.roles = "none"]
  /\ UNCHANGED <<smStack, smCall, smFaults>>

RemoveDump(c) ==
  /\ SMAt(c, "remove artifacts") /\ smDir.dump # "none"
  /\ smDir' = [smDir EXCEPT !.dump = "none"]
  /\ smCall' = [d \in SMCalls |-> [smCall[d] EXCEPT !.open = "no"]]
  /\ UNCHANGED <<smStack, smFaults>>

(* The directory only goes when it is empty.  That it, or a file in it,    *)
(* could not be removed is an error that the cleanup drops.                *)
RemoveDir(c) ==
  /\ SMAt(c, "remove artifacts") /\ SMGoto(c, "stop stack")
  /\ \/ smDir.roles = "none" /\ smDir.dump = "none" /\ smDir' = NoDir
     \/ UNCHANGED smDir
  /\ UNCHANGED <<smStack, smFaults>>

(* Neither compose nor docker rm is asked whether it did it; the removal   *)
(* of the tree can fail as well, and takes it from under containers that   *)
(* still run.                                                              *)
StopStack(c) ==
  /\ SMAt(c, "stop stack") /\ SMGoto(c, "remove tree")
  /\ \/ smStack' = [smStack EXCEPT !.up = FALSE] /\ SMNoFault
     \/ UNCHANGED smStack /\ SMFault
  /\ UNCHANGED smDir

RemoveTree(c) ==
  /\ SMAt(c, "remove tree") /\ SMEnd(c, "done")
  /\ \/ /\ smStack' = IF smStack.up THEN [smStack EXCEPT !.tree = FALSE, !.functions = "none"]
                        ELSE NoStack
        /\ SMNoFault
     \/ UNCHANGED smStack /\ SMFault
  /\ UNCHANGED smDir

(* External: the panel installs the stack again.  A restore that began     *)
(* before has the password of the stack that was.                          *)
Install ==
  /\ ~smStack.tree
  /\ smStack' = FreshStack
  /\ smCall' = [c \in SMCalls |->
       IF smCall[c].knows = "own" THEN [smCall[c] EXCEPT !.knows = "stale"] ELSE smCall[c]]
  /\ UNCHANGED <<smDir, smFaults>>

(* The agent restarts: its commands end, and their programs with them.     *)
SMCrash ==
  /\ SMFault
  /\ smCall' = [c \in SMCalls |->
       IF c \in Restoring THEN [NoSMCall EXCEPT !.pc = "unreset"]
       ELSE IF c \in Under(Ended) THEN smCall[c] ELSE [NoSMCall EXCEPT !.pc = "failed"]]
  /\ UNCHANGED <<smDir, smStack>>

SMNext ==
  \/ \E c \in SMCalls :
       \/ BeginDump(c) \/ ListSchemas(c) \/ DumpRoles(c) \/ OpenDump(c) \/ PgDump(c)
       \/ (\E given \in BOOLEAN : BeginRestore(c, given)) \/ ApplyRoles(c) \/ PgRestore(c) \/ ResetRoles(c)
       \/ CountSource(c) \/ CountDestination(c)
       \/ \E how \in {"git", "copy"} : DeployFunctions(c, how)
       \/ StorageSync(c) \/ BeginCleanup(c) \/ RemoveRoles(c) \/ RemoveDump(c) \/ RemoveDir(c)
       \/ StopStack(c) \/ RemoveTree(c)
  \/ Install \/ SMCrash

SMSpec == SMInit /\ [][SMNext]_smVars

-----------------------------------------------------------------------------
SMTypeOK ==
  /\ smDir \in [there : BOOLEAN, roles : Amounts, dump : Amounts]
  /\ smStack \in [up : BOOLEAN, tree : BOOLEAN, data : Amounts,
                  pass : {"own", "other"}, functions : Amounts, objects : Amounts]
  /\ \A c \in SMCalls : smCall[c].source \in 0 .. 2 /\ smCall[c].dest \in 0 .. 2
  /\ smFaults \in 0 .. SMMaxFaults

(* Once no restore is under way, the services can log in to their          *)
(* database, however restores overlapped, failed halfway, were repeated,   *)
(* or met a cleanup or a new installation: each resets the passwords after *)
(* the last thing that it restores.  What can lock them out is a restore   *)
(* that ended without the reset: killed before it, knowing no password or  *)
(* that of a stack that has been replaced, or with a statement of the      *)
(* reset failing (which its answer does not tell).                         *)
ServicesCanLogIn ==
  Restoring = {} /\ Under({"unreset"}) = {} => smStack.pass = "own"

(* What a migration may rely on, whatever fails, with the types.           *)
MigrationSound == SMTypeOK /\ ServicesCanLogIn
=============================================================================
