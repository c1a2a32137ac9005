----------------------------- MODULE InstanceOps -----------------------------
(***************************************************************************)
(* The commands on a connected database instance: connect, disconnect,     *)
(* ping, drop_db, drop_user and exec_query (database/handler.go,           *)
(* openinstance.go, ops_destructive.go, ops_query.go), with the token that *)
(* the destructive ones ask for (token.go) and the way its secret comes to *)
(* the agent: with a heartbeat's answer and with a certificate's renewal,  *)
(* which may overtake each other (agent.go, pki/renew.go).                 *)
(*                                                                         *)
(* Secrets are numbered by the panel, and 0 is none.  The server is        *)
(* external: its databases, a user, and one object of that user.           *)
(* Whether a statement reads is the classifier's verdict and part of the   *)
(* command.                                                                *)
(***************************************************************************)
EXTENDS Naturals, FiniteSets

CONSTANTS
  IOCalls,     \* commands under way, each with a goroutine of its own
  IOInstances, \* instance ids
  IOPostgres,  \* the instances that are PostgreSQL
  IOCommands,  \* [op, inst, target, write, readOnly, limit]
  IODefault, IOMax, \* the row limits
  MostRows,    \* bound: rows of a result
  LastGen, IOLastTime, IOMaxFaults, IOMaxTokens, \* bounds
  This, Other  \* agents

IOOps == {"connect", "disconnect", "ping", "drop_db", "drop_user", "exec_query"}

ASSUME InstanceOpsAssumption ==
  /\ {IODefault, IOMax, MostRows, IOLastTime, IOMaxFaults} \subseteq Nat /\ LastGen \in Nat \ {0}
  /\ \A k \in IOCommands : k.op \in IOOps /\ k.inst \in IOInstances /\ k.limit \in Nat

VARIABLES
  ioPanel,   \* the secret that the panel signs with
  ioSecret,  \* localStore.secret
  ioAnswers, \* answers with a secret that are under way: at most one of each
  ioTokens,  \* every token minted
  ioClock,
  ioVault,   \* the instances that the vault has an entry of
  ioServer,  \* per instance: its databases, does the user exist, whose is its object
  ioCall,    \* the commands
  ioFaults,
  ioDone     \* history: what was destroyed, and when its token was verified

ioVars == <<ioPanel, ioSecret, ioAnswers, ioTokens, ioClock, ioVault, ioServer,
            ioCall, ioFaults, ioDone>>
ioPanelVars == <<ioPanel, ioSecret, ioAnswers, ioTokens, ioClock>>

Databases == {k.target : k \in {l \in IOCommands : l.op # "drop_user"}} \ {""}
NoToken == [agent |-> Other, op |-> "", inst |-> "", target |-> "", gen |-> 0, exp |-> 0]
NoCommand == [op |-> "none", inst |-> CHOOSE i \in IOInstances : TRUE, target |-> "",
              write |-> FALSE, readOnly |-> FALSE, limit |-> 0]
NoIOCall == [pc |-> "idle", cmd |-> NoCommand, began |-> 0, gen |-> 0,
             live |-> FALSE, header |-> FALSE, rows |-> 0, total |-> 0, truncated |-> FALSE]

IOInit ==
  /\ ioPanel = 1 /\ ioSecret = 0 /\ ioAnswers = {} /\ ioTokens = {} /\ ioClock = 0
  /\ ioVault = IOInstances
  /\ ioServer = [i \in IOInstances |-> [dbs |-> Databases, user |-> TRUE, owner |-> "user"]]
  /\ ioCall = [c \in IOCalls |-> NoIOCall]
  /\ ioFaults = 0 /\ ioDone = {}

At(c, place) == ioCall[c].pc = place
IOGoto(c, place) == ioCall' = [ioCall EXCEPT ![c].pc = place]
(* A command that has ended leaves nothing but the answer to a query.      *)
Failed(c) == ioCall' = [ioCall EXCEPT ![c] = [NoIOCall EXCEPT !.pc = "failed"]]
End(c) == ioCall' = [ioCall EXCEPT ![c] = [NoIOCall EXCEPT !.pc = "done"]]
Answered(c) == ioCall' = [ioCall EXCEPT ![c].pc = "answered", ![c].live = FALSE]
Cmd(c) == ioCall[c].cmd
IsPostgres(c) == Cmd(c).inst \in IOPostgres
IOFault == ioFaults < IOMaxFaults /\ ioFaults' = ioFaults + 1

-----------------------------------------------------------------------------
(* The secret *)

(* The panel answers a heartbeat, or renews the certificate and with it    *)
(* the secret; the agent has one of each under way.                        *)
AnswerHeartbeat ==
  /\ \A a \in ioAnswers : a.to # "heartbeat"
  /\ ioAnswers' = ioAnswers \cup {[to |-> "heartbeat", gen |-> ioPanel]}
  /\ UNCHANGED <<ioPanel, ioSecret, ioTokens, ioClock, ioVault, ioServer, ioCall, ioFaults, ioDone>>

AnswerRenewal ==
  /\ ioPanel < LastGen /\ \A a \in ioAnswers : a.to # "renewal"
  /\ ioPanel' = ioPanel + 1
  /\ ioAnswers' = ioAnswers \cup {[to |-> "renewal", gen |-> ioPanel + 1]}
  /\ UNCHANGED <<ioSecret, ioTokens, ioClock, ioVault, ioServer, ioCall, ioFaults, ioDone>>

(* Mutant: the agent keeps the first secret that it gets. *)
KeepsFirst(a) ==
  /\ a \in ioAnswers
  /\ ioAnswers' = ioAnswers \ {a}
  /\ ioSecret' = IF ioSecret = 0 THEN a.gen ELSE ioSecret
  /\ UNCHANGED <<ioPanel, ioTokens, ioClock, ioVault, ioServer, ioCall, ioFaults, ioDone>>

(* SetOpTokenSecret, by tickHeartbeat and by checkAndRenew.                *)
SetOpTokenSecret(a) ==
  /\ a \in ioAnswers
  /\ ioAnswers' = ioAnswers \ {a}
  /\ ioSecret' = a.gen
  /\ UNCHANGED <<ioPanel, ioTokens, ioClock, ioVault, ioServer, ioCall, ioFaults, ioDone>>

(* External: the panel mints a token for a command of an agent.            *)
Mint(k, agent) ==
  /\ Cardinality(ioTokens) < IOMaxTokens
  /\ ioTokens' = ioTokens \cup
       {[agent |-> agent, op |-> k.op, inst |-> k.inst,
         target |-> IF k.op = "exec_query" THEN "" ELSE k.target,
         gen |-> ioPanel, exp |-> ioClock + 1]}
  /\ UNCHANGED <<ioPanel, ioSecret, ioAnswers, ioClock, ioVault, ioServer, ioCall, ioFaults, ioDone>>

IOTick ==
  /\ ioClock < IOLastTime /\ ioClock' = ioClock + 1
  /\ UNCHANGED <<ioPanel, ioSecret, ioAnswers, ioTokens, ioVault, ioServer, ioCall, ioFaults, ioDone>>

-----------------------------------------------------------------------------
(* A command is delivered with any token that was ever minted, or none: it *)
(* may come late, again, or to the wrong agent.                            *)
NeedsToken(k) == k.op \in {"drop_db", "drop_user"} \/ (k.op = "exec_query" /\ k.write)
ExpectedTarget(k) == IF k.op = "exec_query" THEN "" ELSE k.target

(* Mutant: the instance is not compared. *)
TokenForAnyInstance(t, k) ==
  /\ ioSecret # 0 /\ t.gen = ioSecret /\ t.agent = This
  /\ t.op = k.op /\ t.target = ExpectedTarget(k) /\ t.exp > ioClock

(* verifyOpToken: signed with the secret that the agent has now, for this  *)
(* agent, operation, instance and target, and not expired.                 *)
TokenIsValid(t, k) ==
  /\ ioSecret # 0 /\ t.gen = ioSecret /\ t.agent = This
  /\ t.op = k.op /\ t.inst = k.inst /\ t.target = ExpectedTarget(k)
  /\ t.exp > ioClock

(* Execute, ExecuteStreaming: a statement that writes is refused in        *)
(* read-only mode, and without its token otherwise.                        *)
Refused(k, t) ==
  \/ k.op = "exec_query" /\ k.write /\ k.readOnly
  \/ NeedsToken(k) /\ ~TokenIsValid(t, k)

Deliver(c, k, t) ==
  /\ At(c, "idle")
  /\ t # NoToken => NeedsToken(k)
  /\ IF Refused(k, t) THEN Failed(c)
     ELSE ioCall' = [ioCall EXCEPT ![c] = [NoIOCall EXCEPT !.cmd = k,
            !.began = ioClock, !.gen = IF NeedsToken(k) THEN ioSecret ELSE 0,
            !.pc = IF k.op = "disconnect" THEN "delete" ELSE "open"]]
  /\ UNCHANGED <<ioPanelVars, ioVault, ioServer, ioFaults, ioDone>>

(* resolveInstance: connect brings its own credentials.                    *)
Resolved(c) == Cmd(c).op = "connect" \/ Cmd(c).inst \in ioVault

(* A query's first connection selects its database. *)
Selected(c) == Cmd(c).op = "exec_query" => Cmd(c).target \in ioServer[Cmd(c).inst].dbs

(* openInstance, openInstanceForDatabase *)
OpenInstance(c) ==
  /\ At(c, "open")
  /\ \/ /\ Resolved(c) /\ Selected(c)
        /\ ioCall' = [ioCall EXCEPT ![c].live = TRUE, ![c].pc =
             CASE Cmd(c).op = "drop_db" -> IF IsPostgres(c) THEN "terminate" ELSE "drop"
               [] Cmd(c).op = "drop_user" -> IF IsPostgres(c) THEN "reassign" ELSE "dropUser"
               [] Cmd(c).op = "connect" -> "put"
               [] Cmd(c).op = "ping" -> "version"
               [] OTHER -> IF Cmd(c).write THEN "exec" ELSE "query"]
        /\ UNCHANGED ioFaults
     \/ ~(Resolved(c) /\ Selected(c)) /\ Failed(c) /\ UNCHANGED ioFaults
     \/ IOFault /\ Failed(c)
  /\ UNCHANGED <<ioPanelVars, ioVault, ioServer, ioDone>>

(* opConnect, opDisconnect: the probe came before the entry. *)
Put(c) ==
  /\ At(c, "put") /\ End(c)
  /\ ioVault' = ioVault \cup {Cmd(c).inst}
  /\ UNCHANGED <<ioPanelVars, ioServer, ioFaults, ioDone>>

Delete(c) ==
  /\ At(c, "delete") /\ End(c)
  /\ ioVault' = ioVault \ {Cmd(c).inst}
  /\ UNCHANGED <<ioPanelVars, ioServer, ioFaults, ioDone>>

(* opPing changes nothing. *)
Version(c) ==
  /\ At(c, "version") /\ End(c)
  /\ UNCHANGED <<ioPanelVars, ioVault, ioServer, ioFaults, ioDone>>

-----------------------------------------------------------------------------
(* Destruction *)

Destroyed(c) ==
  ioDone' = ioDone \cup {[cmd |-> Cmd(c), gen |-> ioCall[c].gen, began |-> ioCall[c].began]}
OnServer(c, change) == ioServer' = [ioServer EXCEPT ![Cmd(c).inst] = change]
Server(c) == ioServer[Cmd(c).inst]
(* The connections of queries to the database that c drops. *)
Connected(c) ==
  {d \in IOCalls \ {c} : /\ ioCall[d].live /\ Cmd(d).op = "exec_query"
                         /\ Cmd(d).inst = Cmd(c).inst /\ Cmd(d).target = Cmd(c).target}

(* A statement that fails ends the command. *)
StatementFails(c) ==
  /\ ioCall[c].pc \in {"terminate", "drop", "reassign", "dropOwned", "dropUser", "exec", "query"}
  /\ IOFault /\ Failed(c)
  /\ UNCHANGED <<ioPanelVars, ioVault, ioServer, ioDone>>

(* terminatePostgresBackends *)
Terminate(c) ==
  /\ At(c, "terminate")
  /\ ioCall' = [d \in IOCalls |->
       IF d = c THEN [ioCall[d] EXCEPT !.pc = "drop"]
       ELSE IF d \in Connected(c) THEN [ioCall[d] EXCEPT !.live = FALSE] ELSE ioCall[d]]
  /\ UNCHANGED <<ioPanelVars, ioVault, ioServer, ioFaults, ioDone>>

(* DROP DATABASE: PostgreSQL refuses while somebody is connected, and      *)
(* MySQL waits for the queries that read it.                               *)
DropDatabase(c) ==
  /\ At(c, "drop")
  /\ \/ /\ Cmd(c).target \in Server(c).dbs /\ Connected(c) = {}
        /\ OnServer(c, [Server(c) EXCEPT !.dbs = @ \ {Cmd(c).target}])
        /\ Destroyed(c) /\ End(c)
     \/ /\ Cmd(c).target \notin Server(c).dbs \/ (IsPostgres(c) /\ Connected(c) # {})
        /\ Failed(c) /\ UNCHANGED <<ioServer, ioDone>>
  /\ UNCHANGED <<ioPanelVars, ioVault, ioFaults>>

(* Mutant: DROP OWNED first. *)
DropOwnedFirst(c) ==
  /\ At(c, "reassign")
  /\ IF Server(c).user
     THEN /\ IOGoto(c, "dropUser")
          /\ OnServer(c, [Server(c) EXCEPT !.owner = IF @ = "user" THEN "gone" ELSE @])
     ELSE Failed(c) /\ UNCHANGED ioServer
  /\ UNCHANGED <<ioPanelVars, ioVault, ioFaults, ioDone>>

(* REASSIGN OWNED, then DROP OWNED, then DROP USER. *)
ReassignOwned(c) ==
  /\ At(c, "reassign")
  /\ IF Server(c).user
     THEN /\ IOGoto(c, "dropOwned")
          /\ OnServer(c, [Server(c) EXCEPT !.owner = IF @ = "user" THEN "postgres" ELSE @])
     ELSE Failed(c) /\ UNCHANGED ioServer
  /\ UNCHANGED <<ioPanelVars, ioVault, ioFaults, ioDone>>

DropOwned(c) ==
  /\ At(c, "dropOwned")
  /\ IF Server(c).user
     THEN /\ IOGoto(c, "dropUser")
          /\ OnServer(c, [Server(c) EXCEPT !.owner = IF @ = "user" THEN "gone" ELSE @])
     ELSE Failed(c) /\ UNCHANGED ioServer
  /\ UNCHANGED <<ioPanelVars, ioVault, ioFaults, ioDone>>

(* MySQL leaves the objects where they are. *)
DropUser(c) ==
  /\ At(c, "dropUser")
  /\ IF Server(c).user
     THEN /\ OnServer(c, [Server(c) EXCEPT !.user = FALSE]) /\ Destroyed(c) /\ End(c)
     ELSE Failed(c) /\ UNCHANGED <<ioServer, ioDone>>
  /\ UNCHANGED <<ioPanelVars, ioVault, ioFaults>>

-----------------------------------------------------------------------------
(* Queries *)

(* runExec *)
Exec(c) ==
  /\ At(c, "exec")
  /\ IF ioCall[c].live
     THEN End(c) /\ Destroyed(c)
     ELSE Failed(c) /\ UNCHANGED ioDone
  /\ UNCHANGED <<ioPanelVars, ioVault, ioServer, ioFaults>>

RowLimit(k) == IF k.limit = 0 THEN IODefault ELSE IF k.limit > IOMax THEN IOMax ELSE k.limit

(* runQuery: the header, the rows one by one, and the footer. *)
QueryHeader(c) ==
  /\ At(c, "query")
  /\ IF ioCall[c].live
     THEN \E n \in 0 .. MostRows :
            ioCall' = [ioCall EXCEPT ![c].pc = "rows", ![c].header = TRUE, ![c].total = n]
     ELSE Failed(c)
  /\ UNCHANGED <<ioPanelVars, ioVault, ioServer, ioFaults, ioDone>>

QueryRow(c) ==
  /\ At(c, "rows") /\ ioCall[c].live /\ ioCall[c].rows < ioCall[c].total
  /\ ioCall' = IF ioCall[c].rows >= RowLimit(Cmd(c))
               THEN [ioCall EXCEPT ![c].pc = "footer", ![c].truncated = TRUE]
               ELSE [ioCall EXCEPT ![c].rows = @ + 1]
  /\ UNCHANGED <<ioPanelVars, ioVault, ioServer, ioFaults, ioDone>>

(* Next returns false at the end of the rows, and also when the connection *)
(* is lost or the query's time is over.                                    *)
RowsEnd(c) ==
  /\ At(c, "rows")
  /\ \/ ioCall[c].live /\ ioCall[c].rows = ioCall[c].total /\ IOGoto(c, "footer") /\ UNCHANGED ioFaults
     \/ ~ioCall[c].live /\ IOGoto(c, "err") /\ UNCHANGED ioFaults
     \/ ioCall[c].live /\ IOGoto(c, "err") /\ IOFault
  /\ UNCHANGED <<ioPanelVars, ioVault, ioServer, ioDone>>

(* Mutant: the rows' error is not asked for. *)
AnswersRegardless(c) == ioCall[c].pc \in {"footer", "err"}

(* rs.Err comes before the footer. *)
AnswersFooter(c) == At(c, "footer")

QueryFooter(c) ==
  /\ AnswersFooter(c) /\ Answered(c)
  /\ UNCHANGED <<ioPanelVars, ioVault, ioServer, ioFaults, ioDone>>

QueryError(c) ==
  /\ At(c, "err") /\ Failed(c)
  /\ UNCHANGED <<ioPanelVars, ioVault, ioServer, ioFaults, ioDone>>

(* The agent restarts: it forgets the secret, and its connections close.   *)
IOCrash ==
  /\ IOFault /\ ioSecret' = 0 /\ ioAnswers' = {}
  /\ ioCall' = [c \in IOCalls |->
       IF ioCall[c].pc \in {"idle", "done", "failed", "answered"} THEN ioCall[c]
       ELSE [NoIOCall EXCEPT !.pc = "failed"]]
  /\ UNCHANGED <<ioPanel, ioTokens, ioClock, ioVault, ioServer, ioDone>>

IONext ==
  \/ AnswerHeartbeat \/ AnswerRenewal \/ IOTick \/ IOCrash
  \/ \E a \in ioAnswers : SetOpTokenSecret(a)
  \/ \E k \in {l \in IOCommands : NeedsToken(l)}, agent \in {This, Other} : Mint(k, agent)
  \/ \E c \in IOCalls :
       \/ \E k \in IOCommands, t \in ioTokens \cup {NoToken} : Deliver(c, k, t)
       \/ OpenInstance(c) \/ Put(c) \/ Delete(c) \/ Version(c)
       \/ StatementFails(c) \/ Terminate(c) \/ DropDatabase(c)
       \/ ReassignOwned(c) \/ DropOwned(c) \/ DropUser(c)
       \/ Exec(c) \/ QueryHeader(c) \/ QueryRow(c) \/ RowsEnd(c) \/ QueryFooter(c) \/ QueryError(c)

(* Heartbeats go on: every 30 seconds one is sent, and its answer is taken. *)
IOFairness ==
  /\ WF_ioVars(AnswerHeartbeat)
  /\ WF_ioVars(\E a \in ioAnswers : SetOpTokenSecret(a))

IOSpec == IOInit /\ [][IONext]_ioVars /\ IOFairness

-----------------------------------------------------------------------------
IOTypeOK ==
  /\ ioPanel \in 1 .. LastGen /\ ioSecret \in 0 .. LastGen
  /\ ioAnswers \subseteq [to : {"heartbeat", "renewal"}, gen : 1 .. LastGen]
  /\ ioVault \subseteq IOInstances /\ ioFaults \in 0 .. IOMaxFaults
  /\ \A c \in IOCalls : ioCall[c].rows \in 0 .. MostRows /\ ioCall[c].began \in 0 .. IOLastTime

(* What is destroyed, the panel has asked of this agent: of this           *)
(* operation, instance and target, with a token that had not expired when  *)
(* the command came, and under a secret that the agent then had.           *)
DestroyedAsMinted ==
  \A d \in ioDone : \E t \in ioTokens :
    /\ t.agent = This /\ t.gen = d.gen /\ t.op = d.cmd.op /\ t.inst = d.cmd.inst
    /\ t.target = ExpectedTarget(d.cmd) /\ t.exp > d.began

(* A footer says what it says of the whole result: as many rows as there   *)
(* were up to the limit, and truncated only when there were more, whatever *)
(* became of the connection.                                               *)
FooterIsWhole ==
  /\ IOTypeOK
  /\ \A c \in IOCalls : At(c, "answered") =>
       LET k == ioCall[c] limit == RowLimit(Cmd(c))
       IN /\ k.rows = IF k.total > limit THEN limit ELSE k.total
          /\ k.truncated <=> k.total > limit

(* Dropping a user loses nothing that the user owned, however often the    *)
(* drop fails halfway and is repeated, and whoever drops it as well.       *)
OwnedObjectsKept == \A i \in IOInstances : ioServer[i].owner # "gone"

(* Once the panel rotates no more, the agent comes to have its secret and  *)
(* keeps it, though answers overtake each other and the agent restarts.    *)
SecretSettles == <>[](ioSecret = ioPanel)
=============================================================================
