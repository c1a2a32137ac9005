-------------------------- MODULE InstanceOpsProofs --------------------------
(***************************************************************************)
(* For any instances, commands, tokens and secrets, whatever fails or      *)
(* restarts: nothing is destroyed without the panel's token, what a        *)
(* dropped user owned is kept, and a query's footer tells of all its rows. *)
(***************************************************************************)
EXTENDS InstanceOps, TLAPS

Terminal == {"idle", "done", "failed", "answered"}

(* A token that the panel minted for command k, valid at `began`.          *)
Paid(k, gen, began) ==
  \E t \in ioTokens :
    /\ t.agent = This /\ t.gen = gen /\ t.op = k.op /\ t.inst = k.inst
    /\ t.target = ExpectedTarget(k) /\ t.exp > began

Fields == {"pc", "cmd", "began", "gen", "live", "header", "rows", "total", "truncated"}
Shape == DOMAIN ioCall = IOCalls /\ \A c \in IOCalls : DOMAIN ioCall[c] = Fields

(* Where a command is tells what it does. *)
RightPlace(c) ==
  /\ At(c, "open") => Cmd(c).op \in IOOps \ {"disconnect"}
  /\ ioCall[c].pc \in {"terminate", "drop"} => Cmd(c).op = "drop_db"
  /\ ioCall[c].pc \in {"reassign", "dropOwned", "dropUser"} => Cmd(c).op = "drop_user"
  /\ At(c, "exec") => Cmd(c).op = "exec_query" /\ Cmd(c).write

RunningPaid(c) ==
  ioCall[c].pc \notin Terminal /\ NeedsToken(Cmd(c)) =>
    Paid(Cmd(c), ioCall[c].gen, ioCall[c].began)

IOInv ==
  /\ Shape
  /\ \A c \in IOCalls : RightPlace(c) /\ RunningPaid(c)
  /\ DestroyedAsMinted

LEMMA IOInvInit == IOInit => IOInv
<1> SUFFICES ASSUME IOInit PROVE IOInv
  OBVIOUS
<1>1. DOMAIN ioCall = IOCalls /\ \A c \in IOCalls : ioCall[c] = NoIOCall
  BY DEF IOInit
<1>2. DOMAIN NoIOCall = Fields /\ NoIOCall.pc = "idle"
  BY DEF NoIOCall, Fields
<1>3. Shape
  BY <1>1, <1>2 DEF Shape
<1>4. \A c \in IOCalls : RightPlace(c) /\ RunningPaid(c)
  BY <1>1, <1>2 DEF RightPlace, RunningPaid, At, Terminal
<1>5. DestroyedAsMinted
  BY DEF IOInit, DestroyedAsMinted
<1> QED BY <1>3, <1>4, <1>5 DEF IOInv

LEMMA Changes ==
  ASSUME Shape, NEW c \in IOCalls, NEW place
  PROVE  /\ IOGoto(c, place) =>
              /\ DOMAIN ioCall' = IOCalls /\ DOMAIN ioCall'[c] = Fields
              /\ ioCall'[c].pc = place /\ ioCall'[c].cmd = ioCall[c].cmd
              /\ ioCall'[c].gen = ioCall[c].gen /\ ioCall'[c].began = ioCall[c].began
              /\ \A d \in IOCalls \ {c} : ioCall'[d] = ioCall[d]
         /\ Failed(c) \/ End(c) \/ Answered(c) =>
              /\ DOMAIN ioCall' = IOCalls /\ DOMAIN ioCall'[c] = Fields
              /\ ioCall'[c].pc \in Terminal
              /\ \A d \in IOCalls \ {c} : ioCall'[d] = ioCall[d]
BY DEF Shape, Fields, IOGoto, Failed, End, Answered, NoIOCall, Terminal

(* Only one command moves, tokens stay, and what is destroyed is paid for. *)
LEMMA OneMoves ==
  ASSUME IOInv, NEW c \in IOCalls, ioTokens \subseteq ioTokens',
         DOMAIN ioCall' = IOCalls, DOMAIN ioCall'[c] = Fields,
         \A d \in IOCalls \ {c} : ioCall'[d] = ioCall[d],
         RightPlace(c)', RunningPaid(c)',
         \A d \in ioDone' \ ioDone : Paid(d.cmd, d.gen, d.began)
  PROVE  IOInv'
<1>1. Shape'
  BY DEF IOInv, Shape
<1>2. ASSUME NEW k, NEW gen, NEW began, Paid(k, gen, began) PROVE Paid(k, gen, began)'
  BY <1>2 DEF Paid, ExpectedTarget
<1>3. ASSUME NEW d \in IOCalls PROVE RightPlace(d)' /\ RunningPaid(d)'
  <2>1. CASE d = c
    BY <2>1
  <2>2. CASE d # c
    <3>1. ioCall'[d] = ioCall[d] /\ RightPlace(d) /\ RunningPaid(d)
      BY <2>2 DEF IOInv
    <3>2. RightPlace(d)'
      BY <3>1 DEF RightPlace, At, Cmd
    <3>3. RunningPaid(d)'
      BY <3>1, <1>2 DEF RunningPaid, NeedsToken, Cmd
    <3> QED BY <3>2, <3>3
  <2> QED BY <2>1, <2>2
<1>4. ASSUME NEW d \in ioDone' PROVE Paid(d.cmd, d.gen, d.began)'
  <2>1. Paid(d.cmd, d.gen, d.began)
    BY DEF IOInv, DestroyedAsMinted, Paid
  <2> QED BY <2>1, <1>2
<1>5. DestroyedAsMinted'
  BY <1>4 DEF DestroyedAsMinted, Paid
<1> QED BY <1>1, <1>3, <1>5 DEF IOInv

(* A command that ends, having destroyed nothing or what it was paid for.  *)
LEMMA Ends ==
  ASSUME IOInv, NEW c \in IOCalls, Failed(c) \/ End(c) \/ Answered(c),
         ioTokens' = ioTokens,
         \/ ioDone' = ioDone
         \/ /\ Destroyed(c) /\ ioCall[c].pc \in {"drop", "dropUser", "exec"}
  PROVE  IOInv'
<1>1. /\ DOMAIN ioCall' = IOCalls /\ DOMAIN ioCall'[c] = Fields
      /\ ioCall'[c].pc \in Terminal
      /\ \A d \in IOCalls \ {c} : ioCall'[d] = ioCall[d]
  BY Changes DEF IOInv
<1>2. RightPlace(c)' /\ RunningPaid(c)'
  BY <1>1 DEF RightPlace, RunningPaid, At, Terminal
<1>3. ASSUME NEW d \in ioDone' \ ioDone PROVE Paid(d.cmd, d.gen, d.began)
  <2>1. d = [cmd |-> Cmd(c), gen |-> ioCall[c].gen, began |-> ioCall[c].began]
    BY <1>3 DEF Destroyed
  <2>2. ioCall[c].pc \in {"drop", "dropUser", "exec"}
    BY <1>3
  <2>3. ioCall[c].pc \notin Terminal /\ NeedsToken(Cmd(c))
    BY <2>2 DEF IOInv, RightPlace, At, NeedsToken, Terminal
  <2>4. Paid(Cmd(c), ioCall[c].gen, ioCall[c].began)
    BY <2>3 DEF IOInv, RunningPaid
  <2> QED BY <2>1, <2>4
<1> QED BY <1>1, <1>2, <1>3, OneMoves

(* A command that goes on. *)
LEMMA GoesOn ==
  ASSUME IOInv, NEW c \in IOCalls, ioCall[c].pc \notin Terminal,
         DOMAIN ioCall' = IOCalls, DOMAIN ioCall'[c] = Fields,
         ioCall'[c].cmd = ioCall[c].cmd, ioCall'[c].gen = ioCall[c].gen,
         ioCall'[c].began = ioCall[c].began,
         \A d \in IOCalls \ {c} : ioCall'[d] = ioCall[d],
         RightPlace(c)', ioTokens' = ioTokens, ioDone' = ioDone
  PROVE  IOInv'
<1> DEFINE k == ioCall[c].cmd
           gen == ioCall[c].gen
           began == ioCall[c].began
<1>1. NeedsToken(k) => Paid(k, gen, began)
  BY DEF IOInv, RunningPaid, Cmd
<1>2. NeedsToken(k) => \E t \in ioTokens' :
        /\ t.agent = This /\ t.gen = gen /\ t.op = k.op /\ t.inst = k.inst
        /\ t.target = ExpectedTarget(k) /\ t.exp > began
  BY <1>1 DEF Paid
<1>3. RunningPaid(c)'
  BY <1>2 DEF RunningPaid, Paid, Cmd, NeedsToken, ExpectedTarget
<1> QED BY <1>3, OneMoves

(* No command moves. *)
LEMMA Rests ==
  ASSUME IOInv, ioCall' = ioCall, ioDone' = ioDone, ioTokens \subseteq ioTokens'
  PROVE  IOInv'
<1>1. Shape' /\ \A c \in IOCalls : RightPlace(c)'
  BY DEF IOInv, Shape, RightPlace, At, Cmd
<1>2. ASSUME NEW c \in IOCalls PROVE RunningPaid(c)'
  BY DEF IOInv, RunningPaid, Paid, Cmd, NeedsToken, ExpectedTarget
<1>3. DestroyedAsMinted'
  BY DEF IOInv, DestroyedAsMinted, ExpectedTarget
<1> QED BY <1>1, <1>2, <1>3 DEF IOInv

(* A destructive command is let in with a token that was minted for it.    *)
LEMMA DeliverKeeps ==
  ASSUME IOInv, NEW c \in IOCalls,
         NEW k \in IOCommands, NEW t \in ioTokens \cup {NoToken}, Deliver(c, k, t)
  PROVE  IOInv'
<1>1. ioTokens' = ioTokens /\ ioDone' = ioDone
  BY DEF Deliver, ioPanelVars
<1>2. CASE Refused(k, t)
  BY <1>1, <1>2, Ends DEF Deliver
<1>3. CASE ~Refused(k, t)
  <2> DEFINE gen == IF NeedsToken(k) THEN ioSecret ELSE 0
             place == IF k.op = "disconnect" THEN "delete" ELSE "open"
  <2>1. ioCall' = [ioCall EXCEPT ![c] = [NoIOCall EXCEPT !.cmd = k, !.began = ioClock,
                                           !.gen = gen, !.pc = place]]
    BY <1>3 DEF Deliver
  <2>2. /\ DOMAIN ioCall' = IOCalls /\ DOMAIN ioCall'[c] = Fields
        /\ ioCall'[c].cmd = k /\ ioCall'[c].began = ioClock
        /\ ioCall'[c].gen = gen /\ ioCall'[c].pc = place
        /\ \A d \in IOCalls \ {c} : ioCall'[d] = ioCall[d]
    BY <2>1 DEF IOInv, Shape, NoIOCall, Fields
  <2>3. RightPlace(c)'
    BY <2>2, InstanceOpsAssumption DEF RightPlace, At, Cmd
  <2>4. NeedsToken(k) => t \in ioTokens /\ TokenIsValid(t, k)
    <3>1. NoToken.gen = 0
      BY DEF NoToken
    <3>2. NeedsToken(k) => TokenIsValid(t, k)
      BY <1>3 DEF Refused
    <3>3. TokenIsValid(t, k) => t # NoToken
      BY <3>1 DEF TokenIsValid
    <3> QED BY <3>2, <3>3
  <2>5. NeedsToken(k) => Paid(k, gen, ioClock)
    BY <2>4 DEF Paid, TokenIsValid
  <2>6. RunningPaid(c)'
    BY <2>2, <2>5, <1>1 DEF RunningPaid, Paid, Cmd, NeedsToken, ExpectedTarget
  <2> QED BY <1>1, <2>2, <2>3, <2>6, OneMoves
<1> QED BY <1>2, <1>3

(* The server ends other commands' connections. *)
LEMMA TerminateKeeps ==
  ASSUME IOInv, NEW c \in IOCalls, Terminate(c)
  PROVE  IOInv'
<1>1. ioTokens' = ioTokens /\ ioDone' = ioDone
  BY DEF Terminate, ioPanelVars
<1>2. ASSUME NEW d \in IOCalls
      PROVE  /\ DOMAIN ioCall'[d] = Fields
             /\ ioCall'[d].cmd = ioCall[d].cmd /\ ioCall'[d].gen = ioCall[d].gen
             /\ ioCall'[d].began = ioCall[d].began
             /\ ioCall'[d].pc = IF d = c THEN "drop" ELSE ioCall[d].pc
  BY DEF Terminate, IOInv, Shape, Fields
<1>3. DOMAIN ioCall' = IOCalls
  BY DEF Terminate
<1>4. ASSUME NEW d \in IOCalls PROVE RightPlace(d)'
  BY <1>2 DEF Terminate, IOInv, RightPlace, At, Cmd
<1>5. ASSUME NEW d \in IOCalls PROVE RunningPaid(d)'
  <2> DEFINE k == ioCall[d].cmd
  <2>1. ioCall'[d].pc \notin Terminal => ioCall[d].pc \notin Terminal
    BY <1>2 DEF Terminate, At, Terminal
  <2>2. ioCall'[d].pc \notin Terminal /\ NeedsToken(k) =>
          Paid(k, ioCall[d].gen, ioCall[d].began)
    BY <2>1 DEF IOInv, RunningPaid, Cmd
  <2> QED BY <1>1, <1>2, <2>2 DEF RunningPaid, Paid, Cmd, NeedsToken, ExpectedTarget
<1>6. DestroyedAsMinted'
  BY <1>1 DEF IOInv, DestroyedAsMinted, ExpectedTarget
<1> QED BY <1>2, <1>3, <1>4, <1>5, <1>6 DEF IOInv, Shape

(* A restart ends what runs. *)
LEMMA CrashKeeps ==
  ASSUME IOInv, IOCrash
  PROVE  IOInv'
<1>1. ioTokens' = ioTokens /\ ioDone' = ioDone /\ DOMAIN ioCall' = IOCalls
  BY DEF IOCrash
<1>2. ASSUME NEW d \in IOCalls
      PROVE  DOMAIN ioCall'[d] = Fields /\ ioCall'[d].pc \in Terminal
  BY DEF IOCrash, IOInv, Shape, Fields, NoIOCall, Terminal
<1>3. ASSUME NEW d \in IOCalls PROVE RightPlace(d)' /\ RunningPaid(d)'
  BY <1>2 DEF RightPlace, RunningPaid, At, Terminal
<1>4. DestroyedAsMinted'
  BY <1>1 DEF IOInv, DestroyedAsMinted, ExpectedTarget
<1> QED BY <1>1, <1>2, <1>3, <1>4 DEF IOInv, Shape

LEMMA OpenKeeps ==
  ASSUME IOInv, NEW c \in IOCalls, OpenInstance(c)
  PROVE  IOInv'
<1>1. ioTokens' = ioTokens /\ ioDone' = ioDone /\ At(c, "open")
  BY DEF OpenInstance, ioPanelVars
<1>2. CASE Failed(c)
  BY <1>1, <1>2, Ends
<1>3. CASE ~Failed(c)
  <2> DEFINE place ==
        CASE Cmd(c).op = "drop_db" -> IF IsPostgres(c) THEN "terminate" ELSE "drop"
          [] Cmd(c).op = "drop_user" -> IF IsPostgres(c) THEN "reassign" ELSE "dropUser"
          [] Cmd(c).op = "connect" -> "put"
          [] Cmd(c).op = "ping" -> "version"
          [] OTHER -> IF Cmd(c).write THEN "exec" ELSE "query"
  <2>1. ioCall' = [ioCall EXCEPT ![c].live = TRUE, ![c].pc = place]
    BY <1>3, Zenon DEF OpenInstance
  <2> HIDE DEF place
  <2>2. /\ DOMAIN ioCall' = IOCalls /\ DOMAIN ioCall'[c] = Fields
        /\ ioCall'[c].cmd = ioCall[c].cmd /\ ioCall'[c].began = ioCall[c].began
        /\ ioCall'[c].gen = ioCall[c].gen /\ ioCall'[c].pc = place
        /\ \A d \in IOCalls \ {c} : ioCall'[d] = ioCall[d]
    BY <2>1 DEF IOInv, Shape, Fields
  <2>3. Cmd(c).op \in IOOps \ {"disconnect"}
    BY <1>1 DEF IOInv, RightPlace
  <2>4. /\ place \in {"terminate", "drop"} => Cmd(c).op = "drop_db"
        /\ place \in {"reassign", "dropUser"} => Cmd(c).op = "drop_user"
        /\ place = "exec" => Cmd(c).op = "exec_query" /\ Cmd(c).write
        /\ place \notin {"open", "dropOwned"}
    <3>1. CASE Cmd(c).op = "drop_db"
      BY <3>1 DEF place
    <3>2. CASE Cmd(c).op = "drop_user"
      BY <3>2 DEF place
    <3>3. CASE Cmd(c).op = "connect"
      BY <3>3 DEF place
    <3>4. CASE Cmd(c).op = "ping"
      BY <3>4 DEF place
    <3>5. CASE Cmd(c).op = "exec_query"
      BY <3>5 DEF place
    <3> QED BY <2>3, <3>1, <3>2, <3>3, <3>4, <3>5 DEF IOOps
  <2>5. RightPlace(c)'
    BY <2>2, <2>4 DEF RightPlace, At, Cmd
  <2>6. ioCall[c].pc \notin Terminal
    BY <1>1 DEF At, Terminal
  <2> QED BY <1>1, <2>2, <2>5, <2>6, GoesOn
<1> QED BY <1>2, <1>3

(* A step along a user's drop. *)
LEMMA UserKeeps ==
  ASSUME IOInv, NEW c \in IOCalls, ReassignOwned(c) \/ DropOwned(c) \/ DropUser(c)
  PROVE  IOInv'
<1>1. ioTokens' = ioTokens /\ ioCall[c].pc \in {"reassign", "dropOwned", "dropUser"}
  BY DEF ReassignOwned, DropOwned, DropUser, ioPanelVars, At
<1>2. CASE Failed(c) /\ ioDone' = ioDone
  BY <1>1, <1>2, Ends
<1>3. CASE End(c) /\ Destroyed(c) /\ At(c, "dropUser")
  BY <1>1, <1>3, Ends DEF At
<1>4. ASSUME NEW place \in {"dropOwned", "dropUser"}, IOGoto(c, place), ioDone' = ioDone
      PROVE  IOInv'
  <2>1. Cmd(c).op = "drop_user" /\ ioCall[c].pc \notin Terminal
    BY <1>1 DEF IOInv, RightPlace, Terminal
  <2>2. /\ DOMAIN ioCall' = IOCalls /\ DOMAIN ioCall'[c] = Fields
        /\ ioCall'[c].pc = place /\ ioCall'[c].cmd = ioCall[c].cmd
        /\ ioCall'[c].gen = ioCall[c].gen /\ ioCall'[c].began = ioCall[c].began
        /\ \A d \in IOCalls \ {c} : ioCall'[d] = ioCall[d]
    BY <1>4, Changes DEF IOInv
  <2>3. RightPlace(c)'
    BY <2>1, <2>2 DEF RightPlace, At, Cmd
  <2> QED BY <1>1, <1>4, <2>1, <2>2, <2>3, GoesOn
<1> QED BY <1>2, <1>3, <1>4 DEF ReassignOwned, DropOwned, DropUser

(* The steps of a query destroy nothing. *)
LEMMA QueryKeeps ==
  ASSUME IOInv, NEW c \in IOCalls,
         QueryHeader(c) \/ QueryRow(c) \/ RowsEnd(c) \/ QueryFooter(c) \/ QueryError(c)
  PROVE  IOInv'
<1>1. ioTokens' = ioTokens /\ ioDone' = ioDone
  BY DEF QueryHeader, QueryRow, RowsEnd, QueryFooter, QueryError, ioPanelVars
<1>2. CASE Failed(c) \/ Answered(c)
  BY <1>1, <1>2, Ends
<1>3. ASSUME DOMAIN ioCall' = IOCalls, DOMAIN ioCall'[c] = Fields,
             ioCall'[c].cmd = ioCall[c].cmd, ioCall'[c].gen = ioCall[c].gen,
             ioCall'[c].began = ioCall[c].began,
             \A d \in IOCalls \ {c} : ioCall'[d] = ioCall[d],
             ioCall[c].pc \in {"query", "rows"},
             ioCall'[c].pc \in {"rows", "footer", "err"}
      PROVE  IOInv'
  <2>1. RightPlace(c)' /\ ioCall[c].pc \notin Terminal
    BY <1>3 DEF RightPlace, At, Terminal
  <2> QED BY <1>1, <1>3, <2>1, GoesOn
<1>4. CASE QueryHeader(c) /\ ~Failed(c)
  <2>1. PICK n \in 0 .. MostRows :
          ioCall' = [ioCall EXCEPT ![c].pc = "rows", ![c].header = TRUE, ![c].total = n]
    BY <1>4 DEF QueryHeader
  <2> QED BY <1>3, <1>4, <2>1 DEF QueryHeader, At, IOInv, Shape, Fields
<1>5. CASE QueryRow(c)
  BY <1>3, <1>5 DEF QueryRow, At, IOInv, Shape, Fields
<1>6. ASSUME NEW place \in {"footer", "err"}, IOGoto(c, place), At(c, "rows") PROVE IOInv'
  BY <1>3, <1>6, Changes DEF At, IOInv
<1>7. RowsEnd(c) => IOInv'
  BY <1>6 DEF RowsEnd
<1> QED BY <1>2, <1>4, <1>5, <1>7 DEF QueryFooter, QueryError

LEMMA DropKeeps ==
  ASSUME IOInv, NEW c \in IOCalls, DropDatabase(c) \/ Exec(c)
  PROVE  IOInv'
<1>1. ioTokens' = ioTokens
  BY DEF DropDatabase, Exec, ioPanelVars
<1>2. /\ Failed(c) \/ End(c)
      /\ ioDone' = ioDone \/ (Destroyed(c) /\ ioCall[c].pc \in {"drop", "exec"})
  BY DEF DropDatabase, Exec, At
<1> QED BY <1>1, <1>2, Ends

LEMMA EndKeeps ==
  ASSUME IOInv, NEW c \in IOCalls,
         Put(c) \/ Delete(c) \/ Version(c) \/ StatementFails(c)
  PROVE  IOInv'
<1>1. ioTokens' = ioTokens /\ ioDone' = ioDone /\ (Failed(c) \/ End(c))
  BY DEF Put, Delete, Version, StatementFails, ioPanelVars
<1> QED BY <1>1, Ends

LEMMA IOInvNext == IOInv /\ [IONext]_ioVars => IOInv'
<1> SUFFICES ASSUME IOInv, [IONext]_ioVars PROVE IOInv'
  OBVIOUS
<1>1. ASSUME AnswerHeartbeat \/ AnswerRenewal \/ IOTick PROVE IOInv'
  BY <1>1, Rests DEF AnswerHeartbeat, AnswerRenewal, IOTick
<1>2. ASSUME NEW a \in ioAnswers, SetOpTokenSecret(a) PROVE IOInv'
  BY <1>2, Rests DEF SetOpTokenSecret
<1>3. ASSUME NEW k, NEW agent, Mint(k, agent) PROVE IOInv'
  BY <1>3, Rests DEF Mint
<1>4. CASE UNCHANGED ioVars
  BY <1>4, Rests DEF ioVars
<1> QED BY <1>1, <1>2, <1>3, <1>4, CrashKeeps, DeliverKeeps, OpenKeeps, EndKeeps,
           TerminateKeeps, DropKeeps, UserKeeps, QueryKeeps DEF IONext

(* For any instances, commands, tokens and secrets, and whatever fails or  *)
(* restarts: what is destroyed, the panel has asked for with a token of    *)
(* this agent, operation, instance and target that had not expired.        *)
THEOREM AlwaysDestroyedAsMinted == IOSpec => []DestroyedAsMinted
<1>1. IOInv => DestroyedAsMinted
  BY DEF IOInv
<1>2. IOInv /\ [IONext]_ioVars => IOInv'
  BY IOInvNext
<1> QED BY <1>1, <1>2, IOInvInit, PTL DEF IOSpec

-----------------------------------------------------------------------------
(* The objects of a user that is dropped. *)

(* Who is about to run DROP OWNED has reassigned what the user owned.      *)
Reassigned(c) ==
  At(c, "dropOwned") /\ Cmd(c).inst \in IOInstances => ioServer[Cmd(c).inst].owner # "user"

ServerShape ==
  /\ DOMAIN ioServer = IOInstances
  /\ \A i \in IOInstances : DOMAIN ioServer[i] = {"dbs", "user", "owner"}

OwnedInv ==
  /\ Shape /\ ServerShape
  /\ \A c \in IOCalls : Reassigned(c)
  /\ OwnedObjectsKept

LEMMA OwnedInvInit == IOInit => OwnedInv
<1> SUFFICES ASSUME IOInit PROVE OwnedInv
  OBVIOUS
<1>1. /\ DOMAIN ioCall = IOCalls /\ \A c \in IOCalls : ioCall[c] = NoIOCall
      /\ ioServer = [i \in IOInstances |-> [dbs |-> Databases, user |-> TRUE, owner |-> "user"]]
  BY DEF IOInit
<1>2. DOMAIN NoIOCall = Fields /\ NoIOCall.pc = "idle"
  BY DEF NoIOCall, Fields
<1>3. Shape /\ \A c \in IOCalls : Reassigned(c)
  BY <1>1, <1>2 DEF Shape, Reassigned, At
<1>4. ServerShape /\ OwnedObjectsKept
  BY <1>1 DEF ServerShape, OwnedObjectsKept
<1> QED BY <1>3, <1>4 DEF OwnedInv

(* An owner stays, or is replaced by the server's own. *)
OwnersKept ==
  /\ ServerShape'
  /\ \A i \in IOInstances : ioServer'[i].owner \in {ioServer[i].owner, "postgres"}

(* Nobody comes to DROP OWNED by another way than REASSIGN OWNED. *)
LEMMA OwnedKeeps ==
  ASSUME OwnedInv, OwnersKept, Shape',
         \A c \in IOCalls : /\ ioCall'[c].pc = "dropOwned"
                            => /\ ioCall'[c].cmd = ioCall[c].cmd
                               /\ \/ ioCall[c].pc = "dropOwned"
                                  \/ Cmd(c).inst \in IOInstances =>
                                       ioServer'[Cmd(c).inst].owner # "user"
  PROVE  OwnedInv'
<1>1. OwnedObjectsKept'
  BY DEF OwnedInv, OwnedObjectsKept, OwnersKept
<1>2. ASSUME NEW c \in IOCalls PROVE Reassigned(c)'
  BY DEF OwnedInv, Reassigned, OwnersKept, At, Cmd
<1> QED BY <1>1, <1>2 DEF OwnedInv, OwnersKept

LEMMA OwnedInvNext == OwnedInv /\ [IONext]_ioVars => OwnedInv'
<1> SUFFICES ASSUME OwnedInv, [IONext]_ioVars PROVE OwnedInv'
  OBVIOUS
<1>0. ioServer' = ioServer => OwnersKept
  BY DEF OwnersKept, OwnedInv, ServerShape
<1>1. ASSUME ioCall' = ioCall, ioServer' = ioServer PROVE OwnedInv'
  BY <1>0, <1>1, OwnedKeeps DEF OwnedInv, Shape
<1>2. CASE AnswerHeartbeat \/ AnswerRenewal \/ IOTick \/ UNCHANGED ioVars
  BY <1>1, <1>2 DEF AnswerHeartbeat, AnswerRenewal, IOTick, ioVars
<1>3. ASSUME NEW a \in ioAnswers, SetOpTokenSecret(a) PROVE OwnedInv'
  BY <1>1, <1>3 DEF SetOpTokenSecret
<1>4. ASSUME NEW k, NEW agent, Mint(k, agent) PROVE OwnedInv'
  BY <1>1, <1>4 DEF Mint
(* One call moves, and does not come to DROP OWNED.                        *)
<1>5. ASSUME NEW c \in IOCalls, OwnersKept, DOMAIN ioCall' = IOCalls,
             DOMAIN ioCall'[c] = Fields, ioCall'[c].pc # "dropOwned",
             \A d \in IOCalls \ {c} : ioCall'[d] = ioCall[d]
      PROVE  OwnedInv'
  <2>1. Shape'
    BY <1>5 DEF OwnedInv, Shape
  <2> QED BY <1>5, <2>1, OwnedKeeps
<1>6. ASSUME NEW c \in IOCalls, OwnersKept, Failed(c) \/ End(c) \/ Answered(c) PROVE OwnedInv'
  BY <1>5, <1>6, Changes DEF OwnedInv, Terminal
<1>7. ASSUME NEW c \in IOCalls, OwnersKept, NEW place, place # "dropOwned", IOGoto(c, place)
      PROVE  OwnedInv'
  BY <1>5, <1>7, Changes DEF OwnedInv
<1>8. ASSUME NEW c \in IOCalls, Put(c) \/ Delete(c) \/ Version(c) \/ StatementFails(c) \/ Exec(c)
                                \/ QueryFooter(c) \/ QueryError(c)
      PROVE  OwnedInv'
  BY <1>0, <1>6, <1>8 DEF Put, Delete, Version, StatementFails, Exec, QueryFooter, QueryError
<1>9. ASSUME NEW c \in IOCalls, DropDatabase(c) PROVE OwnedInv'
  <2>1. OwnersKept
    BY <1>0, <1>9 DEF DropDatabase, OnServer, Server, OwnedInv, ServerShape, OwnersKept
  <2> QED BY <1>6, <1>9, <2>1 DEF DropDatabase
<1>10. ASSUME NEW c \in IOCalls, DropUser(c) PROVE OwnedInv'
  <2>1. OwnersKept
    BY <1>0, <1>10 DEF DropUser, OnServer, Server, OwnedInv, ServerShape, OwnersKept
  <2> QED BY <1>6, <1>10, <2>1 DEF DropUser
<1>11. ASSUME NEW c \in IOCalls, ReassignOwned(c) PROVE OwnedInv'
  <2>1. OwnersKept
    BY <1>0, <1>11 DEF ReassignOwned, OnServer, Server, OwnedInv, ServerShape, OwnersKept
  <2>2. CASE Failed(c)
    BY <1>6, <2>1, <2>2
  <2>3. CASE IOGoto(c, "dropOwned")
    <3>1. Cmd(c).inst \in IOInstances => ioServer'[Cmd(c).inst].owner # "user"
      <4>1. CASE Server(c).user
        BY <1>11, <4>1 DEF ReassignOwned, OnServer, Server, OwnedInv, ServerShape
      <4>2. CASE ~Server(c).user
        BY <1>11, <2>3, <4>2, Changes DEF ReassignOwned, OwnedInv, Terminal
      <4> QED BY <4>1, <4>2
    <3>2. /\ DOMAIN ioCall' = IOCalls /\ DOMAIN ioCall'[c] = Fields
          /\ ioCall'[c].cmd = ioCall[c].cmd
          /\ \A d \in IOCalls \ {c} : ioCall'[d] = ioCall[d]
      BY <2>3, Changes DEF OwnedInv
    <3>3. Shape'
      BY <3>2 DEF OwnedInv, Shape
    <3> QED BY <2>1, <3>1, <3>2, <3>3, OwnedKeeps
  <2> QED BY <1>11, <2>2, <2>3 DEF ReassignOwned
<1>12. ASSUME NEW c \in IOCalls, DropOwned(c) PROVE OwnedInv'
  <2>1. OwnersKept
    <3>1. CASE ioServer' = ioServer
      BY <1>0, <3>1
    <3>2. CASE OnServer(c, [Server(c) EXCEPT !.owner = IF @ = "user" THEN "gone" ELSE @])
      <4>1. At(c, "dropOwned") /\ Reassigned(c)
        BY <1>12 DEF DropOwned, OwnedInv
      <4> QED BY <3>2, <4>1 DEF OnServer, Server, OwnedInv, ServerShape, OwnersKept, Reassigned
    <3> QED BY <1>12, <3>1, <3>2 DEF DropOwned
  <2> QED BY <1>6, <1>7, <1>12, <2>1 DEF DropOwned
<1>13. ASSUME NEW c \in IOCalls, OpenInstance(c) PROVE OwnedInv'
  <2>1. OwnersKept
    BY <1>0, <1>13 DEF OpenInstance
  <2> DEFINE place ==
        CASE Cmd(c).op = "drop_db" -> IF IsPostgres(c) THEN "terminate" ELSE "drop"
          [] Cmd(c).op = "drop_user" -> IF IsPostgres(c) THEN "reassign" ELSE "dropUser"
          [] Cmd(c).op = "connect" -> "put"
          [] Cmd(c).op = "ping" -> "version"
          [] OTHER -> IF Cmd(c).write THEN "exec" ELSE "query"
  <2>2. CASE ioCall' = [ioCall EXCEPT ![c].live = TRUE, ![c].pc = place]
    <3>1. place # "dropOwned"
      OBVIOUS
    <3> HIDE DEF place
    <3> QED BY <1>5, <2>1, <2>2, <3>1 DEF OwnedInv, Shape, Fields
  <2> QED BY <1>6, <1>13, <2>1, <2>2, Zenon DEF OpenInstance
<1>14. ASSUME NEW c \in IOCalls, QueryHeader(c) \/ QueryRow(c) \/ RowsEnd(c) PROVE OwnedInv'
  <2>1. OwnersKept /\ ~At(c, "dropOwned")
    BY <1>0, <1>14 DEF QueryHeader, QueryRow, RowsEnd, At
  <2>2. CASE QueryHeader(c) /\ ~Failed(c)
    <3>1. PICK n \in 0 .. MostRows :
            ioCall' = [ioCall EXCEPT ![c].pc = "rows", ![c].header = TRUE, ![c].total = n]
      BY <2>2 DEF QueryHeader
    <3> QED BY <1>5, <2>1, <3>1 DEF OwnedInv, Shape, Fields
  <2>3. CASE QueryRow(c)
    BY <1>5, <2>1, <2>3 DEF QueryRow, At, OwnedInv, Shape, Fields
  <2>4. CASE RowsEnd(c)
    BY <1>7, <2>1, <2>4 DEF RowsEnd
  <2> QED BY <1>6, <1>14, <2>1, <2>2, <2>3, <2>4
<1>15. ASSUME NEW c \in IOCalls, Terminate(c) PROVE OwnedInv'
  <2>1. OwnersKept
    BY <1>0, <1>15 DEF Terminate
  <2>2. /\ Shape'
        /\ \A d \in IOCalls : /\ ioCall'[d].cmd = ioCall[d].cmd
                              /\ ioCall'[d].pc = IF d = c THEN "drop" ELSE ioCall[d].pc
    BY <1>15 DEF Terminate, OwnedInv, Shape, Fields
  <2> QED BY <2>1, <2>2, OwnedKeeps
<1>16. ASSUME NEW c \in IOCalls, NEW k \in IOCommands, NEW t, Deliver(c, k, t) PROVE OwnedInv'
  <2>1. OwnersKept
    BY <1>0, <1>16 DEF Deliver
  <2>2. CASE Refused(k, t)
    BY <1>6, <1>16, <2>1, <2>2 DEF Deliver
  <2>3. CASE ~Refused(k, t)
    <3> DEFINE gen == IF NeedsToken(k) THEN ioSecret ELSE 0
               place == IF k.op = "disconnect" THEN "delete" ELSE "open"
    <3>1. ioCall' = [ioCall EXCEPT ![c] = [NoIOCall EXCEPT !.cmd = k, !.began = ioClock,
                                             !.gen = gen, !.pc = place]]
      BY <1>16, <2>3 DEF Deliver
    <3>2. place # "dropOwned"
      OBVIOUS
    <3> HIDE DEF place, gen
    <3> QED BY <1>5, <2>1, <3>1, <3>2 DEF OwnedInv, Shape, NoIOCall, Fields
  <2> QED BY <2>2, <2>3
<1>17. CASE IOCrash
  <2>1. OwnersKept
    BY <1>0, <1>17 DEF IOCrash
  <2>2. Shape' /\ \A d \in IOCalls : ioCall'[d].pc # "dropOwned"
    BY <1>17 DEF IOCrash, OwnedInv, Shape, Fields, NoIOCall
  <2> QED BY <2>1, <2>2, OwnedKeeps
<1> QED BY <1>2, <1>3, <1>4, <1>8, <1>9, <1>10, <1>11, <1>12, <1>13, <1>14, <1>15, <1>16,
           <1>17 DEF IONext

(* Dropping a user, halfway, again, or twice at once, never drops what the *)
(* user owned.                                                             *)
THEOREM OwnedObjectsAlwaysKept == IOSpec => []OwnedObjectsKept
<1>1. OwnedInv => OwnedObjectsKept
  BY DEF OwnedInv
<1> QED BY <1>1, OwnedInvInit, OwnedInvNext, PTL DEF IOSpec

-----------------------------------------------------------------------------
(* A query's footer. *)

(* Where a query has counters. *)
Began == {"rows", "footer", "answered", "err"}

(* A call's counters, by where it is: before the header they are zero, the *)
(* footer is reached with all the rows there were, or as many as allowed.  *)
CallSound(k) ==
  /\ DOMAIN k = Fields
  /\ k.rows \in 0 .. MostRows /\ k.began \in 0 .. IOLastTime
  /\ k.pc \notin {"idle", "done", "failed"} => k.cmd \in IOCommands
  /\ k.pc \notin Began => k.rows = 0 /\ k.truncated = FALSE
  /\ k.pc \in {"rows", "footer", "answered"} => k.total \in 0 .. MostRows
  /\ k.pc = "rows" =>
       k.truncated = FALSE /\ k.rows <= k.total /\ k.rows <= RowLimit(k.cmd)
  /\ k.pc \in {"footer", "answered"} =>
       /\ k.total > RowLimit(k.cmd) => k.truncated = TRUE /\ k.rows = RowLimit(k.cmd)
       /\ ~(k.total > RowLimit(k.cmd)) => k.truncated = FALSE /\ k.rows = k.total

FooterInv ==
  /\ IOTypeOK /\ ioClock \in 0 .. IOLastTime
  /\ DOMAIN ioCall = IOCalls /\ \A c \in IOCalls : CallSound(ioCall[c])

LEMMA RowLimitNat == \A k \in IOCommands : RowLimit(k) \in Nat
BY InstanceOpsAssumption DEF RowLimit

(* A command that is over, or that has not begun. *)
LEMMA IdleSound ==
  ASSUME NEW place \in Terminal \ {"answered"}
  PROVE  CallSound([NoIOCall EXCEPT !.pc = place]) /\ CallSound(NoIOCall)
<1>1. DOMAIN NoIOCall = Fields /\ NoIOCall.rows = 0 /\ NoIOCall.began = 0
      /\ NoIOCall.truncated = FALSE /\ NoIOCall.pc = "idle"
  BY DEF NoIOCall, Fields
<1>2. 0 \in 0 .. MostRows /\ 0 \in 0 .. IOLastTime
  BY InstanceOpsAssumption
<1> QED BY <1>1, <1>2 DEF CallSound, Fields, Began, Terminal

(* A step that is not one of a query's rows. *)
LEMMA MovedSound ==
  ASSUME NEW k, CallSound(k), k.pc \notin Began \cup {"idle", "done", "failed"},
         NEW place, place \notin Began
  PROVE  /\ CallSound([k EXCEPT !.pc = place])
         /\ CallSound([k EXCEPT !.live = TRUE, !.pc = place])
BY DEF CallSound, Fields, Began

LEMMA FooterInvInit == IOInit => FooterInv
<1> SUFFICES ASSUME IOInit PROVE FooterInv
  OBVIOUS
<1>1. DOMAIN ioCall = IOCalls /\ \A c \in IOCalls : CallSound(ioCall[c])
  <2>1. "idle" \in Terminal \ {"answered"}
    BY DEF Terminal
  <2>2. CallSound(NoIOCall)
    BY <2>1, IdleSound
  <2> QED BY <2>2 DEF IOInit
<1>2. IOTypeOK /\ ioClock \in 0 .. IOLastTime
  <2>1. \A c \in IOCalls : ioCall[c].rows \in 0 .. MostRows /\ ioCall[c].began \in 0 .. IOLastTime
    BY <1>1 DEF CallSound
  <2> QED BY <2>1, InstanceOpsAssumption DEF IOInit, IOTypeOK
<1> QED BY <1>1, <1>2 DEF FooterInv

(* The types of what is not a call, and one call that moves. *)
Around ==
  /\ ioPanel \in 1 .. LastGen /\ ioSecret \in 0 .. LastGen
  /\ ioAnswers \subseteq [to : {"heartbeat", "renewal"}, gen : 1 .. LastGen]
  /\ ioVault \subseteq IOInstances /\ ioFaults \in 0 .. IOMaxFaults
  /\ ioClock \in 0 .. IOLastTime

LEMMA CallsSound ==
  ASSUME FooterInv, Around', DOMAIN ioCall' = IOCalls, \A c \in IOCalls : CallSound(ioCall'[c])
  PROVE  FooterInv'
BY DEF FooterInv, Around, IOTypeOK, CallSound

LEMMA OneSound ==
  ASSUME FooterInv, Around', NEW c \in IOCalls, NEW k, ioCall' = [ioCall EXCEPT ![c] = k], CallSound(k)
  PROVE  FooterInv'
<1>1. DOMAIN ioCall' = IOCalls /\ \A d \in IOCalls : CallSound(ioCall'[d])
  BY DEF FooterInv
<1> QED BY <1>1, CallsSound

LEMMA EndedSound ==
  ASSUME FooterInv, Around', NEW c \in IOCalls, Failed(c) \/ End(c)
  PROVE  FooterInv'
BY OneSound, IdleSound DEF Failed, End, Terminal

(* A query answers with the footer that its rows have come to. *)
LEMMA QuerySound ==
  ASSUME FooterInv, NEW c \in IOCalls,
         QueryHeader(c) \/ QueryRow(c) \/ RowsEnd(c) \/ QueryFooter(c) \/ QueryError(c)
  PROVE  FooterInv'
<1> USE RowLimitNat
<1>1. Around'
  <2>1. UNCHANGED ioPanelVars /\ ioVault' = ioVault /\ (ioFaults' = ioFaults \/ IOFault)
    BY DEF QueryHeader, QueryRow, RowsEnd, QueryFooter, QueryError
  <2> QED BY <2>1, InstanceOpsAssumption DEF ioPanelVars, Around, FooterInv, IOTypeOK, IOFault
<1> DEFINE k == ioCall[c]
<1>2. CallSound(k) /\ DOMAIN ioCall = IOCalls
  BY DEF FooterInv
<1>3. CASE QueryHeader(c)
  <2>1. CASE Failed(c)
    BY <1>1, <2>1, EndedSound
  <2>2. CASE ~Failed(c)
    <3>1. PICK n \in 0 .. MostRows :
            ioCall' = [ioCall EXCEPT ![c] = [k EXCEPT !.pc = "rows", !.header = TRUE, !.total = n]]
      BY <1>3, <2>2 DEF QueryHeader
    <3>2. k.pc = "query"
      BY <1>3 DEF QueryHeader, At
    <3> DEFINE q == [k EXCEPT !.pc = "rows", !.header = TRUE, !.total = n]
    <3>3. /\ DOMAIN q = Fields /\ q.pc = "rows" /\ q.rows = k.rows /\ q.began = k.began
          /\ q.cmd = k.cmd /\ q.truncated = k.truncated /\ q.total = n
      BY <1>2 DEF CallSound, Fields
    <3> HIDE DEF q
    <3>4. CallSound(q)
      BY <1>2, <3>2, <3>3 DEF CallSound, Began
    <3> QED BY <1>1, <3>1, <3>4, OneSound DEF q
  <2> QED BY <2>1, <2>2
<1>4. CASE QueryRow(c)
  <2>1. k.pc = "rows" /\ k.rows < k.total
    BY <1>4 DEF QueryRow, At
  <2>2. CASE k.rows >= RowLimit(Cmd(c))
    <3> DEFINE q == [k EXCEPT !.pc = "footer", !.truncated = TRUE]
    <3>1. ioCall' = [ioCall EXCEPT ![c] = q]
      BY <1>4, <2>2 DEF QueryRow
    <3>2. /\ DOMAIN q = Fields /\ q.pc = "footer" /\ q.rows = k.rows /\ q.began = k.began
          /\ q.cmd = k.cmd /\ q.truncated = TRUE /\ q.total = k.total
      BY <1>2 DEF CallSound, Fields
    <3> HIDE DEF q
    <3>3. CallSound(q)
      BY <1>2, <2>1, <2>2, <3>2 DEF CallSound, Began, Cmd
    <3> QED BY <1>1, <3>1, <3>3, OneSound
  <2>3. CASE ~(k.rows >= RowLimit(Cmd(c)))
    <3> DEFINE q == [k EXCEPT !.rows = @ + 1]
    <3>1. ioCall' = [ioCall EXCEPT ![c] = q]
      BY <1>4, <2>3 DEF QueryRow
    <3>2. /\ DOMAIN q = Fields /\ q.pc = k.pc /\ q.rows = k.rows + 1 /\ q.began = k.began
          /\ q.cmd = k.cmd /\ q.truncated = k.truncated /\ q.total = k.total
      BY <1>2 DEF CallSound, Fields
    <3> HIDE DEF q
    <3>3. CallSound(q)
      BY <1>2, <2>1, <2>3, <3>2, InstanceOpsAssumption DEF CallSound, Began, Cmd
    <3> QED BY <1>1, <3>1, <3>3, OneSound
  <2> QED BY <2>2, <2>3
<1>5. ASSUME NEW place \in {"footer", "err", "answered"}, NEW q,
             ioCall' = [ioCall EXCEPT ![c] = q], DOMAIN q = Fields, q.pc = place,
             q.rows = k.rows, q.began = k.began, q.cmd = k.cmd,
             q.truncated = k.truncated, q.total = k.total,
             place = "footer" => k.pc = "rows" /\ k.rows = k.total,
             place = "err" => k.pc = "rows",
             place = "answered" => k.pc = "footer"
      PROVE  FooterInv'
  <2>1. CallSound(q)
    BY <1>2, <1>5, InstanceOpsAssumption DEF CallSound, Began
  <2> QED BY <1>1, <1>5, <2>1, OneSound
<1>6. CASE RowsEnd(c)
  <2>1. PICK place \in {"footer", "err"} :
          /\ IOGoto(c, place) /\ k.pc = "rows"
          /\ place = "footer" => k.rows = k.total
    BY <1>6 DEF RowsEnd, At
  <2> DEFINE q == [k EXCEPT !.pc = place]
  <2>2. /\ ioCall' = [ioCall EXCEPT ![c] = q] /\ DOMAIN q = Fields /\ q.pc = place
        /\ q.rows = k.rows /\ q.began = k.began /\ q.cmd = k.cmd
        /\ q.truncated = k.truncated /\ q.total = k.total
    BY <1>2, <2>1 DEF IOGoto, CallSound, Fields
  <2> HIDE DEF q
  <2> QED BY <1>5, <2>1, <2>2
<1>7. CASE QueryFooter(c)
  <2> DEFINE q == [k EXCEPT !.pc = "answered", !.live = FALSE]
  <2>2. /\ ioCall' = [ioCall EXCEPT ![c] = q] /\ DOMAIN q = Fields /\ q.pc = "answered"
        /\ q.rows = k.rows /\ q.began = k.began /\ q.cmd = k.cmd
        /\ q.truncated = k.truncated /\ q.total = k.total
    BY <1>2, <1>7 DEF QueryFooter, Answered, CallSound, Fields
  <2>3. k.pc = "footer"
    BY <1>7 DEF QueryFooter, AnswersFooter, At
  <2> HIDE DEF q
  <2> QED BY <1>5, <2>2, <2>3
<1>8. CASE QueryError(c)
  BY <1>1, <1>8, EndedSound DEF QueryError
<1> QED BY <1>3, <1>4, <1>6, <1>7, <1>8

LEMMA FooterInvNext == FooterInv /\ [IONext]_ioVars => FooterInv'
<1> SUFFICES ASSUME FooterInv, [IONext]_ioVars PROVE FooterInv'
  OBVIOUS
<1> USE InstanceOpsAssumption
<1>1. Around
  BY DEF FooterInv, Around, IOTypeOK
<1>2. ASSUME ioCall' = ioCall, Around' PROVE FooterInv'
  BY <1>2, CallsSound DEF FooterInv
<1>3. CASE AnswerHeartbeat
  BY <1>1, <1>2, <1>3 DEF AnswerHeartbeat, Around
<1>4. CASE AnswerRenewal
  BY <1>1, <1>2, <1>4 DEF AnswerRenewal, Around
<1>5. CASE IOTick
  BY <1>1, <1>2, <1>5 DEF IOTick, Around
<1>6. CASE IOCrash
  <2>1. Around' /\ DOMAIN ioCall' = IOCalls
    BY <1>1, <1>6 DEF IOCrash, IOFault, Around
  <2>2. ASSUME NEW c \in IOCalls PROVE CallSound(ioCall'[c])
    <3>1. CallSound(ioCall[c]) /\ CallSound([NoIOCall EXCEPT !.pc = "failed"])
      BY IdleSound DEF FooterInv, Terminal
    <3> QED BY <1>6, <3>1 DEF IOCrash
  <2> QED BY <2>1, <2>2, CallsSound
<1>7. ASSUME NEW a \in ioAnswers, SetOpTokenSecret(a) PROVE FooterInv'
  BY <1>1, <1>2, <1>7 DEF SetOpTokenSecret, Around
<1>8. ASSUME NEW k, NEW agent, Mint(k, agent) PROVE FooterInv'
  BY <1>1, <1>2, <1>8 DEF Mint, Around
<1>9. ASSUME NEW c \in IOCalls, NEW k \in IOCommands, NEW t, Deliver(c, k, t) PROVE FooterInv'
  <2>1. Around'
    BY <1>1, <1>9 DEF Deliver, ioPanelVars, Around
  <2>2. CASE Refused(k, t)
    BY <1>9, <2>1, <2>2, EndedSound DEF Deliver
  <2>3. CASE ~Refused(k, t)
    <3> DEFINE gen == IF NeedsToken(k) THEN ioSecret ELSE 0
               place == IF k.op = "disconnect" THEN "delete" ELSE "open"
               q == [NoIOCall EXCEPT !.cmd = k, !.began = ioClock, !.gen = gen, !.pc = place]
    <3>1. ioCall' = [ioCall EXCEPT ![c] = q]
      BY <1>9, <2>3 DEF Deliver
    <3>2. place \in {"delete", "open"}
      OBVIOUS
    <3> HIDE DEF place, gen
    <3>3. /\ DOMAIN q = Fields /\ q.pc = place /\ q.rows = 0 /\ q.began = ioClock
          /\ q.cmd = k /\ q.truncated = FALSE
      BY DEF NoIOCall, Fields
    <3> HIDE DEF q
    <3>4. CallSound(q)
      BY <1>1, <3>2, <3>3 DEF CallSound, Began, Around
    <3> QED BY <2>1, <3>1, <3>4, OneSound
  <2> QED BY <2>2, <2>3
<1>10. ASSUME NEW c \in IOCalls, NEW place, NEW q, place \notin Began,
              ioCall[c].pc \notin Began \cup {"idle", "done", "failed"}, Around',
              \/ q = [ioCall[c] EXCEPT !.pc = place]
              \/ q = [ioCall[c] EXCEPT !.live = TRUE, !.pc = place],
              ioCall' = [ioCall EXCEPT ![c] = q]
       PROVE  FooterInv'
  <2>1. CallSound(q)
    <3>1. CallSound(ioCall[c])
      BY DEF FooterInv
    <3>2. /\ CallSound([ioCall[c] EXCEPT !.pc = place])
          /\ CallSound([ioCall[c] EXCEPT !.live = TRUE, !.pc = place])
      BY <1>10, <3>1, MovedSound
    <3> QED BY <1>10, <3>2
  <2> QED BY <1>10, <2>1, OneSound
<1>11. ASSUME NEW c \in IOCalls, OpenInstance(c) PROVE FooterInv'
  <2>1. Around' /\ ioCall[c].pc = "open"
    BY <1>1, <1>11 DEF OpenInstance, ioPanelVars, Around, IOFault, At
  <2> DEFINE place ==
        CASE Cmd(c).op = "drop_db" -> IF IsPostgres(c) THEN "terminate" ELSE "drop"
          [] Cmd(c).op = "drop_user" -> IF IsPostgres(c) THEN "reassign" ELSE "dropUser"
          [] Cmd(c).op = "connect" -> "put"
          [] Cmd(c).op = "ping" -> "version"
          [] OTHER -> IF Cmd(c).write THEN "exec" ELSE "query"
  <2>2. CASE ioCall' = [ioCall EXCEPT ![c] = [ioCall[c] EXCEPT !.live = TRUE, !.pc = place]]
    <3>1. place \notin Began
      BY DEF Began
    <3> HIDE DEF place
    <3> QED BY <1>10, <2>1, <2>2, <3>1 DEF Began
  <2>3. Failed(c) \/ ioCall' = [ioCall EXCEPT ![c].live = TRUE, ![c].pc = place]
    BY <1>11, Zenon DEF OpenInstance
  <2>4. ioCall' = [ioCall EXCEPT ![c].live = TRUE, ![c].pc = place] =>
          ioCall' = [ioCall EXCEPT ![c] = [ioCall[c] EXCEPT !.live = TRUE, !.pc = place]]
    <3> HIDE DEF place
    <3> QED OBVIOUS
  <2> QED BY <2>1, <2>2, <2>3, <2>4, EndedSound
<1>12. ASSUME NEW c \in IOCalls, Put(c) \/ Delete(c) \/ Version(c) \/ StatementFails(c)
                                 \/ DropDatabase(c) \/ DropUser(c) \/ Exec(c)
       PROVE  FooterInv'
  <2>1. Failed(c) \/ End(c)
    BY <1>12 DEF Put, Delete, Version, StatementFails, DropDatabase, DropUser, Exec
  <2>2. /\ UNCHANGED ioPanelVars
        /\ ioFaults' = ioFaults \/ IOFault
        /\ ioVault' \subseteq ioVault \cup {Cmd(c).inst}
        /\ ioVault' = ioVault \/ ioCall[c].pc = "put" \/ ioVault' \subseteq ioVault
    BY <1>12 DEF Put, Delete, Version, StatementFails, DropDatabase, DropUser, Exec, At
  <2>3. ioCall[c].pc = "put" => Cmd(c).inst \in IOInstances
    BY DEF FooterInv, CallSound, Cmd
  <2>4. Around'
    BY <1>1, <2>2, <2>3 DEF Around, ioPanelVars, IOFault
  <2> QED BY <2>1, <2>4, EndedSound
<1>13. ASSUME NEW c \in IOCalls, ReassignOwned(c) \/ DropOwned(c) PROVE FooterInv'
  <2>1. Around' /\ ioCall[c].pc \in {"reassign", "dropOwned"}
    BY <1>1, <1>13 DEF ReassignOwned, DropOwned, ioPanelVars, Around, At
  <2>2. Failed(c) \/ IOGoto(c, "dropOwned") \/ IOGoto(c, "dropUser")
    BY <1>13 DEF ReassignOwned, DropOwned
  <2>3. ASSUME NEW place \in {"dropOwned", "dropUser"}, IOGoto(c, place) PROVE FooterInv'
    BY <1>10, <2>1, <2>3 DEF IOGoto, Began
  <2> QED BY <2>1, <2>2, <2>3, EndedSound
<1>14. ASSUME NEW c \in IOCalls, Terminate(c) PROVE FooterInv'
  <2>1. Around' /\ DOMAIN ioCall' = IOCalls /\ ioCall[c].pc = "terminate"
    BY <1>1, <1>14 DEF Terminate, ioPanelVars, Around, At
  <2>2. ASSUME NEW d \in IOCalls PROVE CallSound(ioCall'[d])
    <3>1. CallSound(ioCall[d])
      BY DEF FooterInv
    <3>2. CASE d = c
      BY <1>14, <2>1, <3>1, <3>2, MovedSound DEF Terminate, Began
    <3>3. CASE ioCall'[d] = ioCall[d]
      BY <3>1, <3>3
    <3>4. CASE ioCall'[d] = [ioCall[d] EXCEPT !.live = FALSE]
      BY <3>1, <3>4 DEF CallSound, Fields
    <3> QED BY <1>14, <3>2, <3>3, <3>4 DEF Terminate
  <2> QED BY <2>1, <2>2, CallsSound
<1>15. CASE UNCHANGED ioVars
  BY <1>1, <1>2, <1>15 DEF ioVars, Around
<1> QED BY <1>3, <1>4, <1>5, <1>6, <1>7, <1>8, <1>9, <1>11, <1>12, <1>13, <1>14, <1>15, QuerySound
        DEF IONext

(* However a query's connection is lost, and whatever runs beside it: a    *)
(* footer tells of the whole result, for any limits, rows and commands     *)
(* (runQuery).                                                             *)
THEOREM FooterAlwaysWhole == IOSpec => []FooterIsWhole
<1>1. FooterInv => FooterIsWhole
  <2> SUFFICES ASSUME FooterInv, NEW c \in IOCalls, At(c, "answered")
               PROVE  LET k == ioCall[c] limit == RowLimit(Cmd(c))
                      IN /\ k.rows = IF k.total > limit THEN limit ELSE k.total
                         /\ k.truncated <=> k.total > limit
    BY DEF FooterInv, FooterIsWhole
  <2>1. CallSound(ioCall[c])
    BY DEF FooterInv
  <2>2. CASE ioCall[c].total > RowLimit(Cmd(c))
    BY <2>1, <2>2 DEF CallSound, At, Cmd
  <2>3. CASE ~(ioCall[c].total > RowLimit(Cmd(c)))
    BY <2>1, <2>3 DEF CallSound, At, Cmd
  <2> QED BY <2>2, <2>3
<1> QED BY <1>1, FooterInvInit, FooterInvNext, PTL DEF IOSpec

=============================================================================
