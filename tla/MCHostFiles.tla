----------------------------- MODULE MCHostFiles -----------------------------
(***************************************************************************)
(* Instances for TLC of the components that keep files of the host: the    *)
(* key of the vault, the agent's own configuration, key and certificate,   *)
(* the authorized_keys of its users, sshd's configuration, and the files   *)
(* that an AI assistant works on; and of the collector that probes the     *)
(* host.  They share no variable, so that a behaviour is one of any of     *)
(* them: the variables of the others stay as they are.                     *)
(***************************************************************************)
EXTENDS VaultKey, Enrollment, AuthorizedKeys, SSHDConfig, Collector, AIFileOps, TLC

CONSTANTS
  p1, p2, p3

VARIABLE part  \* "vault", "start", "keys", "sshd", "collector", "undo" or "janitor"

ThreeAgents == {p1, p2, p3}

(* Three sshd_config: with an Include, with two ports and a Match block,   *)
(* and with a setting inside the Match block only.                         *)
L(key, v) == [key |-> key, v |-> v, off |-> FALSE]
Commented(key, v) == [key |-> key, v |-> v, off |-> TRUE]
ThreeMains ==
  {<<L("include", "*.conf"), Commented("port", "22"), Commented("pass", "yes")>>,
   <<L("port", "22"), L("pass", "yes"), L("port", "2200"), L("match", "all"), Commented("pass", "no")>>,
   <<L("pass", "yes"), L("match", "all"), L("pass", "no")>>}

(* None, one that sets the port, and one with a commented port in a Match  *)
(* block.                                                                  *)
ThreeDropIns ==
  {<<>>, <<L("port", "2200"), L("pass", "yes")>>,
   <<L("match", "all"), Commented("port", "22")>>}
ThreePorts == {"22", "2200", "2222"}
Request(port, pass, validate, restart) ==
  [port |-> port, pass |-> pass, validate |-> validate, restart |-> restart]
ThreeRequests ==
  {Request("2222", NotSet, TRUE, TRUE), Request("22", "no", FALSE, TRUE),
   Request(NotSet, "no", TRUE, FALSE)}

(* Two directories with a file of the same name; one of them is blocked,   *)
(* and the other may be a link to it or to its directory.                  *)
InDirectory == ("tmp/x" :> "tmp") @@ ("etc/x" :> "etc")
LastElement ==
  ("tmp/x" :> "x") @@ ("etc/x" :> "x") @@ ("tmp" :> "tmp") @@ ("etc" :> "etc")
LinkedTo == {<<"tmp", "etc">>, <<"tmp", "etc/x">>}
NoFiles == [r \in Roots |-> Tree([n \in Names |-> File({}, FirstMode)])]

(* The parts that are not chosen stay as they are.  A user may have no     *)
(* authorized_keys yet, and it is the hosts with a drop-in that start sshd *)
(* from a socket. A drop-in that no Include reads stands beside a main     *)
(* file with a port only.                                                  *)
HostInit ==
  /\ part \in {"vault", "start", "keys", "sshd", "collector", "undo", "janitor"}
  /\ Init /\ EnInit /\ CollectorInit /\ AIInit
  /\ part # "undo" => entry = NoFiles
  /\ AKInit
  /\ akFile \in [Users -> IF part = "keys" THEN {Keys, NoFile} ELSE {NoFile}]
  /\ \/ /\ part = "sshd" /\ SDInit /\ (sdSocket.installed <=> sdFile["drop"] # <<>>)
        /\ \/ sdFile["drop"] = <<>> \/ Included(sdFile["main"])
           \/ Has(sdFile["main"], "port") /\ Active(sdFile["drop"], "match") = {}
     \/ /\ part # "sshd"
        /\ sdFile = <<>> /\ sdSocket = <<>> /\ sdDaemon = <<>> /\ sdBackup = <<>>
        /\ sdCall = [c \in SDCalls |-> NoSDCall] /\ sdNow = 0 /\ sdFaults = 0

(* The janitor and the clock run beside the backups and writes of one path,*)
(* and otherwise not.                                                      *)
UndoNext == AINext /\ aiClock' = aiClock /\ ~cycle'.on
JanitorNext ==
  /\ AINext
  /\ entry' # entry => call' # call
  /\ \A c \in Calls :
       call'[c].path \in {Nowhere, "tmp/x"} /\ call'[c].does \in {"backup", "write"}

HostNext ==
  \/ part = "vault" /\ Next /\ UNCHANGED <<part, enVars, akVars, sdVars, meVars, aiVars>>
  \/ part = "start" /\ EnNext /\ UNCHANGED <<part, vars, akVars, sdVars, meVars, aiVars>>
  \/ part = "keys" /\ AKNext /\ UNCHANGED <<part, vars, enVars, sdVars, meVars, aiVars>>
  \/ part = "sshd" /\ SDNext /\ UNCHANGED <<part, vars, enVars, akVars, meVars, aiVars>>
  \/ part = "collector" /\ CollectorNext
       /\ UNCHANGED <<part, vars, enVars, akVars, sdVars, aiVars>>
  \/ part = "undo" /\ UndoNext /\ UNCHANGED <<part, vars, enVars, akVars, sdVars, meVars>>
  \/ part = "janitor" /\ JanitorNext
       /\ UNCHANGED <<part, vars, enVars, akVars, sdVars, meVars>>

allVars == <<part, vars, enVars, akVars, sdVars, meVars, aiVars>>
HostSpec == HostInit /\ [][HostNext]_allVars

(* Calls are model values of one set, two of which are interchangeable in  *)
(* every part.                                                             *)
Symmetry == Permutations(SDCalls) \cup Permutations(Invocations)
=============================================================================
