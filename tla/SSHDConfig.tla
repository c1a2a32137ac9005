------------------------------ MODULE SSHDConfig ------------------------------
(***************************************************************************)
(* update_config (internal/ssh/sshd_config.go, handler.go): the panel's    *)
(* settings go into sshd_config, the port also into the included files and *)
(* into ssh.socket; then the configuration is validated, and sshd          *)
(* restarted.  Commands run in goroutines of their own.                    *)
(*                                                                         *)
(* A file is a sequence of the lines that matter; off is a line that is    *)
(* commented out.  "pass" stands for the three settings that are yes or    *)
(* no.  One file lies in sshd_config.d.  What sshd makes of the files is   *)
(* external: of a setting its first line counts, every Port is listened    *)
(* on, what follows Match holds for some users only, to the end of its     *)
(* file, and a Port there is an error.                                     *)
(***************************************************************************)
EXTENDS Naturals, Sequences

CONSTANTS
  SDCalls,      \* update_config commands
  Ports,
  Requests,     \* what the panel asks for: port, pass, validate, restart
  NotSet,       \* a setting that a request leaves alone
  NoBackup,     \* no such backup
  Down,         \* sshd does not run
  Mains,        \* what sshd_config may hold at first
  DropIns,      \* what the file in sshd_config.d may hold at first
  SDLastSecond, \* bound: the clock's last value
  SDMaxFaults   \* bound: system calls that fail, and restarts of the agent

SDValues == Ports \cup {"yes", "no", "all", "*.conf"}
Line(key, v) == [key |-> key, v |-> v, off |-> FALSE]
Off(key, v) == [key |-> key, v |-> v, off |-> TRUE]
SDLines == [key : {"port", "pass", "match", "include"}, v : SDValues, off : BOOLEAN]

ASSUME SSHDConfigAssumption ==
  /\ Mains \subseteq Seq(SDLines) /\ DropIns \subseteq Seq(SDLines)
  /\ Requests # {}
  /\ Requests \subseteq [port : Ports \cup {NotSet}, pass : {"yes", "no", NotSet},
                         validate : BOOLEAN, restart : BOOLEAN]
  /\ NotSet \notin Ports \cup {"yes", "no"}
  /\ SDLastSecond \in Nat \ {0} /\ SDMaxFaults \in Nat

VARIABLES
  sdFile,   \* sdFile[f]: the lines of file f
  sdSocket, \* is ssh.socket installed, and the port that it has been given
  sdDaemon, \* the lines that sshd runs with, or Down
  sdBackup, \* sdBackup[s]: the backup of sshd_config named after second s
  sdCall,   \* sdCall[c]: where call c is, and what it has found out
  sdNow, sdFaults

sdVars == <<sdFile, sdSocket, sdDaemon, sdBackup, sdCall, sdNow, sdFaults>>
onHost == <<sdFile, sdSocket, sdDaemon>>

Active(lines, key) == {i \in DOMAIN lines : lines[i].key = key /\ ~lines[i].off}
Global(lines) == {i \in DOMAIN lines : \A j \in Active(lines, "match") : i < j}

(* The lines in the order in which sshd reads them, and which of them hold *)
(* for every user.                                                         *)
Scoped(lines, within) ==
  [i \in DOMAIN lines |->
     [key |-> lines[i].key, v |-> lines[i].v, off |-> lines[i].off,
      global |-> within /\ i \in Global(lines)]]

Expand(main, drop) ==
  LET at == Active(main, "include")
      all == Scoped(main, TRUE)
  IN IF at = {} THEN all
     ELSE LET i == CHOOSE i \in at : TRUE
          IN SubSeq(all, 1, i - 1) \o Scoped(drop, all[i].global)
               \o SubSeq(all, i + 1, Len(all))

InForce(config, key) == {i \in Active(config, key) : config[i].global}
Valid(config) == Active(config, "port") \subseteq InForce(config, "port")
PortsOf(config) ==
  LET set == InForce(config, "port")
  IN IF set = {} THEN {"22"} ELSE {config[i].v : i \in set}
PassOf(config) ==
  LET set == InForce(config, "pass")
  IN IF set = {} THEN "yes" ELSE config[CHOOSE i \in set : \A j \in set : i <= j].v

ConfigOf(files) == Expand(files["main"], files["drop"])
Config == ConfigOf(sdFile)

NoSDCall ==
  [pc |-> "idle", stage |-> "none", req |-> CHOOSE r \in Requests : TRUE, new |-> <<>>,
   saved |-> 0, alone |-> TRUE, before |-> <<>>, result |-> "none"]

SDInit ==
  /\ sdFile \in [{"main", "drop"} -> Mains \cup DropIns]
  /\ sdFile["main"] \in Mains /\ sdFile["drop"] \in DropIns
  /\ sdSocket \in [installed : BOOLEAN, port : {NotSet}]
  /\ sdDaemon = IF Valid(Config) THEN Config ELSE Down
  /\ sdBackup = [s \in 1 .. SDLastSecond |-> NoBackup]
  /\ sdCall = [c \in SDCalls |-> NoSDCall]
  /\ sdNow = 1 /\ sdFaults = 0

Stage(c, s) == sdCall[c].pc = "next" /\ sdCall[c].stage = s
Updating(c) == sdCall[c].pc \notin {"idle", "ended"}
Req(c) == sdCall[c].req
FileOf(c) == IF sdCall[c].stage \in {"main", "restore"} THEN "main" ELSE "drop"
SDGoto(c, s) == sdCall' = [sdCall EXCEPT ![c].pc = "next", ![c].stage = s]
SDEnd(c, how) ==
  sdCall' = [sdCall EXCEPT ![c] = [NoSDCall EXCEPT !.pc = "ended", !.req = Req(c),
    !.result = how]]

(* The stage after the one that is done. *)
NextStage(c) ==
  CASE sdCall[c].stage = "main" -> IF Req(c).port = NotSet THEN "validate" ELSE "included"
    [] sdCall[c].stage = "included" -> "dir"
    [] sdCall[c].stage = "dir" -> "socket"

(* Commands that overlap disturb each other. *)
Begin(c, r) ==
  LET others == {d \in SDCalls : Updating(d)}
  IN /\ sdCall[c].pc = "idle"
     /\ sdCall' = [d \in SDCalls |->
          IF d = c THEN [NoSDCall EXCEPT !.pc = "next", !.stage = "backup", !.req = r,
                           !.alone = others = {}, !.before = sdFile]
          ELSE [sdCall[d] EXCEPT !.alone = @ /\ d \notin others]]
     /\ UNCHANGED <<onHost, sdBackup, sdNow, sdFaults>>

(* createBackup *)
SaveMain(c) ==
  /\ Stage(c, "backup")
  /\ sdBackup' = [sdBackup EXCEPT ![sdNow] = sdFile["main"]]
  /\ sdCall' = [sdCall EXCEPT ![c].stage = "main", ![c].saved = sdNow]
  /\ UNCHANGED <<onHost, sdNow, sdFaults>>

(* Lines that are commented out are settings as well.                      *)
SetAll(lines, key, v) ==
  [i \in DOMAIN lines |-> IF lines[i].key = key THEN Line(key, v) ELSE lines[i]]
Has(lines, key) == \E i \in DOMAIN lines : lines[i].key = key

Updated(lines, key, v) ==
  IF v = NotSet THEN lines
  ELSE IF Has(lines, key) THEN SetAll(lines, key, v) ELSE Append(lines, Line(key, v))

NewMain(lines, r) == Updated(Updated(lines, "port", r.port), "pass", r.pass)

(* UpdateConfig reads the main file.                                       *)
ReadMain(c) ==
  /\ Stage(c, "main")
  /\ sdCall' = [sdCall EXCEPT ![c].pc = "open", ![c].new = NewMain(sdFile["main"], Req(c))]
  /\ UNCHANGED <<onHost, sdBackup, sdNow, sdFaults>>

(* getIncludePatterns *)
Included(main) == Active(main, "include") # {}

(* updatePortInIncludedFiles looks for an Include in the main file as it   *)
(* is now; updatePortInDefaultIncludeDir takes sshd_config.d in any case.  *)
ReadDropIn(c) ==
  /\ Stage(c, "included") \/ Stage(c, "dir")
  /\ IF \/ Stage(c, "included") /\ ~Included(sdFile["main"])
        \/ ~Has(sdFile["drop"], "port")
     THEN SDGoto(c, NextStage(c))
     ELSE sdCall' = [sdCall EXCEPT ![c].pc = "open",
            ![c].new = SetAll(sdFile["drop"], "port", Req(c).port)]
  /\ UNCHANGED <<onHost, sdBackup, sdNow, sdFaults>>

OpenConfig(c) ==
  /\ sdCall[c].pc = "open"
  /\ sdFile' = [sdFile EXCEPT ![FileOf(c)] = <<>>]
  /\ sdCall' = [sdCall EXCEPT ![c].pc = "write"]
  /\ UNCHANGED <<sdSocket, sdDaemon, sdBackup, sdNow, sdFaults>>

(* Past the end lies what another command has written meanwhile.           *)
WriteConfig(c) ==
  LET new == sdCall[c].new
      old == sdFile[FileOf(c)]
  IN /\ sdCall[c].pc = "write"
     /\ sdFile' = [sdFile EXCEPT ![FileOf(c)] = new \o SubSeq(old, Len(new) + 1, Len(old))]
     /\ IF sdCall[c].stage = "restore" THEN SDEnd(c, "invalid") ELSE SDGoto(c, NextStage(c))
     /\ UNCHANGED <<sdSocket, sdDaemon, sdBackup, sdNow, sdFaults>>

(* External: systemctl restart. *)
Restarted == IF Valid(Config) THEN Config ELSE Down

(* updateSystemdSocketPort: sshd is restarted with it.                     *)
SetSocket(c) ==
  /\ Stage(c, "socket")
  /\ IF sdSocket.installed
     THEN sdSocket' = [sdSocket EXCEPT !.port = Req(c).port] /\ sdDaemon' = Restarted
     ELSE UNCHANGED <<sdSocket, sdDaemon>>
  /\ SDGoto(c, "validate")
  /\ UNCHANGED <<sdFile, sdBackup, sdNow, sdFaults>>

(* Mutant: what is restored is the file as it is. *)
ToRestoreNow(c) == sdFile["main"]

ToRestore(c) == sdBackup[sdCall[c].saved]

(* sshd -t; RestoreBackup takes the main file's backup.                    *)
Validate(c) ==
  /\ Stage(c, "validate")
  /\ IF ~Req(c).validate \/ Valid(Config) THEN SDGoto(c, "restart")
     ELSE sdCall' = [sdCall EXCEPT ![c].pc = "open", ![c].stage = "restore",
                                   ![c].new = ToRestore(c)]
  /\ UNCHANGED <<onHost, sdBackup, sdNow, sdFaults>>

(* RestartSSHD *)
RestartSSHD(c) ==
  /\ Stage(c, "restart")
  /\ IF ~Req(c).restart THEN SDEnd(c, "success") /\ UNCHANGED sdDaemon
     ELSE /\ sdDaemon' = Restarted
          /\ IF Restarted = Down THEN SDEnd(c, "failed") ELSE SDGoto(c, "verify")
  /\ UNCHANGED <<sdFile, sdSocket, sdBackup, sdNow, sdFaults>>

(* GetEffectivePorts: sshd -T reads the files.                             *)
Verify(c) ==
  /\ Stage(c, "verify")
  /\ SDEnd(c, IF Req(c).port = NotSet \/ (Valid(Config) /\ PortsOf(Config) = {Req(c).port})
              THEN "success" ELSE "failed")
  /\ UNCHANGED <<onHost, sdBackup, sdNow, sdFaults>>

(* A system call fails, or sshd -t does for another reason. *)
SDFail(c) ==
  /\ Updating(c) /\ sdFaults < SDMaxFaults /\ sdFaults' = sdFaults + 1
  /\ IF Stage(c, "validate") /\ Req(c).validate
     THEN sdCall' = [sdCall EXCEPT ![c].pc = "open", ![c].stage = "restore",
                                   ![c].new = ToRestore(c)]
     ELSE SDEnd(c, "failed")
  /\ UNCHANGED <<onHost, sdBackup, sdNow>>

SDCrash ==
  /\ sdFaults < SDMaxFaults /\ sdFaults' = sdFaults + 1
  /\ \E c \in SDCalls : Updating(c)
  /\ sdCall' = [c \in SDCalls |->
       IF Updating(c) THEN [NoSDCall EXCEPT !.pc = "ended", !.req = Req(c), !.result = "failed"]
       ELSE sdCall[c]]
  /\ UNCHANGED <<onHost, sdBackup, sdNow>>

SDTick ==
  /\ sdNow < SDLastSecond /\ sdNow' = sdNow + 1
  /\ UNCHANGED <<onHost, sdBackup, sdCall, sdFaults>>

SDNext ==
  \/ \E c \in SDCalls :
       \/ \E r \in Requests : Begin(c, r)
       \/ SaveMain(c) \/ ReadMain(c) \/ ReadDropIn(c) \/ OpenConfig(c) \/ WriteConfig(c)
       \/ SetSocket(c) \/ Validate(c) \/ RestartSSHD(c) \/ Verify(c) \/ SDFail(c)
  \/ SDCrash \/ SDTick

SDSpec == SDInit /\ [][SDNext]_sdVars

-----------------------------------------------------------------------------
SDFiles == [{"main", "drop"} -> Seq(SDLines)]
ConfigLines ==
  [key : {"port", "pass", "match", "include"}, v : SDValues, off : BOOLEAN, global : BOOLEAN]

SDTypeOK ==
  /\ sdFile \in SDFiles
  /\ sdSocket \in [installed : BOOLEAN, port : {NotSet} \cup Ports]
  /\ sdDaemon = Down \/ sdDaemon \in Seq(ConfigLines)
  /\ \A s \in 1 .. SDLastSecond : sdBackup[s] = NoBackup \/ sdBackup[s] \in Seq(SDLines)
  /\ \A c \in SDCalls :
       /\ sdCall[c].pc \in {"idle", "next", "open", "write", "ended"}
       /\ sdCall[c].result \in {"none", "success", "invalid", "failed"}
       /\ Req(c) \in Requests /\ sdCall[c].new \in Seq(SDLines)
  /\ sdNow \in 1 .. SDLastSecond /\ sdFaults \in 0 .. SDMaxFaults

(* Call c, undisturbed, ends in this step, and not because of a failure.   *)
EndsAlone(c) ==
  /\ Updating(c) /\ sdCall[c].alone /\ sdCall'[c].pc = "ended" /\ sdFaults' = sdFaults

PortsGlobal(config) == \A i \in DOMAIN config : config[i].key = "port" => config[i].global

(* An update that asks for validation and that nothing disturbs leaves a   *)
(* configuration that sshd takes.  When the validation has failed,         *)
(* sshd_config is again what it was, also when another backup got the same *)
(* name before; what is left of the update in the drop-in is no harm,      *)
(* unless a Port of the files, even one that is commented out, stands in a *)
(* Match block.                                                            *)
ValidatedUpdateSafe ==
  [][\A c \in SDCalls : EndsAlone(c) /\ Req(c).validate =>
       IF sdCall'[c].result = "invalid"
       THEN /\ sdFile'["main"] = sdCall[c].before["main"]
            /\ PortsGlobal(ConfigOf(sdCall[c].before)) => Valid(Config')
       ELSE Valid(Config')]_sdVars

(* sshd_config decides on pass: the included file leaves it alone, and the *)
(* place that the update gives it comes before any Match.                  *)
Decides(files) ==
  LET main == files["main"]
      lines == {i \in DOMAIN main : main[i].key = "pass"}
  IN /\ Active(files["drop"], "pass") = {}
     /\ IF lines = {} THEN Active(main, "match") = {} ELSE lines \cap Global(main) # {}

(* After an undisturbed update that reports success sshd listens on the    *)
(* new port alone, whatever the lines were before and wherever they came   *)
(* from, and the other settings hold where sshd_config decides on them;    *)
(* sshd runs with it when a restart was asked for.                         *)
SuccessIsEffective ==
  [][\A c \in SDCalls :
       EndsAlone(c) /\ sdCall'[c].result = "success" /\ Valid(Config') =>
         /\ Req(c).port # NotSet => PortsOf(Config') = {Req(c).port}
         /\ Req(c).pass # NotSet /\ Decides(sdCall[c].before) =>
              PassOf(Config') = Req(c).pass
         /\ Req(c).restart => sdDaemon' = Config']_sdVars

UpdatesSound == ValidatedUpdateSafe /\ SuccessIsEffective

(* handler.go:108: a failed validation restores the backup. *)
FailedValidationRestores ==
  [][\A c \in SDCalls :
       EndsAlone(c) /\ sdCall'[c].result = "invalid" =>
         sdFile' = sdCall[c].before /\ (Valid(Config') => sdDaemon' # Down)]_sdVars
=============================================================================
