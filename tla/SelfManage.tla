------------------------------ MODULE SelfManage ------------------------------
(***************************************************************************)
(* The agent as a service of its host: the scripts that install, upgrade   *)
(* and remove it, run by an operator (modes of scripts/install.sh) or,     *)
(* through the sentinels, by the agent itself.                             *)
(*                                                                         *)
(* systemd is external.  A process that the agent starts is in the cgroup  *)
(* of its service, and the unit sets no KillMode: `systemctl stop` ends    *)
(* every process of that cgroup.  A transient unit of systemd-run has a    *)
(* cgroup of its own.                                                      *)
(***************************************************************************)
EXTENDS Integers, Sequences

CONSTANTS
  Jobs,      \* runs of a script
  MaxErrors  \* bound: commands of the scripts that fail

ASSUME ScriptsAssumption == MaxErrors \in Nat

VARIABLES
  service,   \* "stopped", "failing" (its binary does not start), or what runs
  enabled,   \* it starts at boot
  files,     \* those of the agent that are there: "unit", "config", "log"
  binary,    \* what is at /usr/local/bin/cloudnan-agent
  fetched,   \* what is at the two paths that downloads go to
  finisher,  \* the transient unit cloudnan-upgrade: "none" or its next step
  job,       \* job -> [kind, step]
  alone,     \* history: the last job, if nothing disturbed it
  errors
scriptVars == <<service, enabled, files, binary, fetched, finisher, job, alone, errors>>

ByOperator == {"install", "upgrade", "remove"}
ByAgent == {"update", "uninstall"}
Versions == {"old", "new"}
Binaries == Versions \cup {"none", "part", "page"}  \* half a file, an error page

(* The steps of a script and those of the unit that ends an upgrade.       *)
Upgrade == <<"check", "fetch", "fetched", "script", "run">>
ScriptSteps ==
  [install |-> <<"fetch", "fetched", "move", "config", "unit", "enable", "start">>,
   upgrade |-> Upgrade, update |-> <<"get">> \o Upgrade,
   remove |-> <<"stop", "disable", "unlink", "rmbinary", "rmconfig", "rmlog">>,
   uninstall |-> <<"stop", "disable", "unlink", "rmbinary", "rmconfig">>]
FinisherSteps == <<"stop", "copy", "clean", "start">>
Over == {"idle", "ended", "failed", "killed"}

(* An agent of an older version runs, or nothing is installed. *)
ScriptsInit ==
  /\ \/ /\ service = "old" /\ binary = "old"
        /\ enabled = TRUE /\ files = {"unit", "config", "log"}
     \/ /\ service = "stopped" /\ binary = "none"
        /\ enabled = FALSE /\ files = {}
  /\ fetched = [install |-> "none", upgrade |-> "none"] /\ finisher = "none"
  /\ job = [j \in Jobs |-> [kind |-> "install", step |-> "idle"]]
  /\ alone = {} /\ errors = 0

Active(j) == job[j].step \notin Over
StepAfter(steps, step) ==
  LET n == CHOOSE n \in DOMAIN steps : steps[n] = step
  IN  IF n = Len(steps) THEN "ended" ELSE steps[n + 1]
Goes(j, step) == job' = [job EXCEPT ![j].step = step]
Advances(j) == Goes(j, StepAfter(ScriptSteps[job[j].kind], job[j].step))
At(j, step) == job[j].step = step

(* An operator runs one script at a time. *)
Begin(j, kind) ==
  /\ At(j, "idle")
  /\ IF kind \in ByAgent THEN service \in Versions
     ELSE \A k \in Jobs : Active(k) => job[k].kind \in ByAgent
  /\ job' = [job EXCEPT ![j] = [kind |-> kind, step |-> ScriptSteps[kind][1]]]
  /\ alone' = IF finisher = "none" /\ \A k \in Jobs : ~Active(k) THEN {j} ELSE {}
  /\ UNCHANGED <<service, enabled, files, binary, fetched, finisher, errors>>

(* With the agent go the scripts that it started, the caller's too.        *)
Killed == [k \in Jobs |->
             IF Active(k) /\ job[k].kind \in ByAgent
               THEN [job[k] EXCEPT !.step = "killed"] ELSE job[k]]

(* A service that runs goes on with what it has. *)
StartService ==
  service' = IF service \in Versions \/ "unit" \notin files THEN service
             ELSE IF binary \in Versions THEN binary ELSE "failing"

-----------------------------------------------------------------------------
(* Downloads.  One writes over what is at its path, and two of them write  *)
(* the same file.                                                          *)

Path(j) == IF job[j].kind = "install" THEN "install" ELSE "upgrade"
Puts(j, content) ==
  /\ fetched' = [fetched EXCEPT ![Path(j)] = content]
  /\ UNCHANGED <<service, enabled, files, binary, finisher>>

Fetch(j) == At(j, "fetch") /\ Advances(j) /\ Puts(j, "part") /\ UNCHANGED <<alone, errors>>

(* chmod of a file that is gone ends the script. *)
Fetched(j) ==
  /\ At(j, "fetched")
  /\ IF fetched[Path(j)] = "none" THEN Goes(j, "failed") /\ Puts(j, "none")
     ELSE /\ Advances(j)
          /\ Puts(j, IF \E k \in Jobs \ {j} : At(k, "fetched") /\ Path(k) = Path(j)
                       THEN "part" ELSE "new")
  /\ UNCHANGED <<alone, errors>>

(* Without -f the page of an error is a download like any other.           *)
FetchesPage(j) == At(j, "fetched") /\ Advances(j) /\ Puts(j, "page")

-----------------------------------------------------------------------------
(* install.sh: install *)

Move(j) ==
  /\ At(j, "move") /\ Advances(j)
  /\ binary' = fetched["install"] /\ fetched' = [fetched EXCEPT !["install"] = "none"]
  /\ UNCHANGED <<service, enabled, files, finisher, alone, errors>>

WriteFile(j, f) ==
  /\ At(j, f) /\ Advances(j)
  /\ files' = files \cup {f}
  /\ UNCHANGED <<service, enabled, binary, fetched, finisher, alone, errors>>

Enable(j) ==
  /\ At(j, "enable")
  /\ IF "unit" \in files THEN Advances(j) /\ enabled' = TRUE
                         ELSE Goes(j, "failed") /\ UNCHANGED enabled
  /\ UNCHANGED <<service, files, binary, fetched, finisher, alone, errors>>

StartUp(j) ==
  /\ At(j, "start") /\ Advances(j) /\ StartService
  /\ files' = IF "unit" \in files THEN files \cup {"log"} ELSE files
  /\ UNCHANGED <<enabled, binary, fetched, finisher, alone, errors>>

-----------------------------------------------------------------------------
(* install.sh --upgrade, and runSelfUpdate, which gets install.sh first *)

GetScript(j) ==
  /\ At(j, "get") /\ Advances(j)
  /\ UNCHANGED <<service, enabled, files, binary, fetched, finisher, alone, errors>>

Check(j) ==
  /\ At(j, "check")
  /\ IF binary = "none" THEN Goes(j, "failed") ELSE Advances(j)
  /\ UNCHANGED <<service, enabled, files, binary, fetched, finisher, alone, errors>>

WriteScript(j) ==
  /\ At(j, "script") /\ Advances(j)
  /\ UNCHANGED <<service, enabled, files, binary, fetched, finisher, alone, errors>>

(* Mutant: what ends the upgrade is a child of its script; in an update it *)
(* is killed by its own stop.                                              *)
RunAsChild(j) ==
  /\ At(j, "run") /\ finisher = "none" /\ Advances(j)
  /\ finisher' = IF job[j].kind = "update" THEN "none" ELSE FinisherSteps[1]
  /\ service' = IF job[j].kind = "update" THEN "stopped" ELSE service
  /\ UNCHANGED <<enabled, files, binary, fetched, alone, errors>>

(* systemd-run: there must not be a unit of that name. *)
Run(j) ==
  /\ At(j, "run")
  /\ IF finisher = "none" THEN finisher' = FinisherSteps[1] /\ Advances(j)
                          ELSE Goes(j, "failed") /\ UNCHANGED finisher
  /\ UNCHANGED <<service, enabled, files, binary, fetched, alone, errors>>

(* The unit goes on whether a command of it fails or not. *)
FinisherAt(step) ==
  /\ finisher = step
  /\ LET next == StepAfter(FinisherSteps, step)
     IN  finisher' = IF next = "ended" THEN "none" ELSE next

FinisherStops ==
  /\ FinisherAt("stop") /\ service' = "stopped" /\ job' = Killed
  /\ UNCHANGED <<enabled, files, binary, fetched, alone, errors>>

FinisherCopies ==
  /\ FinisherAt("copy")
  /\ \/ /\ binary' = IF fetched["upgrade"] = "none" THEN binary ELSE fetched["upgrade"]
        /\ UNCHANGED <<alone, errors>>
     \/ /\ errors < MaxErrors /\ errors' = errors + 1 /\ alone' = {}
        /\ binary' = "part"
  /\ UNCHANGED <<service, enabled, files, fetched, job>>

FinisherCleans ==
  /\ FinisherAt("clean") /\ fetched' = [fetched EXCEPT !["upgrade"] = "none"]
  /\ UNCHANGED <<service, enabled, files, binary, job, alone, errors>>

FinisherStarts ==
  /\ FinisherAt("start") /\ StartService
  /\ UNCHANGED <<enabled, files, binary, fetched, job, alone, errors>>

-----------------------------------------------------------------------------
(* install.sh --uninstall, and runSelfUninstall *)

Stop(j) ==
  /\ At(j, "stop") /\ service' = "stopped"
  /\ job' = IF job[j].kind \in ByAgent THEN Killed
            ELSE [Killed EXCEPT ![j].step = StepAfter(ScriptSteps["remove"], "stop")]
  /\ UNCHANGED <<enabled, files, binary, fetched, finisher, alone, errors>>

Disable(j) ==
  /\ At(j, "disable") /\ Advances(j) /\ enabled' = FALSE
  /\ UNCHANGED <<service, files, binary, fetched, finisher, alone, errors>>

Removes(j, step, f) ==
  /\ At(j, step) /\ Advances(j) /\ files' = files \ {f}
  /\ UNCHANGED <<service, enabled, binary, fetched, finisher, alone, errors>>

RemoveBinary(j) ==
  /\ At(j, "rmbinary") /\ Advances(j) /\ binary' = "none"
  /\ UNCHANGED <<service, enabled, files, fetched, finisher, alone, errors>>

-----------------------------------------------------------------------------
(* A command of a script fails: `set -e` ends install.sh.  An install.sh   *)
(* that was not got is an empty script, which succeeds; and a command of   *)
(* runSelfUninstall that fails does not keep the next one from running.    *)
Errs(j) ==
  /\ Active(j) /\ errors < MaxErrors /\ errors' = errors + 1 /\ alone' = {}
  /\ \/ /\ At(j, "get") /\ Goes(j, "ended")
        /\ UNCHANGED <<service, enabled, files, binary, fetched, finisher>>
     \/ /\ ~At(j, "get") /\ job[j].kind # "uninstall" /\ Goes(j, "failed")
        /\ UNCHANGED <<service, enabled, files, binary, fetched, finisher>>
     \/ /\ job[j].kind = "uninstall" /\ Advances(j)
        /\ UNCHANGED <<service, enabled, files, binary, fetched, finisher>>
     \/ FetchesPage(j)

ScriptsNext ==
  \/ FinisherStops \/ FinisherCopies \/ FinisherCleans \/ FinisherStarts
  \/ \E j \in Jobs :
       \/ \E kind \in ByOperator \cup ByAgent : Begin(j, kind)
       \/ Fetch(j) \/ Fetched(j) \/ Errs(j)
       \/ Move(j) \/ WriteFile(j, "config") \/ WriteFile(j, "unit") \/ Enable(j) \/ StartUp(j)
       \/ GetScript(j) \/ Check(j) \/ WriteScript(j) \/ Run(j)
       \/ Stop(j) \/ Disable(j) \/ RemoveBinary(j)
       \/ Removes(j, "unlink", "unit") \/ Removes(j, "rmconfig", "config")
       \/ Removes(j, "rmlog", "log")

ScriptsSpec == ScriptsInit /\ [][ScriptsNext]_scriptVars

-----------------------------------------------------------------------------
ScriptsTypeOK ==
  /\ service \in Versions \cup {"stopped", "failing"} /\ enabled \in BOOLEAN
  /\ files \subseteq {"unit", "config", "log"} /\ binary \in Binaries
  /\ fetched \in [{"install", "upgrade"} -> Binaries]
  /\ finisher \in {"none"} \cup {FinisherSteps[n] : n \in DOMAIN FinisherSteps}
  /\ alone \subseteq Jobs /\ errors \in 0..MaxErrors

(* Nothing of the agent is left. *)
Gone == service = "stopped" /\ ~enabled /\ binary = "none" /\ files \cap {"unit", "config"} = {}

(* A script that nothing disturbs does what install.sh says of its mode:   *)
(* an upgrade leaves the new version running, though it stops the service  *)
(* that it may have been started by; a removal leaves nothing.             *)
ScriptsWork ==
  /\ ScriptsTypeOK
  /\ \A j \in alone : At(j, "ended") /\ finisher = "none" =>
       CASE job[j].kind = "install" ->
              enabled /\ {"unit", "config"} \subseteq files /\ binary = "new" /\ service \in Versions
         [] job[j].kind \in {"upgrade", "update"} ->
              binary = "new" /\ ("unit" \in files => service = "new")
         [] OTHER -> Gone /\ files = {}

(* "runSelfUninstall stops the agent service, disables it from boot,       *)
(* removes the binary + systemd unit + config" (agent.go).                 *)
UninstallRemoves ==
  \A j \in alone : job[j].kind = "uninstall" /\ ~Active(j) => Gone
=============================================================================
