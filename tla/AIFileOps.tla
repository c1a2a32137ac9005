----------------------------- MODULE AIFileOps ------------------------------
(***************************************************************************)
(* The file operations of an AI assistant (internal/filesystem/aiops.go):  *)
(* each keeps a backup of what it is about to change, under the name of    *)
(* its invocation, and returns the shell command that brings it back.      *)
(* Beside them run the file browser's operations (manager.go), which keep  *)
(* nothing, and the janitor that evicts backups (janitor.go).              *)
(*                                                                         *)
(* Commands run in goroutines of their own.  The file system is a tree of  *)
(* two levels: a root is a file, a link, or a directory of files.  What a  *)
(* file holds is the set of the writers whose text is in it: a write       *)
(* leaves its own, an edit adds its own to what it has read.  A backup     *)
(* file has size 1, and MaxAge is in ticks of the clock.  Of a call, was   *)
(* is what its backup took; before, what it then replaced, and lost, that  *)
(* the end of its archive was not written, are history values.             *)
(***************************************************************************)
EXTENDS Naturals, FiniteSets

CONSTANTS
  Calls,       \* ai_backup, ai_write, ai_edit and ai_delete commands
  Invocations, \* what the panel names them by
  Roots,       \* absolute paths that may be directories
  Files,       \* paths in them
  Dir,         \* Dir[f]: the directory of path f
  Base,        \* Base[p]: the last element of path p
  Links,       \* bound: where a root may be a link, and to what
  Named,       \* bound: the paths that the assistant's commands name
  Nowhere,     \* no path
  Blocked,     \* paths of the blocklist
  FirstMode,   \* the mode of the files that are there at first
  Browser,     \* the text that the file browser writes
  LastTick,    \* bound: the clock's last value
  MaxAge,      \* MaxBackupAge
  Cap,         \* MaxBackupTotalBytes
  MaxEvents    \* bound: operations of the file browser, system calls that
               \* fail and restarts of the agent

Paths == Roots \cup Files
Names == {Base[f] : f \in Files}
Texts == SUBSET (Calls \cup {Browser})
Modes == {"0644", "0600", "0755", "0777", "4755"}

(* FileMode.Perm: the permission bits without setuid, setgid and sticky.   *)
Perm(mode) == IF mode = "4755" THEN "0755" ELSE mode

File(text, mode) == [kind |-> "file", text |-> text, mode |-> mode]
NoEntry == [kind |-> "absent", text |-> {}, mode |-> "0644"]
Link(p) == [kind |-> "link", to |-> p, mode |-> "0777"]
Tree(holds) == [kind |-> "dir", holds |-> holds, mode |-> "0755"]
Leaves == {NoEntry} \cup {File(t, m) : t \in Texts, m \in Modes}
EmptyTree == Tree([n \in Names |-> NoEntry])
Entries == Leaves \cup {Link(p) : p \in Paths} \cup {Tree(h) : h \in [Names -> Leaves]}

(* A backup file that was opened, and not written to its end.              *)
CutArchive == [kind |-> "dir"]
Torn(kind) == IF kind = "file" THEN File({}, "0644") ELSE CutArchive

Slots == Invocations \X {Base[p] : p \in Paths} \X {"file", "dir"}

ASSUME AIFileOpsAssumption ==
  /\ Named \subseteq Paths /\ Blocked \subseteq Files /\ Nowhere \notin Paths
  /\ Roots \cap Files = {} /\ Links \subseteq Roots \X Paths
  /\ Dir \in [Files -> Roots] /\ DOMAIN Base = Paths
  /\ \A r \in Roots, n \in Names : \E f \in Files : Dir[f] = r /\ Base[f] = n
  /\ \A f, g \in Files : Dir[f] = Dir[g] /\ Base[f] = Base[g] => f = g
  /\ IsFiniteSet(Slots) /\ FirstMode \in Modes
  /\ LastTick \in Nat \ {0} /\ MaxAge \in Nat /\ Cap \in Nat /\ MaxEvents \in Nat

VARIABLES
  entry,    \* entry[r]: what is at root r
  backup,   \* backup[s]: what backup file s holds, or NoEntry
  touched,  \* touched[i]: when i's directory last got a new name; 0: no directory
  call,     \* call[c]: where call c is, and what it has found out
  cycle,    \* what the running janitor cycle has seen
  aiClock,
  events    \* how many such events there were

files == <<entry, backup, touched>>
aiVars == <<files, call, cycle, aiClock, events>>

NoCycle == [on |-> FALSE, now |-> 0, todo |-> {}, doomed |-> {}, keep |-> {}, total |-> 0,
            raced |-> FALSE]
NoCall ==
  [pc |-> "idle", does |-> "backup", inv |-> Nowhere, path |-> Nowhere,
   isDir |-> FALSE, read |-> {}, was |-> NoEntry, before |-> NoEntry, lost |-> FALSE]

(* A link leads to what is no link itself, nor below one; the directory of *)
(* a blocked path is there.                                                *)
AIInit ==
  /\ entry \in [Roots -> {NoEntry, File({}, FirstMode)} \cup {Link(p) : p \in Paths}
                         \cup {Tree(h) : h \in [Names -> {NoEntry, File({}, FirstMode)}]}]
  /\ \A r \in Roots : entry[r].kind = "link" =>
       /\ <<r, entry[r].to>> \in Links
       /\ entry[IF entry[r].to \in Files THEN Dir[entry[r].to] ELSE entry[r].to].kind # "link"
  /\ \A f \in Blocked : entry[Dir[f]].kind = "dir"
  /\ backup = [s \in Slots |-> NoEntry]
  /\ touched = [i \in Invocations |-> 0]
  /\ call = [c \in Calls |-> NoCall]
  /\ cycle = NoCycle
  /\ aiClock = 1
  /\ events = 0

At(c, place) == call[c].pc = place
Does(c, what) == call[c].does = what
Fault == events < MaxEvents /\ events' = events + 1

-----------------------------------------------------------------------------
(* The directory that the kernel finds where root r is, through a link.    *)
Real(r) == IF entry[r].kind = "link" /\ entry[r].to \in Roots THEN entry[r].to ELSE r

(* What is at a path, and a path's new entry.                              *)
Holds(r, n) == IF entry[r].kind = "dir" THEN entry[r].holds[n] ELSE NoEntry
Look(p) == IF p \in Roots THEN entry[p] ELSE Holds(Real(Dir[p]), Base[p])
Exists(p) == Look(p).kind # "absent"
CanPlace(p) == p \in Files => entry[Real(Dir[p])].kind = "dir"
Placed(p, e) ==
  IF p \in Roots THEN [entry EXCEPT ![p] = e]
  ELSE [entry EXCEPT ![Real(Dir[p])] = Tree([@.holds EXCEPT ![Base[p]] = e])]

Target(c) == Look(call[c].path)

(* resolveForAI: the path that a link leads to, or the path below what a   *)
(* linked directory leads to, as long as there is something; a broken link *)
(* stands for itself, and so does a path where nothing is.                 *)
Resolve(p) ==
  CASE ~Exists(p) -> p
    [] p \in Files -> CHOOSE f \in Files : Dir[f] = Real(Dir[p]) /\ Base[f] = Base[p]
    [] OTHER -> IF entry[p].kind = "link" /\ Exists(entry[p].to) THEN entry[p].to ELSE p

(* checkBlocked: by the path's name, or that of a directory it is in.      *)
Forbidden(p) == p \in Blocked

(* Mutant: what a link leads to is not looked up in the blocklist. *)
BlockedByName(p) == Forbidden(p)

(* Both the path and what it leads to are checked.                         *)
IsBlocked(p) == Forbidden(p) \/ Forbidden(Resolve(p))

(* The path's directory is a file: EvalSymlinks fails, and not for want of *)
(* an entry.                                                               *)
NoDirectory(p) ==
  /\ p \in Files
  /\ LET d == entry[Real(Dir[p])]
     IN d.kind = "file" \/ (d.kind = "link" /\ Exists(d.to))

EditRefused(p) == Look(Resolve(p)).kind # "file"

DeleteRefused(p, recursive) ==
  Look(Resolve(p)).kind \in {"absent"} \cup IF recursive THEN {} ELSE {"dir"}

(* Only ai_backup and ai_write take a path where there is nothing.         *)
Refused(what, p, recursive) ==
  \/ IsBlocked(p) \/ NoDirectory(p)
  \/ what = "edit" /\ EditRefused(p)
  \/ what = "delete" /\ DeleteRefused(p, recursive)

(* Up to the backup; AIEdit has read the file, and goes on as AIWrite      *)
(* does, with the path that it has found.                                  *)
AIBegin(c, what, i, p, recursive) ==
  LET q == Resolve(p)
  IN /\ At(c, "idle")
     /\ call' = [call EXCEPT ![c] =
          IF what = "write"
          THEN [NoCall EXCEPT !.pc = "open", !.does = what, !.inv = i, !.path = p]
          ELSE IF Refused(what, p, recursive) THEN [NoCall EXCEPT !.pc = "ended"]
          ELSE [NoCall EXCEPT !.pc = IF what = "edit" THEN "open" ELSE "lstat",
                  !.does = what, !.inv = i, !.path = q,
                  !.isDir = what = "delete" /\ Look(q).kind = "dir",
                  !.read = IF what = "edit" THEN Look(q).text ELSE {}]]
     /\ UNCHANGED <<files, cycle, aiClock, events>>

(* AIWrite resolves the path, again for AIEdit, and makes its directory.   *)
OpenWrite(c) ==
  LET p == call[c].path
      q == Resolve(p)
      goes == /\ ~Refused("write", p, FALSE)
              /\ CanPlace(q) \/ entry[Dir[q]].kind = "absent"
  IN /\ At(c, "open")
     /\ entry' = IF goes /\ ~CanPlace(q) THEN [entry EXCEPT ![Dir[q]] = EmptyTree] ELSE entry
     /\ call' = [call EXCEPT ![c] = IF goes THEN [@ EXCEPT !.pc = "lstat", !.path = q]
                                    ELSE [NoCall EXCEPT !.pc = "ended"]]
     /\ UNCHANGED <<backup, touched, cycle, aiClock, events>>

(* What is left of a call: where its backup may be. *)
Over(c) == [NoCall EXCEPT !.pc = "ended", !.inv = call[c].inv, !.path = call[c].path]
End(c) == call' = [call EXCEPT ![c] = Over(c)]

(* What is left of a change: what its recipe puts back, and what it replaced. *)
Done(c) == [Over(c) EXCEPT !.pc = "done", !.was = call[c].was, !.before = Target(c),
                          !.lost = call[c].lost]

(* Mutant: a backup is kept under its base name alone. *)
SlotByName(c, kind) ==
  <<CHOOSE i \in Invocations : TRUE, Base[call[c].path], kind>>

Slot(c, kind) == <<call[c].inv, Base[call[c].path], kind>>

(* A directory is as old as its last new name.                             *)
Touch(i, isNew) ==
  /\ touched' = [touched EXCEPT ![i] = IF isNew \/ @ = 0 THEN aiClock ELSE @]
  /\ cycle' = [cycle EXCEPT !.raced = @ \/ cycle.on]

(* What a BackupInfo can tell of an entry: a file's mode is Mode().Perm(). *)
Saved(e) == IF e.kind = "file" THEN File(e.text, Perm(e.mode)) ELSE e

(* captureBackup: an absent path and a link leave nothing to copy.         *)
Lstat(c) ==
  /\ At(c, "lstat")
  /\ IF Target(c).kind \in {"absent", "link"} /\ Does(c, "backup") THEN End(c)
     ELSE call' = [call EXCEPT ![c].was = Saved(Target(c)), ![c].pc =
            IF Target(c).kind \in {"absent", "link"} THEN "mutate" ELSE "copy"]
  /\ Touch(call[c].inv, FALSE)
  /\ UNCHANGED <<entry, backup, aiClock, events>>

(* os.RemoveAll of what was a directory at first, else os.Remove.          *)
CanRemove(c) ==
  call[c].isDir \/ Target(c).kind \in {"file", "link"} \/ Target(c) = EmptyTree

(* What makes a system call fail: the path is no longer what it was, or    *)
(* the backup's directory is gone.                                         *)
Cannot(c) ==
  \/ At(c, "copy") /\ (touched[call[c].inv] = 0 \/ Target(c).kind # call[c].was.kind)
  \/ At(c, "mutate") /\ call[c].does \in {"write", "edit"}
       /\ (Target(c).kind = "dir" \/ ~CanPlace(call[c].path))
  \/ At(c, "mutate") /\ Does(c, "delete") /\ ~CanRemove(c)

(* What is copied: what is there now, with the mode that Lstat gave.       *)
Copied(c) ==
  IF call[c].was.kind = "file" THEN File(Target(c).text, call[c].was.mode) ELSE Target(c)

(* The backup file is opened, and with that empty, and copied.  tarGzDir   *)
(* flushes the end of an archive when it closes it, and drops the errors:  *)
(* the archive is cut, and the call goes on.                               *)
Copy(c) ==
  LET slot == Slot(c, call[c].was.kind)
  IN /\ At(c, "copy") /\ ~Cannot(c)
     /\ \E lost \in BOOLEAN :
          /\ IF lost THEN Fault /\ call[c].was.kind = "dir" ELSE UNCHANGED events
          /\ IF Does(c, "backup") THEN End(c)
             ELSE call' = [call EXCEPT ![c].pc = "mutate", ![c].was = Copied(c),
                                       ![c].lost = lost]
          /\ backup' = [backup EXCEPT ![slot] = IF lost THEN CutArchive ELSE Copied(c)]
     /\ Touch(call[c].inv, backup[slot] = NoEntry)
     /\ UNCHANGED <<entry, aiClock>>

(* The temporary file is renamed over the target, not over a directory.    *)
Rename(c) ==
  /\ At(c, "mutate") /\ call[c].does \in {"write", "edit"}
  /\ ~Cannot(c)
  /\ entry' = Placed(call[c].path, File(call[c].read \cup {c}, call[c].was.mode))
  /\ call' = [call EXCEPT ![c] = Done(c)]
  /\ UNCHANGED <<backup, touched, cycle, aiClock, events>>

(* A directory goes with all that it holds, without another look at the    *)
(* blocklist.                                                              *)
Remove(c) ==
  /\ At(c, "mutate") /\ Does(c, "delete") /\ ~Cannot(c)
  /\ entry' = Placed(call[c].path, NoEntry)
  /\ call' = [call EXCEPT ![c] = Done(c)]
  /\ UNCHANGED <<backup, touched, cycle, aiClock, events>>

(* The backup files that calls cs have opened are left empty, or not.      *)
CutShort(cs) ==
  \E S \in SUBSET {Slot(c, call[c].was.kind) : c \in {d \in cs : At(d, "copy")}} :
    LET cut == {s \in S : touched[s[1]] > 0}
        new == {s[1] : s \in {t \in cut : backup[t] = NoEntry}}
    IN /\ backup' = [s \in Slots |-> IF s \in cut THEN Torn(s[3]) ELSE backup[s]]
       /\ touched' = [i \in Invocations |-> IF i \in new THEN aiClock ELSE touched[i]]

Fail(c) ==
  /\ call[c].pc \in {"lstat", "copy", "mutate"}
  /\ \/ Cannot(c) /\ UNCHANGED <<backup, touched, cycle, events>>
     \/ Fault /\ CutShort({c}) /\ cycle' = [cycle EXCEPT !.raced = @ \/ cycle.on]
  /\ End(c)
  /\ UNCHANGED <<entry, aiClock>>

(* os.RemoveAll stops at what it cannot remove: a part of the tree is gone,*)
(* and the panel gets no recipe.                                           *)
RemoveStops(c) ==
  /\ At(c, "mutate") /\ Does(c, "delete") /\ call[c].isDir /\ Target(c).kind = "dir"
  /\ Fault
  /\ \E gone \in SUBSET Names :
       entry' = [entry EXCEPT ![call[c].path] =
                   Tree([n \in Names |-> IF n \in gone THEN NoEntry ELSE @.holds[n]])]
  /\ End(c)
  /\ UNCHANGED <<backup, touched, cycle, aiClock>>

(* tar -x adds what the archive holds to the directory that is there.      *)
Unpacked(archive, there) ==
  Tree([n \in Names |->
    IF archive.holds[n] # NoEntry \/ there.kind # "dir" THEN archive.holds[n] ELSE there.holds[n]])

(* What the recipe of c makes of the path now: rm -f, ln -sfn, install or  *)
(* tar -x, with what the backup file holds now.                            *)
Restored(c) ==
  LET was == call[c].was
      kept == backup[Slot(c, was.kind)]
  IN CASE was.kind = "file" -> File(kept.text, was.mode)
       [] was.kind = "dir"  -> Unpacked(kept, Target(c))
       [] OTHER             -> was

Mutated(c) == At(c, "done")

(* The backup is where the recipe looks for it.                            *)
BackupThere(c) ==
  LET kind == call[c].was.kind
  IN kind \in {"file", "dir"} => backup[Slot(c, kind)] # NoEntry

(* The path can take what the recipe puts there.                           *)
WayClear(c) ==
  /\ CanPlace(call[c].path)
  /\ IF call[c].was.kind = "dir" THEN Target(c).kind \in {"dir", "absent"}
     ELSE Target(c).kind # "dir"

(* The recipe's command succeeds.  tar fails at a cut archive.             *)
Undoable(c) ==
  BackupThere(c) /\ WayClear(c) /\ (call[c].was.kind = "dir" =>
                                     backup[Slot(c, "dir")] # CutArchive)

(* The panel has the recipe of a call that is done, and runs it.           *)
Undo(c) ==
  /\ Mutated(c) /\ Undoable(c)
  /\ entry' = Placed(call[c].path, Restored(c))
  /\ End(c)
  /\ UNCHANGED <<backup, touched, cycle, aiClock, events>>

-----------------------------------------------------------------------------
(* The file browser: write, delete, mkdir and copy.  It has no blocklist;  *)
(* that it may change a blocked path is left out.                          *)
Other(p, new) ==
  /\ events < MaxEvents /\ events' = events + 1
  /\ entry' = Placed(p, new)
  /\ \A f \in Blocked : Holds(Dir[f], Base[f])' = Holds(Dir[f], Base[f])
  /\ UNCHANGED <<backup, touched, call, cycle, aiClock>>

(* os.WriteFile and os.Create follow a link and keep the mode of a file.   *)
Writable(p) == Look(Resolve(p)).kind \in {"file", "absent"} /\ CanPlace(Resolve(p))
BrowserWrite(p) ==
  Writable(p) /\ Other(Resolve(p), File({Browser}, Look(Resolve(p)).mode))
BrowserDelete(p) == Exists(p) /\ Other(p, NoEntry)
BrowserMkdir(r) == ~Exists(r) /\ Other(r, EmptyTree)
BrowserCopy(p, q) ==
  /\ Resolve(p) # Resolve(q) /\ Look(Resolve(p)).kind = "file" /\ Writable(q)
  /\ Other(Resolve(q), Look(Resolve(p)))

-----------------------------------------------------------------------------
Held(i) == {s \in Slots : s[1] = i /\ backup[s] # NoEntry}

(* runJanitorCycle: the names of the directory are read, and the time.     *)
StartCycle ==
  /\ ~cycle.on /\ \E i \in Invocations : touched[i] > 0
  /\ cycle' = [NoCycle EXCEPT !.on = TRUE, !.now = aiClock,
                 !.todo = {i \in Invocations : touched[i] > 0}]
  /\ UNCHANGED <<files, call, aiClock, events>>

(* Mutant: a directory of just MaxAge is too old. *)
TooOldEarly(i) == cycle.now >= touched[i] + MaxAge

TooOld(i) == cycle.now > touched[i] + MaxAge

(* A directory is looked at: it is doomed by its age, or kept and counted. *)
Visit(i) ==
  /\ cycle.doomed = {} /\ i \in cycle.todo
  /\ cycle' =
       IF TooOld(i) THEN [cycle EXCEPT !.todo = @ \ {i}, !.doomed = {i}]
       ELSE [cycle EXCEPT !.todo = @ \ {i},
               !.keep = @ \cup {[inv |-> i, mod |-> touched[i],
                                 size |-> Cardinality(Held(i))]},
               !.total = @ + Cardinality(Held(i))]
  /\ UNCHANGED <<files, call, aiClock, events>>

(* os.RemoveAll of a directory, which may fail and then leaves it.         *)
Evict(i) ==
  /\ backup' = [s \in Slots |-> IF s[1] = i THEN NoEntry ELSE backup[s]]
  /\ touched' = [touched EXCEPT ![i] = 0]
  /\ UNCHANGED <<entry, call, aiClock>>

EvictOld(i) ==
  /\ cycle.doomed = {i}
  /\ cycle' = [cycle EXCEPT !.doomed = {}]
  /\ \/ Evict(i) /\ UNCHANGED events
     \/ Fault /\ UNCHANGED <<files, call, aiClock>>

Scanned == cycle.on /\ cycle.todo = {} /\ cycle.doomed = {}

Oldest(d) == \A e \in cycle.keep : d.mod <= e.mod

(* Over the cap the oldest goes, until the total is under it.              *)
EvictForSpace(d) ==
  /\ Scanned /\ cycle.total > Cap /\ d \in cycle.keep /\ Oldest(d)
  /\ \/ /\ cycle' = [cycle EXCEPT !.keep = @ \ {d}, !.total = @ - d.size]
        /\ Evict(d.inv) /\ UNCHANGED events
     \/ /\ cycle' = [cycle EXCEPT !.keep = @ \ {d}]
        /\ Fault /\ UNCHANGED <<files, call, aiClock>>

EndCycle ==
  /\ Scanned /\ (cycle.total <= Cap \/ cycle.keep = {})
  /\ cycle' = NoCycle
  /\ UNCHANGED <<files, call, aiClock, events>>

AITick ==
  /\ aiClock < LastTick
  /\ aiClock' = aiClock + 1
  /\ UNCHANGED <<files, call, cycle, events>>

(* The agent dies: its goroutines are gone, files and backups stay.        *)
AICrash ==
  /\ Fault /\ CutShort(Calls)
  /\ call' = [c \in Calls |->
       CASE call[c].pc \in {"lstat", "copy", "mutate"} -> Over(c)
         [] call[c].pc = "open" -> [NoCall EXCEPT !.pc = "ended"]
         [] OTHER -> call[c]]
  /\ cycle' = NoCycle
  /\ UNCHANGED <<entry, aiClock>>

AINext ==
  \/ \E c \in Calls :
       \/ \E what \in {"backup", "write", "edit", "delete"}, i \in Invocations,
             p \in Named, recursive \in BOOLEAN : AIBegin(c, what, i, p, recursive)
       \/ OpenWrite(c) \/ Lstat(c) \/ Copy(c) \/ Rename(c) \/ Remove(c)
       \/ Fail(c) \/ RemoveStops(c) \/ Undo(c)
  \/ \E p \in Paths : BrowserWrite(p) \/ BrowserDelete(p)
  \/ \E r \in Roots : BrowserMkdir(r)
  \/ \E p, q \in Paths : BrowserCopy(p, q)
  \/ \E i \in Invocations : Visit(i) \/ EvictOld(i)
  \/ \E d \in cycle.keep : EvictForSpace(d)
  \/ StartCycle \/ EndCycle \/ AITick \/ AICrash

AISpec == AIInit /\ [][AINext]_aiVars

-----------------------------------------------------------------------------
AITypeOK ==
  /\ entry \in [Roots -> Entries] /\ backup \in [Slots -> Entries \cup {CutArchive}]
  /\ \A s \in Slots : backup[s] # NoEntry => backup[s].kind = s[3]
  /\ touched \in [Invocations -> 0..aiClock] /\ aiClock \in 1..LastTick
  /\ \A c \in Calls :
       /\ call[c].pc \in {"idle", "open", "lstat", "copy", "mutate", "done", "ended"}
       /\ call[c].path \in Paths \cup {Nowhere}
  /\ cycle.total >= 0

(* Another call of the invocation has a path with the same last element.   *)
Shared(c) ==
  \E d \in Calls \ {c} :
    /\ call[d].inv = call[c].inv /\ call[d].path # Nowhere /\ ~At(d, "open")
    /\ Base[call[d].path] = Base[call[c].path]

(***************************************************************************)
(* aiops.go:10-14, "the rollback recipe in the returned BackupInfo         *)
(* restores it byte-for-byte (mode + owner preserved)": while its backup   *)
(* is there and the path can take it, the recipe of a call succeeds and    *)
(* makes exactly what the call replaced, as long as nothing changed that   *)
(* between the backup and the replacement, no other call of the invocation *)
(* has a path with the same last element, and a directory is not there.    *)
(***************************************************************************)
UndoIsDue(c) ==
  /\ Mutated(c) /\ BackupThere(c) /\ WayClear(c) /\ ~Shared(c)
  /\ call[c].was = Saved(call[c].before)
  /\ call[c].was.kind = "dir" => ~Exists(call[c].path)

(* The code does not keep all of that, see README.md: an archive whose end *)
(* could not be written cannot be unpacked, which nobody is told before    *)
(* the undo, and a file comes back without its special mode bits.          *)
UndoRestores ==
  \A c \in Calls :
    UndoIsDue(c) /\ ~call[c].lost => Undoable(c) /\ Restored(c) = Saved(call[c].before)

(* Backups are what they are taken for, and an undo restores. *)
BackupsSound == AITypeOK /\ UndoRestores

(***************************************************************************)
(* janitor.go:14-17: a backup only goes when it is older than MaxAge, or   *)
(* when all of them are over the cap and no other that the cycle has still *)
(* to look at is older.  Excused is a cycle during which a backup was      *)
(* made: the janitor acts on what it has read before.                      *)
(***************************************************************************)
FreshBackupsKept ==
  [][\A s \in Slots :
       backup[s] # NoEntry /\ backup'[s] = NoEntry /\ ~cycle.raced =>
         \/ aiClock - touched[s[1]] > MaxAge
         \/ /\ Cardinality({r \in Slots : backup[r] # NoEntry}) > Cap
            /\ \A d \in cycle.keep : touched[d.inv] >= touched[s[1]]
    ]_aiVars

(***************************************************************************)
(* aiops.go:56-59, "paths the AI is NEVER allowed to mutate", and what the *)
(* code keeps of that, see README.md: a blocked path only changes by a     *)
(* call on the directory that holds it, which is not on the list, or by    *)
(* one on a path in a directory that is a link.  A link that is the path   *)
(* itself does not lead there, nor does one that appears after the check.  *)
(***************************************************************************)
BlockedByNameKept ==
  [][\A f \in Blocked :
       Holds(Dir[f], Base[f])' # Holds(Dir[f], Base[f]) =>
         \E c \in Calls :
           /\ call'[c] # call[c]
           /\ \/ call[c].path = Dir[f]
              \/ call[c].path \in Files /\ entry[Dir[call[c].path]].kind = "link"
    ]_aiVars
=============================================================================
