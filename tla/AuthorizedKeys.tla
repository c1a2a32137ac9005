---------------------------- MODULE AuthorizedKeys ----------------------------
(***************************************************************************)
(* sync_keys and remove_key (internal/ssh/authorized_keys.go): the panel's *)
(* keys replace a user's authorized_keys, or one of them is taken out.     *)
(* Every command runs in a goroutine of its own and nothing locks a file.  *)
(* os.WriteFile opens the file, which empties it, and then writes.         *)
(*                                                                         *)
(* A file is the set of its keys: writeKeysFile leaves one line of each.   *)
(* A key of Marked has a name that its line does not contain already, so   *)
(* that SyncKeys adds "managed-by-cloudnan id=..." to it; RemoveKey looks  *)
(* for that id.  The panel always replaces the whole file                  *)
(* (agent.go:1122), and all backups lie in one directory.                  *)
(***************************************************************************)
EXTENDS Naturals, FiniteSets

CONSTANTS
  AKCalls,    \* sync_keys and remove_key commands
  Users,
  Keys,       \* public keys, each with its id
  Marked,     \* those whose line carries the id
  NoFile,     \* no such file, no such backup
  Unknown,    \* what disturbed commands leave
  LastSecond, \* bound: the clock's last value
  AKMaxFaults \* bound: system calls that fail, and restarts of the agent

ASSUME AuthorizedKeysAssumption == LastSecond \in Nat \ {0} /\ AKMaxFaults \in Nat

VARIABLES
  akFile,    \* akFile[u]: the keys in the authorized_keys of user u
  akBackup,  \* akBackup[s]: what the backup named after second s holds
  akCall,    \* akCall[c]: where call c is, and what it is going to write
  akNow,     \* the second
  akWanted,  \* history: what undisturbed commands made of u's file
  akFaults

akVars == <<akFile, akBackup, akCall, akNow, akWanted, akFaults>>

Seconds == 1 .. LastSecond
Contents == {NoFile} \cup SUBSET Keys

NoAKCall == [pc |-> "idle", does |-> "sync", user |-> NoFile, new |-> {},
             saved |-> 0, before |-> NoFile, alone |-> TRUE]

(* Every other content is one that a sync leaves. *)
AKInit ==
  /\ akFile \in [Users -> {NoFile, Keys}]
  /\ akBackup = [s \in Seconds |-> NoFile]
  /\ akCall = [c \in AKCalls |-> NoAKCall]
  /\ akNow = 1
  /\ akWanted = akFile
  /\ akFaults = 0

Running(c) == akCall[c].pc \in {"backup", "open", "write"}
OnFile(u) == {c \in AKCalls : Running(c) /\ akCall[c].user = u}
User(c) == akCall[c].user

(* What is left of a call: the backup that it reports. *)
Ended(c, how) ==
  [NoAKCall EXCEPT !.pc = how, !.saved = akCall[c].saved,
     !.before = IF akCall[c].saved # 0 THEN akCall[c].before ELSE NoFile,
     !.alone = akCall[c].alone \/ how # "done" \/ akCall[c].saved = 0]

(* Two commands on one file disturb each other, whatever they do.          *)
Overlap(u, calls) ==
  [d \in AKCalls |-> IF d \in OnFile(u) THEN [calls[d] EXCEPT !.alone = FALSE] ELSE calls[d]]

Start(c, does, u, new, place) ==
  /\ akCall[c].pc = "idle"
  /\ akCall' = [Overlap(u, akCall) EXCEPT ![c] =
       [NoAKCall EXCEPT !.pc = place, !.does = does, !.user = u, !.new = new,
                        !.alone = OnFile(u) = {}]]
  /\ UNCHANGED <<akFile, akBackup, akNow, akWanted, akFaults>>

(* SyncKeys: there is a backup when there is a file.                       *)
SyncKeys(c, u, keys) ==
  Start(c, "sync", u, keys, IF akFile[u] = NoFile THEN "open" ELSE "backup")

Kept(keys, k) == keys \ ({k} \cap Marked)

(* RemoveKey: the file is read at once; without one the call fails.        *)
RemoveKey(c, u, k) ==
  /\ akFile[u] # NoFile
  /\ Start(c, "remove", u, Kept(akFile[u], k), "open")

BackupName == akNow

(* createBackup *)
CreateBackup(c) ==
  /\ akCall[c].pc = "backup"
  /\ akBackup' = [akBackup EXCEPT ![BackupName] = akFile[User(c)]]
  /\ akCall' = [akCall EXCEPT ![c].pc = "open", ![c].saved = akNow]
  /\ UNCHANGED <<akFile, akNow, akWanted, akFaults>>

(* Mutant: the file is opened as it is. *)
OpenAsIs(c) ==
  /\ akCall[c].pc = "open"
  /\ akCall' = [akCall EXCEPT ![c].pc = "write", ![c].before = akFile[User(c)]]
  /\ akFile' = [akFile EXCEPT ![User(c)] = IF @ = NoFile THEN {} ELSE @]
  /\ UNCHANGED <<akBackup, akNow, akWanted, akFaults>>

OpenFile(c) ==
  /\ akCall[c].pc = "open"
  /\ akCall' = [akCall EXCEPT ![c].pc = "write", ![c].before = akFile[User(c)]]
  /\ akFile' = [akFile EXCEPT ![User(c)] = {}]
  /\ UNCHANGED <<akBackup, akNow, akWanted, akFaults>>

(* The file is written from its start: past that lies what another command *)
(* has written since, without its first line at least.                     *)
Tails(content, new) ==
  IF new = {} THEN {content} ELSE {{}} \cup (SUBSET content \ {content})

WriteFile(c) ==
  /\ akCall[c].pc = "write"
  /\ \E tail \in Tails(akFile[User(c)], akCall[c].new) :
       akFile' = [akFile EXCEPT ![User(c)] = akCall[c].new \cup tail]
  /\ akCall' = [akCall EXCEPT ![c] = Ended(c, "done")]
  /\ akWanted' = [akWanted EXCEPT ![User(c)] =
       IF ~akCall[c].alone \/ (akCall[c].does = "remove" /\ @ = Unknown)
       THEN Unknown ELSE akCall[c].new]
  /\ UNCHANGED <<akBackup, akNow, akFaults>>

(* A system call fails: before the file is opened it is as it was.         *)
AKFail(c) ==
  /\ Running(c) /\ akFaults < AKMaxFaults
  /\ akCall' = [akCall EXCEPT ![c] = Ended(c, "failed")]
  /\ akWanted' = [akWanted EXCEPT ![User(c)] =
       IF akCall[c].pc = "write" \/ ~akCall[c].alone THEN Unknown ELSE @]
  /\ akFaults' = akFaults + 1
  /\ UNCHANGED <<akFile, akBackup, akNow>>

AKCrash ==
  /\ akFaults < AKMaxFaults /\ \E c \in AKCalls : Running(c)
  /\ akCall' = [c \in AKCalls |-> IF Running(c) THEN Ended(c, "failed") ELSE akCall[c]]
  /\ akWanted' = [u \in Users |->
       IF \E c \in OnFile(u) : akCall[c].pc = "write" \/ ~akCall[c].alone
       THEN Unknown ELSE akWanted[u]]
  /\ akFaults' = akFaults + 1
  /\ UNCHANGED <<akFile, akBackup, akNow>>

AKTick ==
  /\ akNow < LastSecond /\ akNow' = akNow + 1
  /\ UNCHANGED <<akFile, akBackup, akCall, akWanted, akFaults>>

AKNext ==
  \/ \E c \in AKCalls :
       \/ \E u \in Users, keys \in SUBSET Keys : SyncKeys(c, u, keys)
       \/ \E u \in Users, k \in Keys : RemoveKey(c, u, k)
       \/ CreateBackup(c) \/ OpenFile(c) \/ WriteFile(c) \/ AKFail(c)
  \/ AKCrash \/ AKTick

AKSpec == AKInit /\ [][AKNext]_akVars

-----------------------------------------------------------------------------
AKTypeOK ==
  /\ akFile \in [Users -> Contents]
  /\ akBackup \in [Seconds -> Contents]
  /\ akCall \in [AKCalls -> [pc : {"idle", "backup", "open", "write", "done", "failed"},
                             does : {"sync", "remove"}, user : Users \cup {NoFile},
                             new : SUBSET Keys, saved : 0 .. LastSecond,
                             before : Contents, alone : BOOLEAN]]
  /\ akNow \in Seconds /\ akFaults \in 0 .. AKMaxFaults
  /\ akWanted \in [Users -> {Unknown} \cup Contents]

(* Whatever crashes and overlapping commands have left in a file, the next *)
(* sync that runs alone makes it exactly the panel's keys, and as long as  *)
(* commands run one at a time and none dies with the file open, it stays   *)
(* what they make of it.                                                   *)
AloneExact ==
  \A u \in Users : OnFile(u) = {} /\ akWanted[u] # Unknown => akFile[u] = akWanted[u]

(* The backup that a sync reports holds the keys that it replaced, unless  *)
(* another sync, of any user, made its backup in the same second.          *)
BackupHoldsReplaced ==
  \A c \in AKCalls :
    LET mine == akCall[c]
        shared == \E d \in AKCalls \ {c} : akCall[d].saved = mine.saved
    IN mine.pc = "done" /\ mine.saved # 0 /\ mine.alone /\ ~shared
       => akBackup[mine.saved] = mine.before

KeysKept == AKTypeOK /\ AloneExact /\ BackupHoldsReplaced
=============================================================================
