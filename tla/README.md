# A TLA+ model of cloudnan-agent

The agent runs on a customer's host. It dials a control plane (the *panel*),
registers, sends heartbeats, metrics and logs, and executes the commands the
panel streams to it: database administration with a local credential vault,
dumps and restores, file and SSH operations, certificates, shell commands.

This directory holds TLA+ modules for the parts of it in which order matters,
TLC configurations that check them on small instances, and TLAPS proofs of
properties that hold whatever the instance. Run the checks here with

    tlc -workers 2 -config Loops.cfg MCLoops
    tlapm LoopsProofs.tla

`PROJECT.json` lists the components, the runs with what each one shows, a
mutant of the code for each property of the passing runs, the source lines of every definition,
the hazards, the findings and the theorems.

## 1. Inventory

| Component (source) | State | Operations | Hard behaviour | What makes it correct |
|---|---|---|---|---|
| **Session loop** (`internal/agent/agent.go` Run, connect, runHeartbeatLoop, tickHeartbeat, handleReconnect) | `conn`, `reconnectCh` (capacity 1), `fastReconnect`, backoff | dial, register, heartbeat, reconnect, stop | signals that outlive the session that asked for them; two retry policies; stop in every wait | one connection; no dial without a wait; a request gets fast tries; settles; stops |
| **Command stream** (agent.go handleCommandStream, executeCommand, sendCmd) | the stream, `cmdSendMu`, a goroutine per command | open, identify, receive, re-register, execute, send | streams replaced under running commands; concurrent Send; a panel that forgets the agent | no two Sends at once; a verdict is sent once; every command is answered or its stream failed |
| **Command execution** (`internal/executor`) | none beyond a call: the shell, its pipes, its background children | Execute, ExecuteInstall, ExecuteStream, runShellInternal | full pipes, the deadline, the order of the waits | an answer has all the output; a call ends |
| **Log shipper** (`internal/agent/logshipper.go`) | ring of lines, stream per session | push, pop, put back, send, reopen | two sessions' senders on one ring; eviction; broken streams | bounded, ordered, at most once; nothing vanishes silently; drains |
| **Container followers** (logshipper.go runDockerFollower, followContainer, scanLines) | followed set, a child and two pipes per container | scan, follow, read, reap | restart between scans, pipe back-pressure | followed exactly when a follower runs; restarts are followed; a long line does not stop a log |
| **Metrics** (`internal/monitor`, agent.go runMetricsCollector, runMetricsStream) | the caches of the slow probes, the published snapshot, a sender per session | probe, publish, open, send, drain acknowledgements | deadlines that add up, failing probes, overlapping senders, full windows | snapshots are current, no list goes back, what is published arrives |
| **Credential vault** (`internal/database/vault.go`, `lockfile_unix.go`) | blob file, key file, `v.mu`, flock | open, Get, Put, Delete, List | goroutines and processes; crash between write and rename; the lock is on an inode that the rename replaces | an atomic map; no lost entry; an opened vault stays usable |
| **Dump-user provisioning** (`ops_provision.go`) | the server's `cloudnan_dump` login, the vault entry | rotate, grant, prove, store | overlap; a failure after the rotation | a stored credential has logged in |
| **create_db** (`ops_create.go`, `ops_destructive.go`) | databases, users, privileges of the server | create, grant, compensate, drop | refusals, lost replies, a rollback by name | all or nothing; never undoes another's work |
| **Instance commands and tokens** (`handler.go`, `openinstance.go`, `ops_destructive.go`, `ops_query.go`, `token.go`) | vault entries, the token secret, a connection per call | connect, disconnect, ping, drop_db, drop_user, exec_query; set and verify | a secret replaced in flight; failures between statements and rows | nothing is destroyed but what was asked for; a footer tells the truth; a drop loses no objects |
| **Export** (`ops_export.go`, `dumper.go`, `uploader.go`, `sink.go`, `encrypt_stream.go`) | child process, cipher frames, multipart upload | dump, encrypt, upload, complete or abort | pipe deadlock, abort after a failed part | an object exists exactly after a complete dump |
| **Restore** (`ops_restore.go`, `restorer.go`, `downloader.go`, `source.go`, `decrypt_stream.go`) | target database, child process | create, download, decrypt, feed, roll back | truncated object, rollback | a restored database is the whole dump, or absent |
| **Supabase migration** (`supabase.go`, `supabase_ops.go`) | a run's directory, a stack | dump, restore, verify, functions, storage, cleanup | failing programs, steps beside each other, a cleanup under them | services keep their logins; a cleanup is final |
| **AI file operations** (`internal/filesystem`) | files, backups per invocation | write, edit, delete, undo, evict | lost edits, shared backups, links, eviction | undo restores the state of before; fresh backups stay; blocked paths stay |
| **SSH files** (`internal/ssh`) | authorized_keys, sshd_config with drop-ins, ssh.socket, backups | sync, remove, update, validate, restart | no lock, several files, failures between them | no key lost; a validated update leaves sshd as asked or as it was |
| **Certificates** (`internal/pki`, `cmd/agent`, `internal/config`) | key, certificate, identity | enroll, renew, swap | crash between two files | the certificate is the key's |
| **Self-management** (`scripts/install.sh`, agent.go runSelfUpdate, runSelfUninstall) | systemd's unit, the binary, the configuration | install, upgrade, uninstall | a script that stops the service it belongs to | an upgrade ends running, a removal leaves nothing |
| Log source discovery, SQL classifier, wire definitions | none | | | |

**How they interact.** `Run` calls `connect` in a loop; `connect` dials,
registers and starts, under one cancellable context, the heartbeat loop (in its
own goroutine), the command stream, the metrics sender and the log sender. The
ring and its collectors, and the metrics collector, live as long as the agent,
so that senders of two sessions can meet. `executeCommand` runs in a goroutine
of its own per command and calls the executor, the file, SSH or database
handler; RECONNECT signals the heartbeat loop through `reconnectCh`, which
belongs to the agent and not to the session. Heartbeats bring the reconnect
request and the token secret. Database operations resolve credentials through
the vault, which other agent processes on the host share by its files.

## 2. Modules

| Module | Models | Checked by | Proofs |
|---|---|---|---|
| `VaultMap` | abstract: a map whose calls take effect at one point | | |
| `VaultStore` | the vault's operations, locks and files; `Abs` is its refinement mapping | `MCVaultStore` | `VaultStoreProofs` |
| `VaultKey` | opening the vault, the key file | `MCHostFiles` | `HostFilesProofs` |
| `LogRing` | the ring as functions of its buffer | with `LogShipper` | |
| `LogChannel` | abstract: a lossy bounded channel between collectors and server | | |
| `LogShipper` | sessions, senders, streams over `LogRing`; implements `LogChannel` | `MCLoops` | `LoopsProofs` |
| `LogFollower` | containers, followers, pipes | `MCLoops`, `MCLogFollower` | `LoopsProofs` |
| `AgentSession` | Run, connect, the heartbeat loop | `MCLoops` | `LoopsProofs` |
| `Collector` | the metrics collector, its probes and caches | `MCHostFiles`, with `MetricsStream` | `HostFilesProofs` |
| `MetricsStream` | the senders over `Collector` | `MCLoops` | |
| `CommandStream` | the stream's reader, commands, the send lock, the panel | `MCCommands` | `CommandsProofs` |
| `Executor` | one shell command: guards, pipes, deadline, waits | `MCCommands` | `CommandsProofs` |
| `SelfManage` | the service and the scripts that install, upgrade and remove it | `MCCommands` | `CommandsProofs` |
| `DumpUser` | provision_dump_user against server and vault | `MCDatabaseOps` | `DatabaseProofs` |
| `CreateDatabase` | create_db, its rollbacks, drop_db | `MCDatabaseOps` | `DatabaseProofs` |
| `InstanceOps` | the commands on an instance, their tokens, the secret's way | `MCDatabaseOps`, `MCLoops` | `InstanceOpsProofs` |
| `SupabaseMigrate` | the steps of a migration | `MCDatabaseOps` | `DatabaseProofs` |
| `CipherStream` | the frames of encrypt_stream.go and what decrypt_stream.go accepts | with `Backup` | |
| `ExportDump` | export_dump: the tool, gzip, the encrypter, both sinks, the aborts | with `Backup` | |
| `RestoreDump` | restore_dump: the target, the source, the tool, both rollbacks | with `Backup` | |
| `Backup` | composes `ExportDump` and `RestoreDump` through the object they share | `MCBackup` | `BackupProofs` |
| `AIFileOps` | the assistant's file operations, their undo, the browser, the janitor | `MCAIFileOps` | `AIFileOpsProofs` |
| `AuthorizedKeys` | sync_keys and remove_key | `MCHostFiles` | `HostFilesProofs` |
| `SSHDConfig` | update_config of sshd | `MCHostFiles` | `HostFilesProofs` |
| `Enrollment` | a start's enrollment, renewals, the three files | `MCHostFiles` | `HostFilesProofs` |

A proof module, and the MC module of a run, take several components in with
EXTENDS: the names that would clash have a prefix of their component (`LS`, `SM`,
`DU`, `AK`, ...). `MCLoops`, `MCHostFiles` and `MCDatabaseOps` state the next-state
relation of all of theirs; `MCLoops` takes `MetricsStream` and `InstanceOps` in by
INSTANCE, since they declare names that other loops use.

**State and actions.** A local variable `pc` says which statement of the code
comes next; an action is the code between two points at which another actor can
be seen or the process can die: a lock, a system call, an RPC, an SQL statement.
What runs under one mutex without a call is one action (`LogRing`'s
operations). Comments name the call an action stands for.

* `VaultStore`: `mu`, `flock`, `blob`, `content`, `fd`, `tmp` are v.mu, the
  kernel's lock table, the directory entry, the inodes, and each goroutine's
  descriptor and temporary file. `LockMu, OpenBlob, Flock, ReadAll, WriteTemp,
  Rename, FUnlock, UnlockMu` are the statements of an operation in order;
  `Fail` is a failing system call with the deferred clean-up; `Crash` the death
  of a process. A file is an inode since flock locks inodes and rename replaces
  the inode at a path: that distinction is what the vault's mutual exclusion
  depends on.
* `VaultKey`: `keyFile` is absent, empty (created and not yet written) or a
  key; `StatKey, CreateKey, WriteKey, LoadKey` are loadOrCreateKey's steps;
  "failed" is the error ensureVault's sync.Once keeps.
* `LogShipper`: one sender per session, with the line it holds between pop and
  Send; `flight` is what gRPC accepted and the server has not read; `evicted`
  and `lost` are history variables for lines that were dropped.
* `LogFollower`: a container, its `docker logs` child and its pipe of `PipeCap`
  lines; `Scan` is one pass over `docker ps`; `ReadLine`, `ReadEOF` and `Reap`
  are scanLines, its end, and the wait for the child with the removal from the
  followed set.
* `AgentSession`: Run's loop and connect's body share `pc`; `token` of
  reconnectCh and `fastReconnect` are the hand-off between a heartbeat or a
  command and Run.
* `Collector`: time is counted in ticks. A list is the time at which it was
  probed, so that a stale or a lost one shows; `collector` is the list that is
  being probed, `since` when that began, and a probe takes up to its `Bound`.
  `over` is the end of its context, after which a tick may still be taken.
* `MetricsStream` composes the collector with its sessions: `wire` and `acks` are the two directions of a session's
  stream, each holding `Window` messages.
* `CommandStream`: three actors, the reader goroutine, one goroutine per command
  and the panel; `down` is what the panel sent, `up` what it has not read.
* `Executor`: `written` and `got` count what went into and came out of each
  pipe; `FirstWait` is the difference between ExecuteStream, which waits for its
  readers first, and cmd.Run; `StartsChild` is what a shell leaves in the
  background with its outputs open. The four patterns that a command may match
  are a record, chosen once.
* `SelfManage`: a job is the kind of a script and the step it is at; `finisher`
  is the transient unit that ends an upgrade. `Killed` is what `systemctl stop`
  does to every script the agent has started.
* `DumpUser`, `CreateDatabase`: the server's logins, databases and privileges
  are sets and functions; each SQL statement is an action that succeeds, fails,
  or (`CreateDatabase`) takes effect while its reply is lost. `engine` is chosen
  once, in the initial state: the two engines have different statements.
* `InstanceOps`: `Deliver` is the dispatcher with the token's verification;
  what follows are the statements of each operation in order, with `live` for
  the connection. Of a server it keeps the databases, a user, and one object
  with its owner. Secrets are numbered; an answer that carries one is in flight
  in `ioAnswers` and may overtake another.
* `SupabaseMigrate`: the run's directory and the stack, each part "none",
  "part" or "whole"; a call is a step of the migration, and a program that
  fails may have done a part.
* `CipherStream`: the dump is the sequence 1..Units, so that a lost, doubled or
  swapped unit shows; `Seal(k, block)` carries the block number the code passes
  as additional data, and `Opens` is what authenticating it comes to.
* `ExportDump`: `block`, `part`, `staged` and `object` are the encrypter's
  buffer, the uploader's, the uploaded parts and the finished object; the pipe
  from the tool holds `written - copied` units. `xpc` names the statements of
  opExportDump; "abort" is `sink.Abort`, whether called or deferred. `xctx` is
  the command's context, which kills the tool and fails the calls on the bucket
  but not the abort, which has a context of its own.
* `RestoreDump`: `maker` is who made the database that has the target's name,
  `data` what it holds. All restores name one target, the worst case for the
  rule that a restore touches only what it has made.
* `AIFileOps`: a path is absent, a file, a directory or a link; a text is the
  set of its writers, so that a lost edit shows. `Slot` names a backup as the
  code does, by invocation and last element of the path: two paths of the
  instance share one. `cycle` is what a janitor's pass has read and acts on.
* `AuthorizedKeys`, `SSHDConfig`: `OpenFile` and `OpenConfig` empty the file
  that `WriteFile` and `WriteConfig` then fill; a backup is named by its second.
  A configuration is the sequence of the lines that matter, and `Config` what
  sshd makes of it: the drop-in in place of the Include, each line with whether
  it holds for every user. `akWanted` is a history variable: what the last undisturbed
  call asked for.
* `Enrollment`: a key is the number of its generation, `Cut` a file that is
  half written, and a certificate the number of its key with its end. `Die` may
  come anywhere; the service manager starts the agent again.

## 3. Runs

Runs that pass; the numbers are those of the .cfg files. The components of a run
share no variable as they are modelled: a behaviour is one of any of them, so
that the states add up and do not multiply.

| Run | Asks | Bounds |
|---|---|---|
| `vault_one_process` | are the operations of one process atomic, with a crash and failing calls? | 3 goroutines, 2 ids, 2 credentials |
| `vault_two_processes` | are locks and the blob sound with a second agent, and does every call return? | 2 processes, 3 files, a crash |
| `loops` | session: are dials paced, requests spent once, fast before slow, does the agent settle and stop? | 3 fast tries (30 in the code), 5 failures, 3 signals |
| | shipper: is every line accounted for, received once and in order, is the whole a bounded channel, does it drain? | ring of 2, 3 lines, 2 sessions that may overlap, 2 broken streams |
| | follower: is the followed set right; are restarts followed? | 2 containers, 3 lines, a pipe of 1, 2 stops |
| | secret: does the agent come to have the panel's last secret? | 3 secrets, 2 restarts |
| | metrics: does what is published last arrive? | 2 ticks, 2 sessions, 1 broken stream, a window of 1 |
| `commands` | stream: are sends serialized and verdicts final; is every command answered and the agent reachable again? | 2 commands of which 1 is RECONNECT, 5 streams, 2 breaks, 1 chunk |
| | shell: has an answer all the output, and does the call end? | 4 functions, every combination of patterns, 2 writes to each output, a pipe of 1, a background child |
| | scripts: does a script do what its mode says? | 2 jobs of 5 kinds, 1 failure |
| `database_ops` | create: does no call undo another's, and does a failed call leave nothing it could have removed? | both engines, 2 create_db calls, 2 names, 1 user, 2 faults, 1 drop |
| | provision: is a stored credential one that logged in? | 3 provisions, 2 instances, 2 failures |
| | instance: is only what was asked for destroyed, is a footer true, does a dropped user's object stay? | 2 calls, 2 instances, 2 secrets, 1 token, 1 tick, 1 fault, 2 rows, limits 1 and 2 |
| | migrate: can the services log in afterwards, is a cleanup final? | 3 calls, 1 fault |
| `backup` | is an object or a restored database the whole dump; do failures leave nothing; is nothing of others touched; does every command end? | 5 units, blocks of 2 units, parts of 2 frames, a pipe of 1 unit, 2 restores of one target, 1 failure on each side |
| `ai_files` | does an undo restore, does the janitor leave fresh backups, are blocked paths left alone? | 2 calls, 2 invocations, 3 paths (1 blocked, 2 with one name), 3 ticks, 1 event |
| `host_files` | vault: does a vault that opened keep its key? | 3 agents, 2 crashes, 1 failure |
| | start: is the certificate the key's? | 4 keys, certificates of 2 ticks, 6 ticks |
| | keys: are the wanted keys there, and the replaced ones in the backup? | 3 calls, 2 users, one without a file at first, 2 keys, 2 seconds, 1 fault |
| | sshd: does a validated update leave sshd as asked or as it was? | 2 calls of 3 requests, 3 configurations, 2 drop-ins (1 of them where none is included) or none, ssh.socket with a drop-in, 1 fault |
| | collector: are snapshots current, and does no list go back? | 9 ticks, 2 failing probes |

In `backup` five units and blocks of two give two full frames and one that is
not, or three full ones with gzip's trailer; parts of two frames give one full
part and a tail. The copy of a local file may be cut at any frame, in a frame,
or lack one. Either side has one failure besides the end of its context, which
may come at any point. In the instance commands a limit of 1 against 2 rows is
the truncated result and a limit of 2 the exact one. In `host_files` nine ticks
let a collection with two failing probes run into the next two.

**Why the bounds are enough.** Every race in these modules is between two actors
and the state that a third has left: three goroutines give a holder, a waiter
and a latecomer (the lost update needs all three); two sessions give the overlap
of a cancelled sender with its successor, and more sessions only repeat it; a
ring shorter than the lines distinguishes its oldest line from its newest; two
breaks give a failure in the recovery from a failure. A file that two calls
read, change and write needs two calls and what a failed one has left. A counter
such as `MaxBreaks` caps how often the environment misbehaves, never what the
code does. `FastTries` stands for the code's 30: what matters is that there is a
first, a middle and a last try; the proofs take it as any number. The types of
`VaultStore` and `VaultKey` are proved (`LocksAlwaysOwned`, `KeyTypes`) and not
checked again by a run; those of `LogFollower` and `Executor` are part of
`FollowedHasFollower` and `OutputWhole`, those of `InstanceOps` of `FooterIsWhole`. Symmetry is used only in runs that check no liveness
property.

`CHECK_DEADLOCK FALSE` is set where the bounded environment runs out of things
to do (all lines collected, all calls done, the agent stopped). The vault runs
check deadlock where a goroutine can always make another call.

**Runs that end in a violation.** Each checks a sentence of the code's own
comments that the code does not keep; `PROJECT.json` quotes it.

| Run | What the code does |
|---|---|
| `vault_lost_update` | the flock guards the old inode after a rename: with two agents an entry is lost |
| `follower_huge` | a line of 64 KiB stops the reader; the container is not read again |
| `sshd_validation` | after a failed validation only sshd_config is put back: drop-in files and ssh.socket keep the new port |
| `self_uninstall` | the uninstall's script is stopped with the service, before it removes anything |

**What the properties leave out on purpose**, because the code does not
promise it:

* *Vault.* An agent that starts while another is writing the key file refuses to
  open the vault until it is restarted (`VaultKey`, state "failed").
* *Logs.* Lines that gRPC accepted before a stream broke are gone, and lines
  that two overlapping sessions send may arrive swapped (`lost`, and the
  condition of `InOrder`).
* *Session.* One that ends without an error inside the fast loop leaves its
  connection open: `ConnectionsBounded` counts at most one for each hand-off.
* *Commands.* RECONNECT ends the stream under the other running commands, whose
  answers then fail. The deadline kills the shell alone: while a background
  child holds its outputs the call does not end (`Returns`). A failed
  identification is repeated without a wait (agent.go:471), and RECONNECT's
  acknowledgement races the end of its session (agent.go:860).
* *Blocked commands.* The configured list is kept and not looked at
  (executor.go:371), though README.md:77 of the repository describes it.
* *Metrics.* The process list becomes none after a scan that reached its
  deadline, and is scanned for again at each collection (monitor.go:353); a
  child that survives the kill holds the collector (monitor.go:577).
* *Scripts.* Two upgrades at once share the downloaded file; a page that is no
  program is installed as one (install.sh:333 calls curl without -f); a failed
  download of the script inside the agent's own update is reported as a success
  (agent.go:1557 sets no pipefail). `alone` and `MaxErrors` say where.
* *Provisioning.* A provision that fails after the rotation leaves the vault
  with the password it has replaced, and two that overlap may both succeed and
  leave the vault with the password that the other has replaced
  (ops_provision.go:199): `AloneSuffices` speaks of one that ran alone.
* *create_db.* One whose FLUSH PRIVILEGES, OWNER TO or compensating statement
  fails, or whose reply is lost, leaves what it made: `excused` marks it.
* *Tokens.* One is not consumed: a command delivered twice runs twice.
* *drop_user.* What the user creates between REASSIGN and DROP OWNED is lost.
* *Queries.* A statement's connection is lost after the header: the error chunk
  follows the rows that were already sent (ops_query.go:57, :183).
* *Migration.* Verification counts a table that cannot be read as empty
  (supabase_ops.go:543), so that two failures agree; a restore that cannot reset
  the roles' passwords is reported as complete ("unreset").
* *Export.* One whose local file fails at fsync leaves the file, although the
  comment at ops_export.go:387 says that Close has aborted; the uploader's does
  and the file's does not (`excused` in `ExportDump`). After a failed copy
  nobody reads the dump tool's pipe: a tool that still writes blocks, and the
  export waits until the command's timeout kills it.
* *Restore.* One whose FLUSH PRIVILEGES or compensating DROP fails, or whose
  CREATE loses its reply, leaves the empty target (`rexcused`). The format has
  no last frame: a copy of a plain MySQL dump that was cut at a frame restores
  as the start of the dump and reports completed (the last conjunct of
  `RestoredIsDump` says where it cannot happen).
* *Files.* A repeated operation of one invocation on a path of the same name
  overwrites its backup (`Shared`); an edit loses a change made between its read
  and its write (aiops.go:298); a file written over a link that leads nowhere
  gets the link's mode; a backup made during the janitor's cycle may go with its
  invocation's old ones (`raced`).
* *authorized_keys.* Calls that overlap overwrite each other (`akWanted` is then
  unknown), and backups of one second share a name.
* *sshd.* A setting that an included file decides is reported as set (`Decides`);
  the backups of drop-in files are never read back; without validation a
  configuration that sshd refuses may be left. A Port line that is commented out
  in a Match block is set like any other (sshd_config.go:303): validation then
  fails, and in a drop-in the line stays, which sshd refuses at its next start
  (`PortsGlobal` in `ValidatedUpdateSafe`).
* *Start.* A renewal that stops between its two renames leaves a key without its
  certificate (`enHalf`); a configuration that was cut may lose the identity
  (config.go:293).

## 4. Fairness

No fairness is assumed of a failure, a crash, a request or anything else from
outside. Of the code:

* `VaultStore`: weak fairness of every statement of an operation (a runnable
  goroutine is scheduled) and strong fairness of the two lock acquisitions: a Go
  mutex hands itself to a waiter after a millisecond (starvation mode) and flock
  queues its waiters, so a waiter is not passed over for ever. A write on a disk
  that is full fails and is not waited for (`DiskFull`).
* `LogShipper`: weak fairness of the sender, of the ack drainer and of the
  network's delivery on a stream that stays up; sessions start again after they
  end, since Run loops.
* `LogFollower`: weak fairness of the ticker's scan, of the reader, and of
  docker's writing and exiting.
* `AgentSession`: weak fairness of the loop's own steps and of a pending signal.
  A call to the panel ends, by success or by failure; the failures are bounded.
* `InstanceOps`: weak fairness of the heartbeat, which a ticker sends, and of
  taking an answer that has arrived. Rotations and restarts are bounded, and
  nothing is assumed of renewals.
* `MetricsStream`: weak fairness of a session's sender, its acknowledgements'
  reader and the network. Nothing is assumed of the collector: what it has
  published arrives although it may never publish again.
* `CommandStream`: weak fairness of the reader, of a command's goroutine and of
  the panel reading a stream that is up; strong fairness of cmdSendMu, for the
  reason given for v.mu.
* `Executor`: weak fairness of the deadline, the readers and the waits. A shell
  need not exit, and a background child need not end.
* `Backup`: weak fairness of the goroutine of an export or restore, of its
  command's timeout (executeCommand gives every command one, five minutes if the
  panel names none) and of the kill that follows it. Nothing is assumed of the
  tools: `AllEnd` holds although a tool may never write, read or exit.

`MCLoops` states the fairness of its loops with one conjunct for several of
them, which keeps TLC's formula small: only one loop runs in a behaviour.

## 5. Proofs

| Theorem | Statement | From |
|---|---|---|
| `LocksAlwaysOwned` | `Spec => [](TypeOK /\ LocksOwned)` | `LockInv` = `TypeOK` and `LocksOwned`, inductive |
| `BlobAlwaysCommitted` | `Spec => []BlobIsCommitted` | `LockInv` and `FileInv`: a temporary file belongs to one goroutine, is not the blob, and holds the update of what that goroutine read |
| `ReadModifyWriteAlwaysSafe` | `OneProcess` implies `Spec => []ReadModifyWriteSafe` | `SoloInv`: within one process the goroutine inside v.mu is alone, so what it read is still there |
| `VaultImplementsMap` | `OneProcess` implies `Spec => ImplementsMap` | the same invariant; a call takes effect at `ReadAll` when it only reads and at `Rename` when it writes |
| `KeyTypes`, `OpenVaultAlwaysUsable`, `KeyIsNeverReplaced` | `Spec => []TypeOK`, `Spec => []OpenVaultUsable`, `Spec => KeyNeverReplaced` | `KeyInv`: at most one process is between creating and writing the key file, and the file is empty or absent meanwhile |
| `SessionAlwaysSafe` | `Spec => []SessionSafe`, which is the types, `HandoffsEarned`, `DialsPaced`, `FastBeforeSlow` and `ConnectionsBounded` | `Flags`, `Numbers`, `Places` for the types; `Paced` and `Remembered` say at each place of the loop what has been waited for and what has been asked; `Counted` what each connection is owed to |
| `SendsNeverConcurrent` | `Spec => []OneSenderPerStream` | `SendInv`: a goroutine in Send holds cmdSendMu, and a stream that ended stays ended |
| `FollowedAlwaysHasFollower` | `LFSpec => []FollowedHasFollower` | `FollowerInv`: a container's child and its reader come and go together, and a child that has exited has nothing to write |
| `PairAlwaysMatches` | `EnSpec => []PairMatches` | `EnInv`: a start that makes a key has found no valid certificate, a renewal runs only beside a running agent, and between its renames the key is the new one |
| `OutputAlwaysWhole` | `ExSpec => []OutputWhole` | `ExecInv`: what has been read to the end had no writer left, and at each place of the call which of its two waits is over |
| `AlwaysDestroyedAsMinted` | `IOSpec => []DestroyedAsMinted`, for commands of the operations that there are | `IOInv`: a command is at places of its own operation only, and one that needs a token has been paid for by one while it runs |
| `OwnedObjectsAlwaysKept` | `IOSpec => []OwnedObjectsKept` | `OwnedInv`: who is about to DROP OWNED has reassigned, and nobody gives objects back |
| `FooterAlwaysWhole` | `IOSpec => []FooterIsWhole` | `FooterInv`: at each place of a query what its counters are against the limit and the rows that there were |
| `VerdictsAlwaysFinal` | `Spec => []OneVerdict` | `SendInv` and `VerdictInv`: all messages of a command are on one stream, in order, the verdict last, and what the panel has is the start of them |
| `ScriptsAlwaysWork` | `ScriptsSpec => []ScriptsWork` | `ScriptsInv`: a job that is alone has, at each of its steps, what its earlier steps have made, and a finisher is its own |
| `DeliveryAlways` | `LSSpec => []Delivery` | `ShipperInv`: no line is nowhere (`Together`), none in two places (`Apart`), a sender holds a line exactly between pop and Send (`Holding`), and with one session what is further on its way is older (`Sorted`) |
| `ShipperAlwaysAChannel` | `LSSpec => ImplementsChannel` | `ShipperInv`, step by step: a push is `Collect` with what the ring evicts, a receipt `Deliver`, a break or a full ring on put-back `Drop`, all else a stutter |
| `CreatesAlwaysAllOrNothing` | `Spec => []CreatesAllOrNothing` | `CreateInv`: what a call under way has made is still its own, and it has made no more than it was asked for |
| `ProvisionsAlwaysProven` | `DUSpec => []ProvisionsProven` | `ProvisionInv`: passwords are drawn once, a login that is about to be stored has worked, and who stores after a lone call has rotated since |
| `MigrationAlwaysSound` | `SMSpec => []MigrationSound` | `MigrationInv`: as long as the stack has foreign passwords somebody has yet to reset them or has ended without; a dump with its file to itself has it in the directory that is there |
| `FailedAlwaysLeavesNothing`, `OthersAlwaysKept` | `Spec => []FailedLeavesNothing`, `Spec => OthersKept` | `RestoreInv`: from its CREATE to its end, and only then, the database is the restore's |
| `ExportsAlwaysSafe` | `Spec => []ExportSafe` | `ExportInv`: at each place of an export the units in the pipe, in gzip, in the block, in the part and staged are together the start of the dump, each frame under its number |
| `RestoresAlwaysTheDump` | `Spec => []RestoredIsDump` | `BackupInv` = `RestoreInv`, `ExportInv` and `FeedInv`: what a source gives is a cut of an object that is whole, and what was opened and applied is the start of what it holds |
| `BackupsAlwaysSound`, `BlockedAlwaysUntouched`, `FreshBackupsAlwaysKept` | `Spec => []BackupsSound`, `Spec => BlockedUntouched`, `Spec => FreshBackupsKept` | `AIInv`: a call under way has a path that is not blocked, its backup is what it took as long as it is there, and what a janitor's cycle has read is still so unless a backup raced with it |
| `KeysAreKept` | `AKSpec => []KeysKept` | `KeysInv`: who runs alone is the only one on its file; until it opens the file the file is what was wanted, then it is empty |
| `MetricsAlwaysSound` | `CollectorSpec => []MetricsSound` | `CollectorInv`: how long the collection that is under way has taken at each of its lists, and what the caches and the failures say of its parts |
| `UpdatesAlwaysSound` | `SDSpec => UpdatesSound` | `SDInv`: what an update that nothing has disturbed has made of the two files, stage by stage, that its backup is still the file it began with, and that no other call is under way |

The assumptions are the ones named in the modules (`VaultStoreAssumption`:
every goroutine has a process, `None` is neither a goroutine nor a file;
the others: bounds are natural numbers, and the values that stand for nothing
are no numbers), and `OneProcess` where the statement names it. `OneProcess` is
necessary: `vault_lost_update` shows what happens without it. The theorem on
followers holds for every kind of line, so it is also about the container that
`follower_huge` shows to be in the set and not read.

An invariant that a run checks is not by itself inductive: `BlobIsCommitted`
says nothing of the file a goroutine is about to rename, `DialsPaced` nothing
of a wait that is still to come, `OutputWhole` nothing of an output that was read
to the end before the answer, `ObjectsAreWhole` nothing of the frames that are
staged, `ServicesCanLogIn` nothing of who resets the passwords. Each `...Inv` adds
just that, place by place, and TLC has checked each on the run's instance before
it was proved. For an action property (`KeyNeverReplaced`, `OthersKept`,
`BlockedUntouched`, `FreshBackupsKept`, `UpdatesSound`) the step is taken from a
state that satisfies the invariant. Each action has a lemma that says what it changes; the
preservation lemmas cite those and not the actions.

`BackupProofs` says of sequences of any length what gzip, the encrypter and the
uploader make of the dump. Where that takes induction (the frames of an object
open to the concatenation of their blocks) the induction is over the length of
a sequence given by name: the least counterexample exists because < on the
naturals is well-founded, which is a fact and takes no operator.

`DatabaseProofs` reasons about a server with both engines, `BackupProofs` about a
copy that was cut anywhere, `AIFileOpsProofs` about directories of any size whose
sizes a cycle adds up: there the total is at least the number of the files of the
directories that may still go, so that it is never taken below zero.

The proof of `UpdatesSound` is for any number of Port lines and Match blocks in
either file. It needs no induction: the configuration is three
sequences after each other, and each line of it is a line of one of the files.

**Only model-checked**: every liveness property and with them `ENABLED` (out of
the prover's reach), and all violations. Every safety property that a passing
run checks is stated by a theorem.

## 6. Not modelled, and why

Encryption, SQL text, gRPC's transport and the docker command line appear as
what the code relies on: a blob decrypts to what was written with the same key,
a statement has its effect or an error, a stream delivers in order until it
breaks. Time appears as order: a wait is a step, a deadline a failure that may
come at any point; only metrics, backups, tokens and certificates have a clock.

Left out altogether:

* the generated code of `proto/agent` (5939 of the repository's lines) and its
  definition;
* text matching that keeps no state: log source discovery (`logsources.go`), the
  SQL classifier (`classify.go`; its verdict is part of a command), the
  discovery of servers (`discover.go`), the quoting of names, the patterns of
  the executor (which of them a command matches is a value);
* locks of other platforms: a stub that always fails or always succeeds;
* the journald and application-file followers, which run `scanLines` under a
  restart loop;
* opCreateUser and opGrant: single statements, or one transaction of the server;
* the pool of connections behind a call: USE changes one connection of it
  (openinstance.go:81), and which one a later statement gets is database/sql's;
* disconnect beside a running provision, which puts the entry back
  (handler.go:313): both are modelled, each with a vault of its own;
* calls to the panel that never return (agent.go:382 has no deadline): every
  call ends, by success or by failure;
* per-device deltas and rates of the monitor, which no other state depends on.

The renewal checker and ExecuteStream have no caller in this commit; they are
modelled as their code stands.

## 7. Plan

1. `DumpUser` and `InstanceOps` over the abstract `VaultMap`, so that a provision
   and a disconnect meet in one instance; `CreateDatabase` extended by
   create_user and grant.
2. A pacing property of `CommandStream`'s reopening, and one about RECONNECT's
   acknowledgement.
3. An abstract specification of `AIFileOps`: an undo returns the state before
   its invocation.
4. Proofs: that the sessions of `MetricsStream` send only what was published and
   in its order, a safety property beside `MetricsArrive`; that what is proved of
   `DumpUser` and of the vault holds of the two composed.
