# Verification of the roodox server

This directory holds TLA+ models of the roodox server (Go, `src/internal`), the TLC
configurations that check them on small instances, and proofs that TLAPS checks for
every instance.

## 1. The system

A client edits a project directory on a server through gRPC. The server keeps the files
themselves in a directory (the root) and, in a SQLite database, what it knows of them:
the current metadata (`meta`), a version counter (`file_head`), the history (`version`)
and the bytes of each version (`version_blob`).

| Component | State | Operations | Interacts with |
|---|---|---|---|
| `SyncService`, `CoreService` | none of their own | WriteFile(Stream), WriteFileRange, SetFileSize, Delete, Rename, Mkdir, reads | PathLocker, FileSystem, VersionStore, MetaStore, janitor triggers |
| `mutationSupport` | none | ResolveFileHead, SaveFileSnapshot, conflict copies | VersionStore, MetaStore, FileSystem |
| `PathLocker` | one mutex per path | Lock, LockMany | all handlers |
| `db.VersionStore`, `db.MetaStore` | four tables | SaveFileSnapshot, AppendDeleteSnapshot, RenamePathTree, SetMeta | one SQLite connection |
| `FileSystem` | the tree below the root | Stat, ReadAt, WriteAt, SetFileSize, Remove, Rename, Mkdir | operating system |
| `lock.Manager` | path -> owner, expiry | Acquire, Renew, Release, CleanupExpired | clients |
| `cleanup.Runner` | a trigger channel, a timer | Trigger, Close, loop | janitors, database maintenance |
| database maintenance | last checkpoint, last backup | run, BackupNow | Runner, DB |
| janitors | nothing beyond the disk | remove files by age and size | disk, Runner, the log writer |
| `BuildService` | jobs, slots, unit locks, work directories, logs | StartBuild, status, logs, product, cleanupJobs | Runner, build tools, disk |
| `DeviceRegistry`, `ControlPlaneService`, `AdminConsoleService` | devices, policies, pending actions, diagnostics | register, heartbeat, assigned config, reports, uploads, policy updates, client actions, join bundles | database, clients |
| `observability.Recorder` | counters, ring buffers of durations | Record..., Snapshot | every handler, the console |
| configuration, access bundles | files, environment | Load, Save, normalize, issue and import of a bundle | operator, client import command |
| security | four TLS files, the shared secret | ensureServerCertificate, RotateTLSArtifacts, the interceptors | runtime, operator, clients |
| database restore | the database file, its log, the safety copy | RestoreFromBackup | operator, lock files |
| runtime | life cycle, lock files | Start, Stop, cleanup | everything |

What is hard: a mutation alternates between the disk and the database and no step covers
both, so other handlers, a failing step or a crash fall between them; renames move whole
subtrees under a lock of two paths; version numbers are assigned after the check that
uses them; timers, triggers and shutdown race.

The properties that make the parts correct:

- database: histories without gaps or losses, current metadata that is the newest version,
  numbers that never go back;
- file services: disk and database agree, an update is never lost between the check of the
  base version and its transaction, an acknowledged write is on disk, a conflict copy
  survives, every request ends;
- locks: nobody waits in a circle; a client that goes by its `expire_at` has the lock;
- runner and maintenance: triggers and due times are served, old backups are trimmed;
- janitors: the oldest files go and no more than needed, what is too old goes in the end;
- builds: bounded slots, one build of a unit at a time, live builds and the products of
  known jobs stay, results go when their time is over;
- control plane: a revision names one policy, an update is noticed, actions reach an answer,
  the console's view of a device is timely;
- restore and runtime: one process serves a database, a restore loses nothing that its
  safety copy should keep, starts and stops end, clients go on trusting the server;
- algorithms: one form for every path, configurations that settle, bundles that connect.

## 2. Structure and what could come next

| Module | Models | State |
|---|---|---|
| `PathTree` | paths, and where a rename takes them | used by the next three |
| `VersionStore` (extends `PathTree`) | transactions on the file tables | checked, proved |
| `FileService` (extends `VersionStore`, `FileContent`) | all file mutations, path locks, failures, crashes | checked, proved except liveness |
| `FileRegister` (extends `PathTree`) | abstract: a versioned compare-and-swap register per path | `FileService` refines it: checked, proved |
| `FileContent`, `FileEdits` | range and resize arithmetic; one edit of a file | checked, proved |
| `LockManager` | expiring advisory locks | checked, proved |
| `CleanupRunner` | timer, triggers, close | checked (in `FileJanitor`), proved |
| `DatabaseMaintenance` (extends `CleanupRunner`) | checkpoints, backups, trimming | checked, proved except liveness |
| `FileJanitor` (extends `CleanupRunner`) | the three janitors | checked, proved except liveness |
| `BuildService` (extends `CleanupRunner`) | jobs, unit locks, slots, clean-up | checked, proved except liveness |
| `BuildCommands` | build tool, target, bounded log | checked, proved |
| `DeviceRegistry`, `ControlPlane` | the registry's statements; the calls that make them | checked, proved |
| `TlsArtifacts`, `DatabaseRestore`, `ServerRuntime` (each extends the one before) | TLS files; restore; processes | checked, proved except liveness |
| `PathRules`, `AccessBundle` | paths of requests, join bundles | checked, proved |
| `AppConfig`, `Recorder` | configuration, counters | checked, proved |
| `MCFileService`, `MCControlPlane`, `MCBuildService`, `MCServerRuntime`, `MCAlgorithms` | instances for TLC | |

The proofs are in `FileService_proofs` (with `VersionStore` and `FileRegister`),
`Services_proofs` (`ControlPlane` and `LockManager`), `FileJanitor_proofs` (with
`CleanupRunner`), `DatabaseMaintenance_proofs`, `BuildService_proofs`,
`ServerRuntime_proofs` and `Algorithms_proofs`; `FiniteFacts` has the lemmas about least
numbers, finite sets, sums and ranks that several of them use.

Worth doing next: `ListChangedFiles` against the clock of the file system; the client's
retries on top of `LockManager`, with lost answers.

## 3. The modules

Every module that models code holds, next to some definitions, a variant marked `Mutant`.
It is what a plausible mistake in that code would look like. Nothing uses it: it records
which mistake each property tells apart.

**VersionStore.** `meta`, `head` and `ver` are the tables. The database has one connection
(`SetMaxOpenConns(1)`), so `SaveFileSnapshot`, `AppendDeleteSnapshot`, `RenamePathTree` and
`SetMeta` are one action each; a transaction that fails is rolled back and is the absence
of its action. A hash stands for the content it was computed from, so size, hash and data
are one field. `RenamePathTree` moves the rows of a whole subtree and merges them with the
rows that deleted files have left at the target, guarded by the primary keys
(`KeyConflict`). The initial states contain paths whose history is older than
`file_head` (`LegacyRow`); a database with only `meta` rows, from before versions were
kept, is not among them.

**FileContent, FileEdits.** `applyRangeMutation` and `resizeFileData` (which build conflict copies)
against what `WriteAt`, `SetFileSize` and `ReadAt` do to a file, with `int64` replaced by
`0..MaxInt` and wrapping addition.

**FileService.** One handler per request. `Begin` takes a request, `Acquire` one mutex of
`PathLocker` at a time in sorted order, and then one action per system call or database
statement: `ResolveLatest`, `ResolveMeta`, `ResolveStat` (the three reads of
`ResolveFileHead`), `Conflict` (with the trimming of copies), `SkipWrite`, `WriteDisk`,
`ReadBack`, `Commit`; `RemoveDisk`, `CommitDelete`; `RenameDisk`, `RenameRows`, `Revert`;
`MkdirDisk`, `RecordDir`; `Finish` releases the locks. Each of these may fail as the code
lets it, `Crash` ends all handlers and keeps disk and database, and `DropOldestCopy` is the
expiry of conflict copies. `MkdirAll` and the write that follows it are one step. The root
itself (`.`) is not among the paths. `tainted` is a history variable: the paths for which
the code is known to let disk and database part (a failed or interrupted mutation, a
rename that replaced a file, a directory renamed above a request in flight). The
invariants are about all others. In particular `AcknowledgedIsOnDisk` says nothing of a
path whose last transaction failed: the disk then has the new bytes and the meta row the
old hash, and a write of the old bytes is acknowledged as a no-op. A conflict of which no
copy can be made is answered by the range and size handlers without a copy, and is an error
of `WriteFile` (`WithoutCopy`); a `Stat` that fails in the no-op check counts as a missing
file, so that the write goes ahead (`IsToWrite`).

**FileRegister.** What a client sees of a path: an accepted write is one compare-and-swap
on the version and applies to the content recorded last, or, where nothing is recorded, to
what another program may have put there (`Strays`). A rename moves the registers of a whole
tree in one step. A register is lost, for good, when disk and database part at its path;
`FileService` maps the paths of `tainted` to lost registers, and only them.

**LockManager.** `locks` is the manager's map, `view` the `expire_at` (whole seconds) each
client was given last. `Duration` is the multiplication of `ttl_seconds` in a signed width.
Calls that are refused change nothing and are not actions.

**CleanupRunner.** Times are relative to now: `wait` is `scheduledAt - now`, `since` is
`now - lastRun`. So there is no last moment and liveness can be stated. `due` and `owed` are
history variables: what the last run asked for, and whether a trigger has come since the
last run began.

**DatabaseMaintenance.** The runner's goroutine and the handlers of `TriggerServerBackup`
go through the steps of `run` and `BackupNow` concurrently. The clean-up is split where the
code is: listing, sorting (which calls `os.Stat` again), one removal at a time. The order
`Before` is what the insertion sort that `sort.Slice` uses for short lists makes of the
comparison. `files` has the order of the modification times and `names` that of the names:
the first backup of a second has the plain name of that second, later ones add the
nanoseconds and sort before it (`Named`). A `VACUUM INTO` that fails may leave a part of
its file (`LeavesPart`), which every later clean-up lists. The manager's `Trigger` has no
caller in the server, so the model does not take it.

**FileJanitor.** The run of a janitor is split where other goroutines can act: the listing,
each removal, the line that it logs. `since` ticks lie between the time the run was given
and now. A file may be written again between its listing and its removal, and is then
removed all the same, as in the code. With `OwnLines` the janitor is the one of log files,
which every logged line triggers, its own included. Which names match (patterns, prefixes,
conflict names) is abstracted: all files of the model match. The artifact janitor measures
directories; here an item has a size. Ages past the retention are alike and are capped;
without a retention only their order counts, and they are not.

**BuildService.** `StartBuild` puts a job into the map, `TriggerCleanup` is the trigger that
follows it, and the goroutine `runBuild` is `LockUnit`, `TakeSlot`, `MakeWorkDir`,
`RunBuild`, `TriggerCleanup` and `Release`. `cleanupJobs` is `Snapshot` (under the lock of
the map), `LimitBytes` (without it), `DeleteJobs` (with it), `RemoveDir` (without it) and
`Return`. `GetBuildStatus` is what a client would be told; `GetBuildProduct` is two steps,
`FindProduct` under the locks and `ReadProduct` without them, and `fetching` has the jobs
between the two.
**BuildCommands** has the choice of the tool, the resolution of the target and the log with
its truncation marker. Names that differ in case only are `[key, form]` records with the
same key.

**DeviceRegistry, ControlPlane.** The registry has one operator per statement or
transaction; `ControlPlane` lets calls of devices and administrators go from statement to
statement. An answer may be lost, a statement may fail, and the process may end. `held` is
what the device has got, `handed`, `listed`, `heard` and `raced` are history variables.
Devices report times of their own clock, which differs from the server's by at most `Skew`.

**TlsArtifacts, DatabaseRestore, ServerRuntime.** Server processes with a state directory
each share a database and TLS files. `Start` is `StartServer` (service lock),
`TakeDatabaseLock`, `OpenDatabase`, `EnsureCertificate`, `WriteArtifact` per file,
`LoadCertificate` and `Listen`; `FailedStart` is what it gives back when a step fails;
`Stop`, `StopTimeout`, `ServeReturns`, `ReleaseDatabaseLock` and `CloseAndExit` are the way
down, in the order of `cleanup`. The database is a number of commits, in the main file and,
until a checkpoint, in the write-ahead log; the close of the last connection copies the log
(behaviour of SQLite, external). A process whose files a restore has removed goes on with
files that are no longer in the directory and touches the live ones no more. `windows`
tells the two builds apart: lock files that end with their process, or stay (`Stale`); open
files that cannot be removed, or can. A key pair is a number. A start writes TLS files in
place, so a death leaves a torn file; a rotation writes a temporary file, removes and
renames, so a death leaves none. A rotation first copies the files it finds to an archive
directory; a failure there ends it before anything is written and is not an action.

**AppConfig, AccessBundle, PathRules, Recorder.** Pure functions with the property they are
meant to have. `AppConfig` keeps all paths and one setting of each kind (a positive number,
a limit, a number of copies, a list). A path is the sequence of its components, so that
`JoinConfigPath` does what `joinConfigPath` does with a leading `./` and with `path.Clean`;
`Place` is where a path leads from a working directory, component by component, and the
reference that `LiesInBase` compares with. `AccessBundle` follows a configuration through
`BuildControlPlaneConfig`, `IssueJoinBundle` (and the command line that fills in the TLS
name), the connection code and the import to the address that is dialled and the options of
the connection. `Admits` is the handshake, with the name that is verified against the names
of the certificate, and the server's check of the secret. `PathRules`
has paths as sequences of components, as on systems without drive letters, and names that
are equal or not: a file system that folds case, as on Windows, is outside of it. In `Recorder` the
time of a write is taken before the mutex, so times may go back.

## 4. The runs

| Run | Configuration and bounds | Shows |
|---|---|---|
| `file_service` | two directories with a file each, 2 handlers, 3 requests, 1 failure or crash; tracked, untracked and old files at start | `DiskMatchesDatabase`, `BaseStillCurrentAtCommit`, `NoCircularWait`, `AcknowledgedIsOnDisk`, `ConflictCopyKept`, `HistoryContiguous`, `MetaIsNewestSnapshot`, `HistoryPreserved`, `VersionsAdvance`, `ImplementsRegister` |
| `requests_end` | 3 handlers, 4 requests, 1 failure | `EveryRequestEnds` |
| `algorithms` | contents to 2 bytes, offsets to 7 (past the overflow); 5 small writes to each of 2 paths, 6 durations in a ring of 3; paths of 5 components; every combination of absent, blank and set paths with 6 forms of the data root; lists of 2 targets; listen addresses of 7 kinds, with and without TLS, certificate and names; a log of 7 bytes with a limit of 4 | `CopyShowsTheEdit`, `SnapshotIsExact`, `PathsHaveOneForm`, `ConfigurationsSettle`, `PathsLieInBase`, `TargetsAsAsked`, `BundlesConnect`, `LogEndsRight` |
| `maintenance` | one manual backup, then scheduled ones; keep 1, checkpoint every 2, backup every 1, 2 failures | `LimitAfterBackup`, `OverdueIsRun` |
| `janitors` | interval 2, retention 1, limit 2, 2 names, 3 writes, 1 failure | `DueHonoured`, `OldestGoAndLimitHolds`, `TriggerServed`, `CloseReturns`, `ExpiredRemoved` |
| `lock_manager` | 3 clients, half-second ticks, ttls 0, 1, 2 and one that overflows | `ViewIsHeld` |
| `control_plane` | 1 device, 2 policies, 4 calls of which 2 at a time, 1 failure or crash, clocks 1 apart | `RevisionNamesPolicy`, `PulledIsCurrent`, `NoActionSwallowed`, `OnlineStateTimely` |
| `build_service` | 2 units, 1 slot, 2 jobs, 1 job and 1 byte retained, 1 failure | `BuildsApart`, `LiveBuildKept`, `KnownProductReadable`, `LimitsHold`, `EveryJobEnds` |
| `server_lifecycle` | 2 servers, both builds, three budgets: a request, a commit and a restore over 2 starts with 2 faults; a rotation over 2 starts with 1 fault; 2 expiries over 3 starts with 2 faults | `DatabaseServedAlone`, `RestoreKeepsOriginal`, `ClientsKeepTrust`, `StartsAndStopsEnd` |
| `rename_clobber`, `backup_schedule`, `backup_overlap` | the smallest instance; of `backup_overlap` two manual backups at once and 1 failure | disagreements, section 6 |

Why the bounds are enough to be of interest: two handlers and four paths give every pair of
operations in every interleaving of their steps, the third request meets what the first two
left behind (a deleted path with history, a conflict copy, a directory), three handlers can
wait for one another in a longer circle, and one failure or crash falls between any two
steps. Versions to 3 with four paths allow a history to be moved onto another one and to
grow again. In `maintenance` the schedule starts with the manual backup (section 6), every
later clean-up has a file to remove, and failures leave more than the limit, a partial file
among them; backups never overlap there, `backup_overlap` is about those that do. In
`janitors` both limits are exceeded by two files and a file can be written again while it is
being removed. In `control_plane` two calls overlap in every order and two more come before
or after them: an update between any two statements of a pull, an action between the listing
and the marking of a heartbeat. In `build_service` the second job waits for the unit or for
the slot of the first, and either is over a limit when both are done. In `server_lifecycle`
two faults let a start or a restore fail and a process die; a third start meets what both
have left.

Deadlock is not checked in the runs whose bounded events run out (`algorithms`, `janitors`,
`control_plane`, `build_service`, `server_lifecycle`): there the system may stop when nobody
asks for anything more.

Fairness. `requests_end` assumes that a goroutine that can run does (`WF` of its steps) and
that a handler at a free mutex gets it eventually. Handlers serve a bounded number of
requests, so the second needs no more than that a mutex wakes a waiter. The runs with the
runner assume that a run goes on, that time passes and that ready cases of `select` are taken;
`Stop` has strong fairness because `select` chooses among ready cases at random.
`build_service` assumes besides that the commands of a build end, which the code does not
enforce: `runCmd` waits without a limit. `server_lifecycle` assumes that the goroutines of a
process go on (`WF` of `Advance`) and nothing of its requests: one may never end. Nothing is
assumed of clients: no fairness on `Trigger`, `Close`, `Begin`, `StartBuild` or `BackupNow`,
and none on failures.

## 5. What is proved

TLAPS checks these for every value of the constants that the named assumptions allow: any
paths, contents, handlers, requests, intervals and ttls. The bounds of the model checking
(`MaxVersion`, `MaxRequests`, `MaxTime`, ...) are constants like the others.

- `FileService_proofs`, the database. `DBInv` says of each path separately that it is `Good`:
  there is an `n` such that the version rows are exactly `1..n`, `n` is what `file_head`, or
  without a row the rows and the meta row, give as the current version, and the meta row
  agrees with row `n`. `HistoryContiguous` alone is not inductive: the next number comes from
  `file_head`, and a rename takes the three tables of a path along. A rename keeps `Good`
  because the primary keys leave only one side with rows. The theorems `DBTypeCorrect`,
  `ContiguousHistory`, `MetaFollowsHistory`, `UntrackedHistory`, `HistoryIsPreserved` and
  `VersionsNeverGoBack` follow.
- `FileService_proofs`, the handlers. `ServiceImplementsStore`: every step of the services is
  a step of `VersionStore` or leaves the tables alone, so that the theorems above hold of the
  concurrent server (`ServiceKeepsHistory`). `LockInv` (who owns a lock has passed it in the
  order of its request) gives `MutualExclusion`, and `NeverCircular`: of all handlers that
  wait for a lock take one whose next lock has the highest rank; its owner waits for nothing.
  The assumptions: contents are closed under the mutations of the requests
  (`ContentsClosed`), `Rank` orders the paths and has a last one, and the directories
  above a path are paths too (`PathsClosed`).
- `FileService_proofs`, disk and database. `AgreeInv` has five parts: the stage of a handler
  belongs to its operation (`StageInv`); the disk is a tree; paths that requests race for
  are tainted; what a handler has read, written or moved still is so (`HandlersInv`); and
  disk and tables agree at every path that is not tainted and that no handler has left half
  done. The argument is about the paths a handler owns, the one it has locked or, for a
  rename, both trees (`Isolation`): others cannot touch them unless a rename of a directory
  above is in flight, and then the path is tainted. `DiskAndDatabaseAgree`, `NoLostUpdate`,
  `AcknowledgedWritesAreOnDisk` and `ConflictCopiesAreKept` follow; the first three are
  about paths that are not tainted, the last about replies that name a copy.
- `FileJanitor_proofs`. To `DueHonoured` the invariant of the runner adds where the timer can
  stand before the interval is over; `ThrottledRuns` needs that. `JanitorInv` says what a pass
  knows between its steps, in which files are written and time passes: those it keeps are on
  disk and younger than all others that it listed (`OldestGone`), those it removed come back
  only as files written since (`Accounted`), and no kept file reaches the bound of its age
  while the pass lasts (`KeptYoung`, without which the order could change).
  `OldestGoFirst` follows. `JanitorIsRunner` is the refinement of the runner: the time for
  which a pass asks is one that the runner's specification allows, so that
  `JanitorsRunInTime` follows from the theorems about the runner.
- `FileService_proofs`, the register. `ServicesAreRegisters` is the refinement of
  `FileRegister`, for any tree of paths, with failures and crashes. The commit of a write is
  the compare-and-swap: `HandlersInv` has it that the version compared is still current and
  that the disk still holds what was written, and disk and tables agreed before it. A
  transaction that moves rows is the move of the registers, and a path that becomes tainted
  loses its own. Where nothing is recorded the write applies to what is on disk, which is
  empty or foreign: the server leaves no file that it has not recorded (`Explained`, now a
  part of `DiskMatchesDatabase`, which the refinement needs).
- `Services_proofs`, the locks. `ViewIsHeld` is not inductive, because time passes: `ViewBounded`
  says that the client's `expire_at` is at most the manager's time rounded down.
- `DatabaseMaintenance_proofs`. `LimitAfterBackup` is false while two backups are made at
  once, so `LimitIsKept` supposes that none are (`OneAtATime`, which the code does not see
  to), for any number of callers, backups, files and failures. `TrimInv` says what is in the
  directory at each step of a clean-up: what it still has to remove are exactly the oldest
  files beyond the limit. That the comparison orders all files by age then gives what the
  insertion sort returns. `MaintenanceIsRunner` is the refinement of the runner and needs no
  such supposition; its `DueInv` bounds the time for which `run` asks by `MaxDelay`, which
  neither interval exceeds.
- `BuildService_proofs`. `BuildInv` says what a job has at each statement of `runBuild` (the
  lock of its unit from waiting for a slot on, a slot from running on, both until they are
  given back) and that the slots are bounded; `BuildsKeptApart` follows. `KeepInv` says what
  the clean-up has to rely on between its steps: the jobs it chose have ended, and it has
  forgotten them before it touches a directory; `LiveBuildsKept` follows, and with
  `FetchInv` (a job whose product is fetched has ended) `ProductsReadable`. `LimitInv` says how far
  the clean-up has come with the limits, as long as nobody has sent or is about to send a
  trigger: a build that ends meanwhile will trigger another clean-up, and voids what this
  one has found. `LimitsAreKept` follows; the count and the bytes are sums over finite sets,
  for which `FiniteFacts` has the lemmas. `CleanupIsRunner` is the refinement of the runner.
  The assumption is `BuildAssumption`, which the constructor's defaults establish.
- `Services_proofs`, the control plane. `RevisionNamesPolicy` is not inductive, because an answer is under
  way for a while: `RevisionBehind` says of every device without overlapping updates that
  what it holds, and what a call has read for it, is not newer than the row, and is the
  policy of the row if it has its number. An update then takes a number nobody has.
  `PulledIsCurrent` needs only where a `GetAssignedConfig` may be. `ActionsInv` adds to
  `NoActionSwallowed` that no action lies in the future. `OnlineStatesAreTimely` needs
  `ClockInv`: what the registry last heard of a device is, within the skew of its clock, when
  it was heard. The assumptions are those of the registry and that every request names a
  device.
- `ServerRuntime_proofs`. `LockInv` says how long the lock file of the database is held: by a
  server from the step of `Start` that takes it to the step of `cleanup`, or of a failed
  `Start`, that releases it, and by a restore until its deferred release. `ServedAlone`
  follows. That a process still has the database open after it released the lock
  (`cleanup` closes it last) is not excluded by it: it has stopped serving by then.
  `RestoreInv` says where the rows that a restore found are at each of its steps, and on its
  way back; `RestoreIsSafe` follows. `TrustInv` says which of the TLS files are whole and
  signed by the root that the clients have, at each step of a start; `TrustIsKept` follows.
  `IdleAssumption` says that `Idle`, which stands for no process, is not itself a command.
- `Algorithms_proofs`. What the functions of the `algorithms` run compute, for inputs of any
  length. The provers have no induction over data, but they know that a set of numbers that
  is not empty has a least element: a statement about all prefixes of a sequence is proved of
  the set of the lengths for which it holds. A recursive function is a CHOSEN one, so
  `StepFunction` first shows that a function with these steps exists. The results are
  `CopiesShowEdits` (with `EditInv`; the file and its copy byte by byte, `int64` wrapped at
  any width), `LogsEndRight` (the log is always the end of what was written), `BuildsAsAsked`,
  `PathsAreNormalized` (a path is cleaned by the walk it describes, and two paths to one
  place come out the same) and `IssuedBundlesConnect`. These last three are about all inputs;
  `TargetsAreAsAsked`, `PathsNormalized` and `BundlesReach` state them of the run's.
  `IssuedBundlesConnect` says when a device gets in: if and only if TLS is announced by a
  server that speaks it and the name that is verified is one of the certificate's, which
  holds without any setting for a bundle from the command line of a server that listens on
  no name or its own. A secret without TLS is sent to loopback, or to the host that the
  operator named. `LoadingSettles` says that a configuration settles, for any file and
  environment of typed settings; that default lists have no blank and no double
  keys (`ListAssumption`) is what the defaults of the code satisfy. `DerivedPathsLieInBase`
  says where the paths lead that nobody set: into the data root or the state directory,
  unless that is written as `./` (section 6). `PathsDoLieInBase` and
  `ConfigurationsDoSettle` state these two of the run's. What remains of `Algorithms_proofs` is
  about a state: `RingInv` says that the ring of a sampler holds, up to `next`, the latest
  durations and after it those of the round before, so that turning it gives
  the same counts; `BurstsInv` that the window of a path is the series of writes under way.
  A sorted list is given by ranks, and `FiniteFacts` shows that in a finite ordered set
  every rank is taken once. `SnapshotsAreExact` follows, for any size of ring and burst.

What the attempts have changed. `Explained` became a part of `DiskMatchesDatabase`. The
histories of `Recorder` are kept for each path, and its lists sorted by ranks, because the
provers cannot take apart a sort that has an operator as its parameter. `AgreeInv` was not
inductive before `RenameRows` carried along what `tainted` says of the paths that move: a
path on which disk and tables part takes that with it when its rows move, and not only when
its file does. `ClientsKeepTrust` fails when a server begins to serve while another process
is in the middle of a rotation; the root of such a server is not one that the clients are
said to have (`trusted`). With a retention of nought the capped ages of `FileJanitor` lost
the order of the files, which is a matter of the model and not of the code.

Only model-checked: liveness (`EveryRequestEnds`, `TriggerServed`, `CloseReturns`,
`OverdueIsRun`, `ExpiredRemoved`, `EveryJobEnds`, `StartsAndStopsEnd`), which is out of the
prover's reach, and the three disagreements of section 6, which are counterexamples. Every
safety and action property of the runs that pass is a theorem, `LimitAfterBackup` under the
supposition above.

## 6. Where code and documents disagree

Three disagreements have a run:

- `rename_clobber`: a rename onto a recorded file replaces it on disk before the transaction
  refuses the move; moving back leaves a `meta` row of a file that is gone.
- `backup_schedule`: `docs/OPERATIONS.md` says that checkpoints and backups run on the
  configured interval. What has never happened is due "an interval from now" each time the
  manager looks, so nothing is scheduled until the first `TriggerServerBackup` after a start.
- `backup_overlap`: the same page says that backups "keep only the newest
  `backup_keep_latest` files". The clean-ups of two backups may run at the same time. A file
  that one has removed makes the other's comparison fall back to names in ascending order; it
  counts as kept, and the newest backup is removed instead (`database_maintenance.go:256`).
  With `backup_keep_latest` 1 no backup may be left.

Others were met while modelling and bound what the properties say:

- An empty file has a version and no `version_blob`, so `GetVersion` fails for it
  (`db/version.go:358`), though the API reference promises the bytes of the version.
- After a transaction that failed the disk has bytes that the meta row does not know
  (`sync_service.go:177`). Nothing reconciles them, and the next write of the recorded bytes is
  acknowledged without being made; `tainted` marks these paths.
- The configuration reference (`docs/encyclopedia/03-config-and-env-reference.md:22`) says
  that the default storage paths are derived under the data root. `joinConfigPath`
  (`config.go:528`) takes a leading `./` away before it appends a slash: of the data root
  `./` nothing is left, and the database is `/roodox.db`. `PathsLieInBase` leaves this
  spelling out; the run has it among its data roots.
- A reply to a heartbeat that is lost, or a crash after its actions were marked, takes the
  actions with it (`control_plane_service.go:149`); `NoActionSwallowed` is about being put
  into an answer.
- A file that the janitor of artifacts or of conflict copies could not remove waits for the
  next file of its kind (`file_janitors.go:261`); `ExpiredRemoved` is about the log janitor.
- A directory is renamed while a write beneath it is between its disk step and its
  transaction (`Rename` locks the two paths it names, not the tree), and the write is then
  recorded under a path that no longer exists. `file_service` reaches it and records it in
  `tainted`.
- `docs/OPERATIONS.md:291` says that a restore "replaces the live DB atomically". The code
  removes the log and the database before it renames the staged copy; a death in between
  leaves the safety copy only, and the next start makes an empty database.
- The safety copy is of the main file. After a forced stop or a crash rows are still in the
  log, and a restore removes the log: `RestoreKeepsOriginal` is about restores that find the
  log empty. `cleanup` also releases the lock of the database before it closes the database,
  so that, except on Windows, a restore in this window loses the rows in the log.
- Two updates of a device's policy that overlap get the same revision, and a device that
  pulled between them is told of no change; `raced` marks these devices.
- Outside Windows a lock file outlives a process that was killed, and every later start is
  refused until somebody removes it. A torn TLS file likewise blocks every start: it is an
  error and not a reason to write a new one.
- `hasValidTLSArtifacts` does not ask for the root's key. When it is missing the next
  renewal makes a new root, which no client trusts; a rotation of the root that dies between
  its files leaves a pair that does not match. Neither happens in the runs before a server
  has served with whole files and without a rotation of the root.
- A work directory whose removal fails is forgotten and stays (`build_service.go:488`), as
  does one whose server died.
- A second target of a build that differs from another in case only is hidden by
  `dedupeSortedTargets`: who asks for it builds the other one.

## 7. Not modelled

The analysis heuristics, the preflight check, log formatting, the QA drivers, generated
protocol code, the in-memory stores that the server does not use, the desktop workbench and
the scripts have no state that another part depends on. Listings and status snapshots are
reads. Of SQLite and of the file system the models have what the code relies on; of TLS and
x509 which pair signed which. SQLite's `LIKE` ignores the case of ASCII letters, so on a
case-sensitive disk a rename may move the rows of a path that differs only in case: the
paths of the model differ in more than case. Ignore rules, file hashes (a hash stands for its
content) and `ListChangedFiles`, which compares times of the file system in whole seconds,
are left out.
