------------------------ MODULE DatabaseMaintenance ------------------------
(***************************************************************************)
(* databaseMaintenanceManager: checkpoints and backups of the database,    *)
(* made by the runner's goroutine when they are due and by the handlers of *)
(* TriggerServerBackup (BackupNow) at any time, concurrently.              *)
(*                                                                         *)
(* Each actor goes through the steps of run or of BackupNow.  A backup     *)
(* file is an id; files lists the ids in the order of their modification   *)
(* times, names in that of their names.  Ages are times relative to now,   *)
(* as in CleanupRunner.                                                    *)
(***************************************************************************)
EXTENDS CleanupRunner, Sequences, SequencesExt

CONSTANTS
    Callers,            \* handlers of TriggerServerBackup
    CheckpointInterval, \* in ticks, 0 when checkpoints are not configured
    BackupInterval,     \* in ticks, 0 when backups are not configured
    KeepLatest,         \* backup_keep_latest, 0 for no limit
    MaxFiles,           \* bound: ids of backup files
    MaxFaults,          \* bound: failing steps
    MaxCalls,           \* bound: calls of TriggerServerBackup
    Never,              \* the age of what has not happened (LastBackupAtUnix = 0)
    Runner              \* the actor that is the runner's goroutine

\* newDatabaseMaintenanceManager gives the runner the interval 0, and has one
\* only if something is configured.
ASSUME MaintenanceAssumption ==
    /\ Interval = 0 /\ Runner \notin Callers /\ Never \notin Int
    /\ CheckpointInterval \in Nat /\ BackupInterval \in Nat
    /\ CheckpointInterval > 0 \/ BackupInterval > 0
    /\ CheckpointInterval <= MaxDelay /\ BackupInterval <= MaxDelay
    /\ KeepLatest \in Nat /\ MaxFiles \in Nat /\ MaxFaults \in Nat
    /\ MaxCalls \in Nat

Actors == Callers \cup {Runner}
Ids == 1..MaxFiles

VARIABLES
    checkpointAge,  \* now - LastCheckpointAtUnix
    backupAge,      \* now - LastBackupAtUnix
    files,          \* the backup directory, oldest first
    names,          \* the ids whose names matter, in the order of the names
    plain,          \* the id of the name made from the present second alone
    step,           \* actor -> its next step
    path,           \* actor -> the path nextBackupPath gave it
    pathAge,        \* actor -> now - createdAt
    matches,        \* actor -> the files that cleanupOldBackups works on
    nextDue,        \* run's nextDue, relative to run's now
    calls, faults
maintVars ==
    <<checkpointAge, backupAge, files, names, plain, step, path, pathAge, matches,
      nextDue, calls, faults>>
vars == <<runnerVars, maintVars>>

MaxAge == MaxDelay + MaxSince
Ages == 0..MaxAge
Steps == {"idle", "checkpoint", "due", "path", "create", "glob", "sort", "remove",
          "record", "return"}
TypeOK ==
    /\ RunnerTypeOK
    /\ checkpointAge \in Ages \cup {Never} /\ backupAge \in Ages \cup {Never}
    /\ files \in Seq(Ids) /\ names \in Seq(Ids) /\ plain \in Ids
    /\ step \in [Actors -> Steps] /\ path \in [Actors -> Ids]
    /\ pathAge \in [Actors -> Ages] /\ matches \in [Actors -> Seq(Ids)]
    /\ nextDue \in {None} \cup 1..MaxAge
    /\ calls \in 0..MaxCalls /\ faults \in 0..MaxFaults

----------------------------------------------------------------------------
Init ==
    /\ RunnerInit
    /\ checkpointAge = Never /\ backupAge = Never
    /\ files = << >> /\ names = << >> /\ plain = 1
    /\ step = [a \in Actors |-> IF a = Runner THEN "checkpoint" ELSE "idle"]
    /\ path = [a \in Actors |-> 1] /\ pathAge = [a \in Actors |-> 0]
    /\ matches = [a \in Actors |-> << >>]
    /\ nextDue = None /\ calls = 0 /\ faults = 0

Goto(a, s) == step' = [step EXCEPT ![a] = s]

\* A backup of a caller ends with its answer, that of run with its result.
End(a) ==
    /\ Goto(a, IF a = Runner THEN "return" ELSE "idle")
    /\ matches' = [matches EXCEPT ![a] = << >>]
    /\ path' = [path EXCEPT ![a] = 1] /\ pathAge' = [pathAge EXCEPT ![a] = 0]

\* run(now) begins with a run of the runner.
Starts(A) ==
    /\ A
    /\ IF phase # "running" /\ phase' = "running"
       THEN Goto(Runner, "checkpoint") /\ nextDue' = None
       ELSE UNCHANGED <<step, nextDue>>
    /\ UNCHANGED <<checkpointAge, backupAge, files, names, plain, path, pathAge,
                   matches, calls, faults>>

BackupNow(c) ==
    /\ step[c] = "idle" /\ calls < MaxCalls
    /\ calls' = calls + 1
    /\ Goto(c, "checkpoint")
    /\ UNCHANGED <<runnerVars, checkpointAge, backupAge, files, names, plain,
                   path, pathAge, matches, nextDue, faults>>

\* Mutant: the interval counts from the run, not from the last time.
DueAfterNow(interval, age) == IF interval = 0 THEN None ELSE interval

\* nextCheckpointDue, nextBackupDue: the due time relative to the run's now
\* (which lies `since' ticks back).  What has not happened yet is due an
\* interval from now, whenever it is asked.
DueAfter(interval, age) ==
    IF interval = 0 THEN None
    ELSE IF age = Never THEN interval
    ELSE interval - (age - since)
DueNow(interval, age) ==
    interval > 0 /\ age # Never /\ DueAfter(interval, age) <= 0
\* The time run takes for its next one: what ran is due an interval from now.
NextAfter(interval, age) ==
    IF DueNow(interval, age) THEN interval ELSE DueAfter(interval, age)

\* earliestTime
Earliest(s, t) == IF t = None THEN s ELSE IF s = None \/ t < s THEN t ELSE s

\* checkpointNow: always in BackupNow, in run when it is due.  Its error is
\* recorded and ignored.
Checkpoint(a) ==
    LET runs == a \in Callers \/ DueNow(CheckpointInterval, checkpointAge)
    IN  /\ step[a] = "checkpoint"
        /\ Goto(a, IF a = Runner THEN "due" ELSE "path")
        /\ IF a = Runner
           THEN nextDue' = Earliest(nextDue, NextAfter(CheckpointInterval, checkpointAge))
           ELSE UNCHANGED nextDue
        /\ \/ checkpointAge' = (IF runs THEN 0 ELSE checkpointAge) /\ UNCHANGED faults
           \/ /\ runs /\ faults < MaxFaults
              /\ faults' = faults + 1 /\ UNCHANGED checkpointAge
        /\ UNCHANGED <<runnerVars, backupAge, files, names, plain, path,
                       pathAge, matches, calls>>

\* The second half of run: nextBackupDue.
BackupDue ==
    /\ step[Runner] = "due"
    /\ nextDue' = Earliest(nextDue, NextAfter(BackupInterval, backupAge))
    /\ Goto(Runner, IF DueNow(BackupInterval, backupAge) THEN "path" ELSE "return")
    /\ UNCHANGED <<runnerVars, checkpointAge, backupAge, files, names, plain,
                   path, pathAge, matches, calls, faults>>

Return ==
    /\ step[Runner] = "return"
    /\ Finish(IF nextDue = None THEN None ELSE nextDue - since)
    /\ Goto(Runner, "idle") /\ nextDue' = None
    /\ UNCHANGED <<checkpointAge, backupAge, files, names, plain, path, pathAge,
                   matches, calls, faults>>

----------------------------------------------------------------------------
(* backupNow                                                               *)

\* Ids of files, of files to be made, and of files some clean-up has listed.
InUse == ToSet(files) \cup {path[a] : a \in {b \in Actors : step[b] = "create"}}
           \cup UNION {ToSet(matches[a]) : a \in Actors}
NewId(used) == CHOOSE i \in Ids \ used : TRUE

\* nextBackupPath: the name of this second, with nanoseconds if it exists;
\* that one comes before the name of the second alone ("-" before ".") and
\* after all others.
Named(i, isPlain) ==
    LET others == SelectSeq(names, LAMBDA n : n \in InUse \ {plain, i})
    IN  others \o (IF isPlain THEN <<i>> ELSE <<i, plain>>)

NextBackupPath(a) ==
    /\ step[a] = "path"
    /\ LET free == plain \notin ToSet(files)
           i == IF free THEN plain ELSE NewId(InUse \cup {plain})
       IN  path' = [path EXCEPT ![a] = i] /\ names' = Named(i, free)
    /\ pathAge' = [pathAge EXCEPT ![a] = 0]
    /\ Goto(a, "create")
    /\ UNCHANGED <<runnerVars, checkpointAge, backupAge, files, plain, matches,
                   nextDue, calls, faults>>

\* BackupInto, which refuses a destination that exists.
BackupInto(a) ==
    /\ step[a] = "create"
    /\ IF path[a] \in ToSet(files)
       THEN End(a) /\ UNCHANGED files
       ELSE /\ files' = Append(files, path[a])
            /\ Goto(a, IF KeepLatest = 0 THEN "record" ELSE "glob")
            /\ UNCHANGED <<path, pathAge, matches>>
    /\ UNCHANGED <<runnerVars, checkpointAge, backupAge, names, plain, nextDue,
                   calls, faults>>

\* cleanupOldBackups lists the directory (in the order of the names, which Sort
\* knows: the list is kept in that of files),
Glob(a) ==
    /\ step[a] = "glob"
    /\ IF Len(files) <= KeepLatest
       THEN Goto(a, "record") /\ UNCHANGED matches
       ELSE Goto(a, "sort") /\ matches' = [matches EXCEPT ![a] = files]
    /\ UNCHANGED <<runnerVars, checkpointAge, backupAge, files, names, plain,
                   path, pathAge, nextDue, calls, faults>>

\* sorts the list: of two files the newer one goes first, but two files one of
\* which is gone by then go in the order of their names.  The list comes in
\* that order and sort.Slice is an insertion sort on lists this short, so that
\* no file moves in front of one that is gone and has the smaller name.
NotAfter(i, j) == \E x, y \in DOMAIN names : names[x] = i /\ names[y] = j /\ x <= y
Before(listed, i, j) ==
    LET gone == {k \in DOMAIN listed : listed[k] \notin ToSet(files)}
        Blocks(k) == Cardinality({g \in gone : NotAfter(listed[g], listed[k])})
    IN  \/ Blocks(i) < Blocks(j)
        \/ Blocks(i) = Blocks(j) /\ j \notin gone /\ (i \in gone \/ i > j)
SortMatches(listed) ==
    [k \in DOMAIN listed |->
       listed[CHOOSE i \in DOMAIN listed :
                Cardinality({j \in DOMAIN listed : Before(listed, j, i)}) = k - 1]]

\* Mutant: one file more than is to be kept survives.
KeepOneMore(a) ==
    /\ step[a] = "sort"
    /\ matches' = [matches EXCEPT ![a] =
                     SubSeq(SortMatches(@), KeepLatest + 2, Len(@))]
    /\ Goto(a, "remove")
    /\ UNCHANGED <<runnerVars, checkpointAge, backupAge, files, names, plain,
                   path, pathAge, nextDue, calls, faults>>

Sort(a) ==
    /\ step[a] = "sort"
    /\ matches' = [matches EXCEPT ![a] =
                     SubSeq(SortMatches(@), KeepLatest + 1, Len(@))]
    /\ Goto(a, "remove")
    /\ UNCHANGED <<runnerVars, checkpointAge, backupAge, files, names, plain,
                   path, pathAge, nextDue, calls, faults>>

\* and removes what comes after the first KeepLatest; a file that is gone is
\* no error.
RemoveNext(a) ==
    /\ step[a] = "remove"
    /\ IF matches[a] = << >>
       THEN Goto(a, "record") /\ UNCHANGED <<files, matches>>
       ELSE /\ files' = RemoveFirst(files, Head(matches[a]))
            /\ matches' = [matches EXCEPT ![a] = Tail(@)]
            /\ UNCHANGED step
    /\ UNCHANGED <<runnerVars, checkpointAge, backupAge, names, plain, path,
                   pathAge, nextDue, calls, faults>>

Record(a) ==
    /\ step[a] = "record"
    /\ backupAge' = pathAge[a]
    /\ End(a)
    /\ UNCHANGED <<runnerVars, checkpointAge, files, names, plain, nextDue,
                   calls, faults>>

\* A step of backupNow fails: setBackupError.  VACUUM INTO may have made its
\* file by then, which nothing removes and every clean-up lists.
LeavesPart(a) ==
    /\ step[a] = "create" /\ path[a] \notin ToSet(files)
    /\ files' = Append(files, path[a])

Fail(a) ==
    /\ step[a] \in {"path", "create", "remove"} /\ faults < MaxFaults
    /\ faults' = faults + 1
    /\ End(a)
    /\ LeavesPart(a) \/ UNCHANGED files
    /\ UNCHANGED <<runnerVars, checkpointAge, backupAge, names, plain, nextDue,
                   calls>>

----------------------------------------------------------------------------
Older(age) == IF age = Never THEN Never ELSE Sooner(age + 1, MaxAge)

HasPath(a) == step[a] \in {"create", "glob", "sort", "remove", "record"}

\* Time passes; the next second has a name of its own.
TimePasses ==
    /\ Tick
    /\ checkpointAge' = Older(checkpointAge) /\ backupAge' = Older(backupAge)
    /\ pathAge' = [a \in Actors |->
                     IF HasPath(a) THEN Older(pathAge[a]) ELSE pathAge[a]]
    /\ plain' = NewId(InUse)
    /\ UNCHANGED <<files, names, step, path, matches, nextDue, calls, faults>>

ActorStep(a) ==
    \/ Checkpoint(a) \/ NextBackupPath(a) \/ BackupInto(a)
    \/ Glob(a) \/ Sort(a) \/ RemoveNext(a) \/ Record(a)

\* Nothing in the server calls the manager's Trigger, so that the runner's
\* channel stays empty.
Next ==
    \/ \E a \in Actors : ActorStep(a) \/ Fail(a)
    \/ \E c \in Callers : BackupNow(c)
    \/ BackupDue \/ Return \/ TimePasses
    \/ Starts(TimerFires) \/ Starts(Close) \/ Starts(Stop)

\* Every goroutine goes on, time passes and a timer that went off is seen.
\* Nothing makes a client call TriggerServerBackup.
Fairness ==
    /\ \A a \in Actors : WF_vars(ActorStep(a))
    /\ WF_vars(BackupDue) /\ WF_vars(Return)
    /\ WF_vars(TimePasses) /\ WF_vars(Starts(TimerFires))
    /\ SF_vars(Starts(Stop))
Spec == Init /\ [][Next]_vars
FairSpec == Spec /\ Fairness

----------------------------------------------------------------------------
(* Properties.                                                             *)

\* The documented retention: backups keep the newest backup_keep_latest files
\* (docs/OPERATIONS.md), and so the newest of all.  cleanupOldBackups orders
\* its list while another one removes files of it, and a file that is gone
\* makes the order of two files that of their names.
NewestBackupKept ==
    [][KeepLatest > 0 /\ files # << >> => Last(files) \in ToSet(files')]_vars

\* A backup that is recorded as successful leaves at most backup_keep_latest
\* files, also those that an earlier clean-up or VACUUM INTO left when it failed
\* (backupNow).  It is about backups made one at a time: while one is made,
\* another one adds its file after the clean-up of the first.
LimitAfterBackup ==
    \A a \in Actors : KeepLatest > 0 /\ step[a] = "record" => Len(files) <= KeepLatest

\* Once there has been a checkpoint, or a backup, the next one is made when its
\* interval is over, whatever manual backups come between and whether or not
\* it succeeds (run, the runner's timer).
Attempted(interval, age) ==
    step[Runner] \in {"checkpoint", "due"} /\ DueNow(interval, age)
Overdue(interval, age) == interval > 0 /\ age # Never /\ age > interval
OverdueIsRun ==
    /\ Overdue(CheckpointInterval, checkpointAge)
         ~> \/ ~Overdue(CheckpointInterval, checkpointAge)
            \/ Attempted(CheckpointInterval, checkpointAge) \/ closing
    /\ Overdue(BackupInterval, backupAge)
         ~> \/ ~Overdue(BackupInterval, backupAge)
            \/ Attempted(BackupInterval, backupAge) \/ closing

\* The documented schedule: backups run on the configured interval as long as
\* the server runs (run, nextBackupDue).
BackupsRunOnInterval == []<>(Attempted(BackupInterval, backupAge) \/ closing)

============================================================================
