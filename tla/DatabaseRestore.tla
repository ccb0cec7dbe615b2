-------------------------- MODULE DatabaseRestore --------------------------
(***************************************************************************)
(* The SQLite database as files, and the offline restore of                *)
(* internal/db/restore.go, one action per step between which the process   *)
(* can die or another process can act.                                     *)
(*                                                                         *)
(* The contents of a database file are a number: 0 is the empty schema     *)
(* that db.Open creates, n is the state after the nth commit, and Backup   *)
(* is the content of the backup file.  The rows committed since the last   *)
(* checkpoint are in the write-ahead log only: `wal' is Absent, or the     *)
(* contents of the database with the log applied.                          *)
(***************************************************************************)
EXTENDS TlsArtifacts

CONSTANTS Backup,       \* the content of the backup file
          Idle,         \* no command of the operator is under way
          Free, Stale,  \* a lock file: not there; left by a process that died
          Operator,     \* the process that runs the operator's commands
          Budgets       \* bounds: how often each kind of event may happen

VARIABLES main, wal,    \* the database file and its write-ahead log
          safety,       \* the copy that a restore makes of the database file
          dbLock,       \* who holds the lock file of the database
          cmd,          \* the command under way: Idle, or its step and options
          attached,     \* processes that have the live database file open
          original,     \* ghost: the content that the last restore with a
                        \* safety copy must not lose, or Absent
          windows,      \* which build runs: lock files and open files differ
          budget        \* how often each of them may still happen

restoreVars == <<main, wal, safety, dbLock, cmd, attached, original, windows, budget>>

\* The rows that a reader of the database sees.
Content == IF wal # Absent THEN wal ELSE main

\* acquireResourceLock and acquireInstanceLock use the same file: on Windows a
\* handle that the system closes with the process, elsewhere a file created
\* with O_EXCL, which outlives it.
LockAfterDeath(holder, lock) ==
    IF lock = holder THEN (IF windows THEN Free ELSE Stale) ELSE lock

\* An event that is bounded; a fault is a system call that fails or a process
\* that is killed.
Spend(event) == budget[event] > 0 /\ budget' = [budget EXCEPT ![event] = @ - 1]
Fault == Spend("faults")

\* Release closes the handle and removes the file.  An error is logged or
\* ignored: on Windows the lock is free all the same, elsewhere the file stays.
Release(holder, lock, after) ==
    \/ after = Free /\ UNCHANGED budget
    \/ after = LockAfterDeath(holder, lock) /\ Fault

Goto(step) == cmd' = [cmd EXCEPT !.at = step]

At(step) == cmd # Idle /\ cmd.op = "restore" /\ cmd.at = step

\* RestoreFromBackup is called; with the lock taken elsewhere it returns.
BeginRestore(safe) ==
    /\ cmd = Idle /\ Spend("restores")
    /\ \/ /\ dbLock = Free
          /\ dbLock' = Operator
          /\ cmd' = [op |-> "restore", at |-> "validate", option |-> safe, copied |-> FALSE]
          /\ original' = IF safe /\ wal = Absent /\ attached = {} /\ main # Torn
                         THEN main ELSE Absent
       \/ /\ dbLock # Free
          /\ UNCHANGED <<dbLock, cmd, original>>
    /\ UNCHANGED <<main, wal, safety, attached, windows>>

\* validateSQLiteFile on the backup: nothing was touched yet when it fails.
ValidateBackup ==
    /\ At("validate")
    /\ \/ Goto("safety") /\ UNCHANGED budget
       \/ Fault /\ Goto("release")
    /\ UNCHANGED <<main, wal, safety, dbLock, attached, original, windows>>

\* A variant of CopySafety that ignores the error of copyFile.
CopySafetyUnchecked ==
    /\ At("safety")
    /\ \/ safety' = main /\ UNCHANGED budget
       \/ Fault /\ safety' = Torn
    /\ cmd' = [cmd EXCEPT !.at = "stage", !.copied = TRUE]
    /\ UNCHANGED <<main, wal, dbLock, attached, original, windows>>

\* copyFile of the database file, without its sidecars, to the safety path.
CopySafety ==
    /\ At("safety")
    /\ \/ /\ cmd.option /\ main # Absent
          /\ \/ /\ safety' = main /\ UNCHANGED budget
                /\ cmd' = [cmd EXCEPT !.at = "stage", !.copied = TRUE]
             \/ Fault /\ safety' = Torn /\ Goto("release")
       \/ /\ ~(cmd.option /\ main # Absent)
          /\ Goto("stage") /\ UNCHANGED <<safety, budget>>
    /\ UNCHANGED <<main, wal, dbLock, attached, original, windows>>

\* The backup is copied to a temporary file beside the database.
StageCopy ==
    /\ At("stage")
    /\ \/ Goto("sidecars") /\ UNCHANGED budget
       \/ Fault /\ Goto("release")
    /\ UNCHANGED <<main, wal, safety, dbLock, attached, original, windows>>

\* removeSQLiteSidecars.  Windows refuses to remove a file that is open;
\* elsewhere a process that still has it open goes on with a file no longer in
\* the directory.
RemoveSidecars(step, next, failed) ==
    /\ At(step)
    /\ \/ /\ ~(windows /\ attached # {})
          /\ wal' = Absent /\ attached' = {}
          /\ Goto(next) /\ UNCHANGED budget
       \/ /\ windows /\ attached # {}
          /\ Goto(failed) /\ UNCHANGED <<wal, attached, budget>>
       \/ Fault /\ Goto(failed) /\ UNCHANGED <<wal, attached>>
    /\ UNCHANGED <<main, safety, dbLock, original, windows>>

\* removeIfExists of the database file.
RemoveTarget(step, next, failed) ==
    /\ At(step)
    /\ \/ main' = Absent /\ Goto(next) /\ UNCHANGED budget
       \/ Fault /\ Goto(failed) /\ UNCHANGED main
    /\ UNCHANGED <<wal, safety, dbLock, attached, original, windows>>

\* os.Rename of the staged copy.  A failure is not rolled back.
RenameStaged ==
    /\ At("rename")
    /\ \/ main' = Backup /\ Goto("finalize") /\ UNCHANGED budget
       \/ Fault /\ Goto("release") /\ UNCHANGED main
    /\ UNCHANGED <<wal, safety, dbLock, attached, original, windows>>

\* finalizeRestoredDatabase opens and migrates the database and checks it; a
\* failure is rolled back from the safety copy, if there is one.
Finalize ==
    /\ At("finalize")
    /\ \/ Goto("restored") /\ UNCHANGED budget
       \/ Fault /\ Goto(IF cmd.copied THEN "rollback" ELSE "release")
    /\ UNCHANGED <<main, wal, safety, dbLock, attached, original, windows>>

\* The last step of rollbackRestore: copyFile of the safety copy in place.
RollBackCopy ==
    /\ At("rollback_copy")
    /\ \/ main' = safety /\ UNCHANGED budget
       \/ Fault /\ main' = Torn
    /\ Goto("release")
    /\ UNCHANGED <<wal, safety, dbLock, attached, original, windows>>

\* The deferred release, with either answer.
ReleaseRestore ==
    /\ At("release") \/ At("restored")
    /\ Release(Operator, dbLock, dbLock')
    /\ cmd' = Idle
    /\ UNCHANGED <<main, wal, safety, attached, original, windows>>

RestoreStep ==
    \/ ValidateBackup \/ CopySafety \/ StageCopy
    \/ RemoveSidecars("sidecars", "remove", "release")
    \/ RemoveTarget("remove", "rename", "release")
    \/ RenameStaged \/ Finalize
    \/ RemoveSidecars("rollback", "rollback_remove", "release")
    \/ RemoveTarget("rollback_remove", "rollback_copy", "release")
    \/ RollBackCopy \/ ReleaseRestore
=============================================================================
