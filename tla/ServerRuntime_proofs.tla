------------------------ MODULE ServerRuntime_proofs ------------------------
(***************************************************************************)
(* The database has one user, a restore does not lose it, and the clients  *)
(* keep their trust, for any number of server processes, restores,         *)
(* rotations and deaths.                                                   *)
(*                                                                         *)
(* What excludes the others is the lock file of the database; the first    *)
(* inductive invariant, LockInv, says how long it is held: by a server     *)
(* from the step that takes it to the step that gives it back, in the      *)
(* middle of cleanup or at the end of a failed Start, by a restore until   *)
(* its deferred release.  The other two, RestoreInv and TrustInv, rest on  *)
(* it.                                                                     *)
(***************************************************************************)
EXTENDS ServerRuntime, SequenceTheorems, TLAPS

\* Where a server process is while it has the lock of the database.
Holding ==
    {"locked", "opened", "securing", "secured", "serving", "failed", "failed_closed", "closing"}

Points == Holding \cup {"off", "starting", "released"}

ServerHolds == \A p \in Servers : pc[p] \in Holding => dbLock = p
RestoreHolds == cmd # Idle /\ cmd.op = "restore" => dbLock = Operator
LockInv == pc \in [Servers -> Points] /\ ServerHolds /\ RestoreHolds

\* A step of one process that has the lock before and keeps it, or does not
\* have it afterwards, concerns nobody else's lock (the steps of Start, Serve
\* and cleanup that leave dbLock and the command alone).
LEMMA StepKeepsLock ==
    ASSUME LockInv, NEW p \in Servers, NEW from, NEW to \in Points, Step(p, from, to),
           to \in Holding => from \in Holding,
           dbLock' = dbLock, cmd' = cmd
    PROVE  LockInv'
<1>1. pc' \in [Servers -> Points] /\ pc'[p] = to /\ \A q \in Servers \ {p} : pc'[q] = pc[q]
  BY DEF LockInv, Step
<1>2. pc[p] = from
  BY DEF Step
<1> QED
  BY <1>1, <1>2 DEF LockInv, ServerHolds, RestoreHolds

\* A process that has the lock, gives it back and is then at a step where it
\* need not have it leaves everybody else without it (cleanup, the end of a
\* failed Start, and the death of a process).
LEMMA GiveBack ==
    ASSUME LockInv, NEW p \in Servers, NEW to \in Points \ Holding,
           pc' = [pc EXCEPT ![p] = to], cmd' = cmd,
           dbLock' = dbLock \/ dbLock = p
    PROVE  LockInv'
<1>1. pc' \in [Servers -> Points] /\ pc'[p] = to /\ \A q \in Servers \ {p} : pc'[q] = pc[q]
  BY DEF LockInv
<1> QED
  BY <1>1, ServersAssumption DEF LockInv, ServerHolds, RestoreHolds

\* Steps of the server processes.
LEMMA ServerStep ==
    ASSUME LockInv, NEW p \in Servers,
           StartServer(p) \/ Advance(p) \/ RequestStop(p) \/ Crash(p)
             \/ BeginRequest(p) \/ Commit(p) \/ EndRequest(p) \/ Checkpoint(p)
    PROVE  LockInv'
<1>1. CASE StartServer(p)
  <2>1. dbLock' = dbLock /\ cmd' = cmd
    BY <1>1 DEF StartServer
  <2>2. Step(p, "off", "starting") \/ Step(p, "off", "off")
    BY <1>1 DEF StartServer
  <2> QED
    BY <2>1, <2>2, StepKeepsLock DEF Holding, Points
<1>2. CASE TakeDatabaseLock(p)
  <2>1. cmd' = cmd
    BY <1>2 DEF TakeDatabaseLock
  <2>2. CASE dbLock = Free /\ dbLock' = p /\ Step(p, "starting", "locked")
    <3>1. pc' \in [Servers -> Points] /\ \A q \in Servers \ {p} : pc'[q] = pc[q]
      BY <2>2 DEF LockInv, Step, Points, Holding
    <3> QED
      BY <2>1, <2>2, <3>1, ServersAssumption DEF LockInv, ServerHolds, RestoreHolds
  <2>3. CASE dbLock' = dbLock /\ Step(p, "starting", "off")
    BY <2>1, <2>3, StepKeepsLock DEF Holding, Points
  <2> QED
    BY <1>2, <2>2, <2>3 DEF TakeDatabaseLock
<1>3. CASE OpenDatabase(p)
  <2>1. dbLock' = dbLock /\ cmd' = cmd
    BY <1>3 DEF OpenDatabase
  <2>2. Step(p, "locked", "opened") \/ Step(p, "locked", "failed_closed")
    BY <1>3 DEF OpenDatabase
  <2> QED
    BY <2>1, <2>2, StepKeepsLock DEF Holding, Points
<1>4. CASE EnsureCertificate(p)
  <2>1. dbLock' = dbLock /\ cmd' = cmd
    BY <1>4 DEF EnsureCertificate, restoreVars
  <2>2. Step(p, "opened", "securing") \/ Step(p, "opened", "failed")
    BY <1>4 DEF EnsureCertificate
  <2> QED
    BY <2>1, <2>2, StepKeepsLock DEF Holding, Points
<1>5. CASE WriteArtifact(p)
  BY <1>5 DEF WriteArtifact, restoreVars, LockInv, ServerHolds, RestoreHolds
<1>6. CASE LoadCertificate(p)
  <2>1. dbLock' = dbLock /\ cmd' = cmd
    BY <1>6 DEF LoadCertificate, restoreVars
  <2>2. Step(p, "securing", "secured") \/ Step(p, "securing", "failed")
    BY <1>6 DEF LoadCertificate
  <2> QED
    BY <2>1, <2>2, StepKeepsLock DEF Holding, Points
<1>7. CASE Listen(p)
  <2>1. dbLock' = dbLock /\ cmd' = cmd
    BY <1>7 DEF Listen
  <2>2. Step(p, "secured", "serving") \/ Step(p, "secured", "failed")
    BY <1>7 DEF Listen
  <2> QED
    BY <2>1, <2>2, StepKeepsLock DEF Holding, Points
<1>8. CASE FailedStart(p)
  <2>1. cmd' = cmd
    BY <1>8 DEF FailedStart
  <2>2. CASE Step(p, "failed", "failed_closed") /\ dbLock' = dbLock
    BY <2>1, <2>2, StepKeepsLock DEF Holding, Points
  <2>3. CASE Step(p, "failed_closed", "off")
    <3>1. dbLock = p
      BY <2>3 DEF LockInv, ServerHolds, Holding, Step
    <3> QED
      BY <2>1, <2>3, <3>1, GiveBack DEF Step, Holding, Points
  <2> QED
    BY <1>8, <2>2, <2>3 DEF FailedStart
<1>9. CASE Stop(p)
  BY <1>9 DEF Stop, restoreVars, LockInv, ServerHolds, RestoreHolds
<1>10. CASE StopTimeout(p)
  BY <1>10 DEF StopTimeout, restoreVars, LockInv, ServerHolds, RestoreHolds
<1>11. CASE ServeReturns(p)
  <2>1. dbLock' = dbLock /\ cmd' = cmd /\ Step(p, "serving", "closing")
    BY <1>11 DEF ServeReturns
  <2> QED
    BY <2>1, StepKeepsLock DEF Holding, Points
<1>12. CASE ReleaseDatabaseLock(p)
  <2>1. cmd' = cmd /\ Step(p, "closing", "released")
    BY <1>12 DEF ReleaseDatabaseLock
  <2>2. dbLock = p
    BY <2>1 DEF LockInv, ServerHolds, Holding, Step
  <2> QED
    BY <2>1, <2>2, GiveBack DEF Step, Holding, Points
<1>13. CASE CloseAndExit(p)
  <2>1. dbLock' = dbLock /\ cmd' = cmd /\ Step(p, "released", "off")
    BY <1>13 DEF CloseAndExit
  <2> QED
    BY <2>1, StepKeepsLock DEF Holding, Points
<1>14. CASE Crash(p)
  <2>1. cmd' = cmd /\ pc' = [pc EXCEPT ![p] = "off"]
    BY <1>14 DEF Crash
  <2>2. dbLock' = dbLock \/ dbLock = p
    BY <1>14 DEF Crash, LockAfterDeath
  <2> QED
    BY <2>1, <2>2, GiveBack DEF Holding, Points
<1>15. CASE RequestStop(p) \/ BeginRequest(p) \/ Commit(p) \/ EndRequest(p) \/ Checkpoint(p)
  <2>1. pc' = pc /\ dbLock' = dbLock /\ cmd' = cmd
    BY <1>15 DEF RequestStop, BeginRequest, Commit, EndRequest, Checkpoint, restoreVars, runVars
  <2> QED
    BY <2>1 DEF LockInv, ServerHolds, RestoreHolds
<1> QED
  BY <1>1, <1>2, <1>3, <1>4, <1>5, <1>6, <1>7, <1>8, <1>9, <1>10, <1>11, <1>12, <1>13,
     <1>14, <1>15 DEF Advance

\* Steps of the operator's commands: a restore takes the lock before its first
\* step and no step but the last gives it back.
LEMMA CommandStep ==
    ASSUME LockInv,
           \/ \E b \in BOOLEAN : Restore(b) \/ RotateTLS(b)
           \/ RestoreAdvances \/ WriteArtifact(Operator) \/ RotationEnds
           \/ CertificateExpires \/ CrashCommand
    PROVE  LockInv'
<1> USE DEF LockInv, ServerHolds, RestoreHolds
<1>1. ASSUME NEW b \in BOOLEAN, Restore(b) PROVE LockInv'
  <2>1. pc' = pc
    BY <1>1 DEF Restore, runVars
  <2>2. CASE dbLock = Free /\ dbLock' = Operator
    BY <2>1, <2>2, ServersAssumption
  <2>3. CASE dbLock' = dbLock /\ cmd' = cmd
    BY <2>1, <2>3
  <2> QED
    BY <1>1, <2>2, <2>3 DEF Restore, BeginRestore
<1>2. ASSUME NEW b \in BOOLEAN, RotateTLS(b) PROVE LockInv'
  <2>1. pc' = pc /\ dbLock' = dbLock /\ cmd'.op = "rotate"
    BY <1>2 DEF RotateTLS
  <2> QED
    BY <2>1
<1>3. CASE RestoreAdvances
  <2>1. pc' = pc
    BY <1>3 DEF RestoreAdvances, runVars
  <2>2. dbLock = Operator
    BY <1>3 DEF RestoreAdvances, RestoreStep, ValidateBackup, CopySafety, StageCopy,
         RemoveSidecars, RemoveTarget, RenameStaged, Finalize, RollBackCopy,
         ReleaseRestore, At
  <2>3. CASE ReleaseRestore
    <3>1. cmd' = Idle
      BY <2>3 DEF ReleaseRestore
    <3> QED
      BY <2>1, <2>2, <3>1, ServersAssumption
  <2>4. CASE ~ReleaseRestore
    <3>1. dbLock' = dbLock
      BY <1>3, <2>4 DEF RestoreAdvances, RestoreStep, ValidateBackup, CopySafety, StageCopy,
           RemoveSidecars, RemoveTarget, RenameStaged, Finalize, RollBackCopy
    <3> QED
      BY <2>1, <2>2, <3>1
  <2> QED
    BY <2>3, <2>4
<1>4. CASE WriteArtifact(Operator)
  BY <1>4 DEF WriteArtifact, restoreVars
<1>5. CASE RotationEnds
  <2>1. pc' = pc /\ dbLock' = dbLock /\ cmd' = Idle
    BY <1>5 DEF RotationEnds, runVars
  <2> QED
    BY <2>1
<1>6. CASE CertificateExpires
  BY <1>6 DEF CertificateExpires, runVars
<1>7. CASE CrashCommand
  <2>1. pc' = pc /\ cmd' = Idle
    BY <1>7 DEF CrashCommand
  <2>2. dbLock' = dbLock \/ dbLock = Operator
    BY <1>7 DEF CrashCommand, LockAfterDeath
  <2> QED
    BY <2>1, <2>2, ServersAssumption
<1> QED
  BY <1>1, <1>2, <1>3, <1>4, <1>5, <1>6, <1>7

\* The lock of the database is held from before a server opens it, or a restore
\* touches it, until after they are done with serving and with restoring
\* (Start, cleanup, RestoreFromBackup).
THEOREM LockInvariant == Spec => []LockInv
<1>1. Init => LockInv
  BY DEF Init, LockInv, ServerHolds, RestoreHolds, Holding, Points
<1>2. LockInv /\ [Next]_vars => LockInv'
  <2> SUFFICES ASSUME LockInv, [Next]_vars PROVE LockInv'
    OBVIOUS
  <2>1. CASE UNCHANGED vars
    BY <2>1 DEF vars, restoreVars, runVars, LockInv, ServerHolds, RestoreHolds
  <2>2. CASE Next
    BY <2>2, ServerStep, CommandStep DEF Next
  <2> QED
    BY <2>1, <2>2
<1> QED
  BY <1>1, <1>2, PTL DEF Spec

\* While a server process accepts requests no other process does, and no
\* restore is under way, for any number of processes.
THEOREM ServedAlone == Spec => []DatabaseServedAlone
<1>1. LockInv => DatabaseServedAlone
  BY ServersAssumption DEF LockInv, ServerHolds, RestoreHolds, DatabaseServedAlone, Serving, Holding
<1> QED
  BY <1>1, LockInvariant, PTL

(***************************************************************************)
(* A restore does not lose the database.                                   *)
(***************************************************************************)

\* The steps of a restore: before the safety copy is made, after it, and those
\* of the latter that follow the removal of the log.
Early == {"validate", "safety"}
Copied == {"stage", "sidecars", "remove", "rename", "finalize", "restored",
           "rollback", "rollback_remove", "rollback_copy"}
Cleared == Copied \ {"stage", "sidecars"}

Commands == [op : {"restore", "rotate"}, at : Early \cup Copied \cup {"release", "write"},
             option : BOOLEAN, copied : BOOLEAN]

\* A restore is at one of the steps S.
Within(S) == cmd # Idle /\ cmd.op = "restore" /\ cmd.at \in S

\* The original is in the safety copy, or it is the whole content of the
\* database file.
Untouched == main = original /\ wal = Absent

RestoreInv ==
    /\ cmd = Idle \/ cmd \in Commands
    /\ original # Absent => safety = original \/ Untouched
    /\ original # Absent /\ Within(Early) => Untouched /\ attached = {} /\ cmd.option
    /\ original # Absent /\ Within(Copied) => safety = original
    /\ Within(Cleared) => wal = Absent /\ attached = {}
    /\ Within({"finalize", "restored"}) => main = Backup

\* While a restore is under way no server opens the database, so what the
\* servers do leaves a database that nobody has open as it is.
LEMMA ServersKeepOriginal ==
    ASSUME LockInv, RestoreInv, NEW p \in Servers,
           StartServer(p) \/ Advance(p) \/ RequestStop(p) \/ Crash(p)
             \/ BeginRequest(p) \/ Commit(p) \/ EndRequest(p) \/ Checkpoint(p)
    PROVE  RestoreInv'
<1>1. cmd' = cmd /\ safety' = safety
  BY DEF StartServer, Advance, TakeDatabaseLock, OpenDatabase, EnsureCertificate, WriteArtifact,
         LoadCertificate, Listen, FailedStart, Stop, StopTimeout, ServeReturns, ReleaseDatabaseLock,
         CloseAndExit, RequestStop, Crash, BeginRequest, Commit, EndRequest, Checkpoint, restoreVars
<1>2. \A S : Within(S)' = Within(S)
  BY <1>1 DEF Within
<1>3. CASE UNCHANGED <<main, wal, original>> /\ attached' \subseteq attached
  BY <1>1, <1>2, <1>3 DEF RestoreInv, Untouched
<1>4. CASE OpenDatabase(p)
  <2>1. /\ UNCHANGED <<wal, original>>
        /\ main' = main \/ (main = Absent /\ main' = 0)
    BY <1>4 DEF OpenDatabase
  <2>2. pc[p] = "locked"
    BY <1>4 DEF OpenDatabase, Step
  <2>3. cmd = Idle \/ cmd.op # "restore"
    BY <2>2, ServersAssumption DEF LockInv, ServerHolds, RestoreHolds, Holding
  <2>4. \A S : ~Within(S)
    BY <2>3 DEF Within
  <2> QED
    BY <1>1, <1>2, <1>3, <2>1, <2>4 DEF RestoreInv, Untouched
<1>5. ASSUME CloseDatabase(p), original' = original PROVE RestoreInv'
  <2>1. CASE attached = {p} /\ p \notin busy
    <3>1. main' = Content /\ wal' = Absent /\ attached # {} /\ attached' = {}
      BY <1>5, <2>1 DEF CloseDatabase
    <3>2. ~Within(Cleared)
      BY <3>1 DEF RestoreInv
    <3>3. ~Within({"finalize", "restored"})
      BY <3>2 DEF Within, Cleared, Copied
    <3>4. original # Absent => ~Within(Early)
      BY <3>1 DEF RestoreInv
    <3> QED
      BY <1>1, <1>2, <1>5, <3>1, <3>2, <3>3, <3>4 DEF RestoreInv, Untouched, Content
  <2>2. CASE ~(attached = {p} /\ p \notin busy)
    BY <1>3, <1>5, <2>2 DEF CloseDatabase
  <2> QED
    BY <2>1, <2>2
<1>6. CASE FailedStart(p) \/ CloseAndExit(p)
  BY <1>3, <1>5, <1>6 DEF FailedStart, CloseAndExit
<1>7. CASE Commit(p)
  <2>1. UNCHANGED <<main, attached>>
    BY <1>7 DEF Commit
  <2>2. CASE p \in attached
    <3>1. /\ original' = (IF original = Content THEN Absent ELSE original)
          /\ attached # {}
      BY <1>7, <2>2 DEF Commit
    <3>2. ~Within(Cleared)
      BY <3>1 DEF RestoreInv
    <3>3. ~Within({"finalize", "restored"})
      BY <3>2 DEF Within, Cleared, Copied
    <3>4. original # Absent => ~Within(Early)
      BY <3>1 DEF RestoreInv
    <3>5. original' # Absent => original' = original /\ original # Content
      BY <3>1
    <3>6. original' # Absent => safety = original
      BY <3>5 DEF RestoreInv, Untouched, Content
    <3> QED
      BY <1>1, <1>2, <2>1, <3>2, <3>3, <3>4, <3>5, <3>6 DEF RestoreInv
  <2>3. CASE p \notin attached
    BY <1>3, <1>7, <2>3 DEF Commit
  <2> QED
    BY <2>2, <2>3
<1>8. CASE Checkpoint(p)
  <2>1. main' = wal /\ UNCHANGED <<wal, attached, original>> /\ wal # Absent /\ attached # {}
    BY <1>8 DEF Checkpoint
  <2>2. ~Within(Cleared)
    BY <2>1 DEF RestoreInv
  <2>3. ~Within({"finalize", "restored"})
    BY <2>2 DEF Within, Cleared, Copied
  <2>4. original # Absent => ~Within(Early)
    BY <2>1 DEF RestoreInv
  <2> QED
    BY <1>1, <1>2, <2>1, <2>2, <2>3, <2>4 DEF RestoreInv, Untouched
<1>9. CASE \/ StartServer(p) \/ TakeDatabaseLock(p) \/ EnsureCertificate(p) \/ WriteArtifact(p)
           \/ LoadCertificate(p) \/ Listen(p) \/ Stop(p) \/ StopTimeout(p) \/ ServeReturns(p)
           \/ ReleaseDatabaseLock(p) \/ RequestStop(p) \/ BeginRequest(p) \/ EndRequest(p) \/ Crash(p)
  <2>1. UNCHANGED <<main, wal, original>> /\ attached' \subseteq attached
    BY <1>9 DEF StartServer, TakeDatabaseLock, EnsureCertificate, WriteArtifact, LoadCertificate,
         Listen, Stop, StopTimeout, ServeReturns, ReleaseDatabaseLock, RequestStop, BeginRequest,
         EndRequest, Crash, restoreVars
  <2> QED
    BY <1>3, <2>1
<1> QED
  BY <1>4, <1>6, <1>7, <1>8, <1>9 DEF Advance

\* A step of a restore to another step.
LEMMA RestoreGoes ==
    ASSUME RestoreInv, NEW from, NEW to \in Early \cup Copied \cup {"release"}, At(from),
           cmd' = [cmd EXCEPT !.at = to]
    PROVE  /\ cmd \in Commands /\ cmd' \in Commands
           /\ cmd'.option = cmd.option /\ cmd'.at = to /\ cmd'.op = "restore"
           /\ \A S : Within(S)' => to \in S
           /\ \A S : from \in S => Within(S)
<1>1. cmd \in Commands /\ cmd # Idle /\ cmd.op = "restore" /\ cmd.at = from
  BY DEF RestoreInv, At
<1>2. cmd' \in Commands /\ cmd'.option = cmd.option /\ cmd'.at = to /\ cmd'.op = "restore"
  BY <1>1 DEF Commands
<1> QED
  BY <1>1, <1>2 DEF Within

\* The steps of a restore: the safety copy is made while the database is still
\* the original, and everything that is destroyed is destroyed after that.
LEMMA RestoreKeeps ==
    ASSUME RestoreInv, RestoreStep
    PROVE  RestoreInv'
<1> USE DEF Early, Copied, Cleared
<1>1. CASE ValidateBackup
  <2>1. PICK to \in {"safety", "release"} : cmd' = [cmd EXCEPT !.at = to]
    BY <1>1 DEF ValidateBackup, Goto
  <2>2. At("validate") /\ UNCHANGED <<main, wal, safety, attached, original>>
    BY <1>1 DEF ValidateBackup
  <2> QED
    BY <2>1, <2>2, RestoreGoes DEF RestoreInv, Untouched
<1>2. CASE CopySafety
  <2>1. At("safety") /\ UNCHANGED <<main, wal, attached, original>>
    BY <1>2 DEF CopySafety
  <2>2. original # Absent => Untouched /\ attached = {} /\ cmd.option
    BY <2>1 DEF RestoreInv, Within, At
  <2>3. CASE safety' = main /\ cmd' = [cmd EXCEPT !.at = "stage", !.copied = TRUE]
    <3>1. cmd \in Commands /\ cmd.op = "restore"
      BY <2>1 DEF RestoreInv, At
    <3>2. cmd' \in Commands /\ cmd'.at = "stage"
      BY <2>3, <3>1 DEF Commands
    <3>3. ~Within(Early)' /\ ~Within(Cleared)' /\ ~Within({"finalize", "restored"})'
      BY <3>2 DEF Within
    <3> QED
      BY <2>1, <2>2, <2>3, <3>2, <3>3 DEF RestoreInv, Untouched
  <2>4. CASE safety' = Torn /\ cmd' = [cmd EXCEPT !.at = "release"]
    <3>1. cmd' \in Commands /\ \A S : Within(S)' => "release" \in S
      BY <2>1, <2>4, RestoreGoes
    <3> QED
      BY <2>1, <2>2, <3>1 DEF RestoreInv, Untouched
  <2>5. CASE ~(cmd.option /\ main # Absent) /\ safety' = safety /\ cmd' = [cmd EXCEPT !.at = "stage"]
    <3>1. cmd' \in Commands /\ \A S : Within(S)' => "stage" \in S
      BY <2>1, <2>5, RestoreGoes
    <3>2. original = Absent
      BY <2>2, <2>5 DEF Untouched
    <3> QED
      BY <2>1, <3>1, <3>2 DEF RestoreInv
  <2> QED
    BY <1>2, <2>3, <2>4, <2>5 DEF CopySafety, Goto
<1>3. CASE StageCopy
  <2>1. PICK to \in {"sidecars", "release"} : cmd' = [cmd EXCEPT !.at = to]
    BY <1>3 DEF StageCopy, Goto
  <2>2. At("stage") /\ UNCHANGED <<main, wal, safety, attached, original>>
    BY <1>3 DEF StageCopy
  <2> QED
    BY <2>1, <2>2, RestoreGoes DEF RestoreInv, Untouched
<1>4. ASSUME NEW step \in {"sidecars", "rollback"}, NEW next \in {"remove", "rollback_remove"},
             RemoveSidecars(step, next, "release")
      PROVE  RestoreInv'
  <2>1. At(step) /\ UNCHANGED <<main, safety, original>>
    BY <1>4 DEF RemoveSidecars
  <2>2. original # Absent => safety = original
    BY <2>1 DEF RestoreInv, Within, At
  <2>3. CASE wal' = Absent /\ attached' = {} /\ cmd' = [cmd EXCEPT !.at = next]
    BY <2>1, <2>2, <2>3, RestoreGoes DEF RestoreInv
  <2>4. CASE UNCHANGED <<wal, attached>> /\ cmd' = [cmd EXCEPT !.at = "release"]
    BY <2>1, <2>2, <2>4, RestoreGoes DEF RestoreInv
  <2> QED
    BY <1>4, <2>3, <2>4 DEF RemoveSidecars, Goto
<1>5. ASSUME NEW step \in {"remove", "rollback_remove"}, NEW next \in {"rename", "rollback_copy"},
             RemoveTarget(step, next, "release")
      PROVE  RestoreInv'
  <2>1. At(step) /\ UNCHANGED <<wal, safety, attached, original>>
    BY <1>5 DEF RemoveTarget
  <2>2. /\ original # Absent => safety = original
        /\ wal = Absent /\ attached = {}
    BY <2>1 DEF RestoreInv, Within, At
  <2>3. PICK to \in {next, "release"} : cmd' = [cmd EXCEPT !.at = to]
    BY <1>5 DEF RemoveTarget, Goto
  <2> QED
    BY <2>1, <2>2, <2>3, RestoreGoes DEF RestoreInv
<1>6. CASE RenameStaged
  <2>1. At("rename") /\ UNCHANGED <<wal, safety, attached, original>>
    BY <1>6 DEF RenameStaged
  <2>2. /\ original # Absent => safety = original
        /\ wal = Absent /\ attached = {}
    BY <2>1 DEF RestoreInv, Within, At
  <2>3. CASE main' = Backup /\ cmd' = [cmd EXCEPT !.at = "finalize"]
    BY <2>1, <2>2, <2>3, RestoreGoes DEF RestoreInv
  <2>4. CASE cmd' = [cmd EXCEPT !.at = "release"]
    BY <2>1, <2>2, <2>4, RestoreGoes DEF RestoreInv
  <2> QED
    BY <1>6, <2>3, <2>4 DEF RenameStaged, Goto
<1>7. CASE Finalize
  <2>1. At("finalize") /\ UNCHANGED <<main, wal, safety, attached, original>>
    BY <1>7 DEF Finalize
  <2>2. /\ original # Absent => safety = original
        /\ wal = Absent /\ attached = {} /\ main = Backup
    BY <2>1 DEF RestoreInv, Within, At
  <2>3. PICK to \in {"restored", "rollback", "release"} : cmd' = [cmd EXCEPT !.at = to]
    BY <1>7 DEF Finalize, Goto
  <2> QED
    BY <2>1, <2>2, <2>3, RestoreGoes DEF RestoreInv
<1>8. CASE RollBackCopy
  <2>1. At("rollback_copy") /\ UNCHANGED <<wal, safety, attached, original>>
    BY <1>8 DEF RollBackCopy
  <2>2. original # Absent => safety = original
    BY <2>1 DEF RestoreInv, Within, At
  <2>3. cmd' = [cmd EXCEPT !.at = "release"]
    BY <1>8 DEF RollBackCopy, Goto
  <2> QED
    BY <2>1, <2>2, <2>3, RestoreGoes DEF RestoreInv
<1>9. CASE ReleaseRestore
  <2>1. cmd' = Idle /\ UNCHANGED <<main, wal, safety, attached, original>>
    BY <1>9 DEF ReleaseRestore
  <2> QED
    BY <2>1 DEF RestoreInv, Untouched, Within
<1> QED
  BY <1>1, <1>2, <1>3, <1>4, <1>5, <1>6, <1>7, <1>8, <1>9 DEF RestoreStep

\* The other steps of the operator's commands: a restore begins with the
\* content it must not lose, and its death leaves the safety copy whole once
\* the database is touched.
LEMMA CommandsKeepOriginal ==
    ASSUME RestoreInv,
           \/ \E b \in BOOLEAN : Restore(b) \/ RotateTLS(b)
           \/ RestoreAdvances \/ WriteArtifact(Operator) \/ RotationEnds
           \/ CertificateExpires \/ CrashCommand
    PROVE  RestoreInv'
<1>1. ASSUME NEW b \in BOOLEAN, Restore(b) PROVE RestoreInv'
  <2>1. UNCHANGED <<main, wal, safety, attached>>
    BY <1>1 DEF Restore, BeginRestore
  <2>2. CASE /\ cmd' = [op |-> "restore", at |-> "validate", option |-> b, copied |-> FALSE]
             /\ original' = IF b /\ wal = Absent /\ attached = {} /\ main # Torn
                            THEN main ELSE Absent
    <3>1. cmd' \in Commands /\ cmd'.at = "validate" /\ cmd'.option = b
      BY <2>2 DEF Commands, Early
    <3>2. ~Within(Copied)' /\ ~Within(Cleared)' /\ ~Within({"finalize", "restored"})'
      BY <3>1 DEF Within, Copied, Cleared
    <3>3. original' # Absent => Untouched' /\ attached' = {} /\ b
      BY <2>1, <2>2 DEF Untouched
    <3> QED
      BY <3>1, <3>2, <3>3 DEF RestoreInv
  <2>3. CASE UNCHANGED <<cmd, original>>
    BY <2>1, <2>3 DEF RestoreInv, Untouched, Within
  <2> QED
    BY <1>1, <2>2, <2>3 DEF Restore, BeginRestore
<1>2. ASSUME NEW b \in BOOLEAN, RotateTLS(b) PROVE RestoreInv'
  <2>1. /\ UNCHANGED <<main, wal, safety, attached, original>>
        /\ cmd' = [op |-> "rotate", at |-> "write", option |-> b, copied |-> TRUE]
    BY <1>2 DEF RotateTLS
  <2>2. cmd' \in Commands /\ cmd'.op = "rotate"
    BY <2>1 DEF Commands
  <2> QED
    BY <2>1, <2>2 DEF RestoreInv, Untouched, Within
<1>3. CASE RestoreAdvances
  BY <1>3, RestoreKeeps DEF RestoreAdvances
<1>4. CASE WriteArtifact(Operator) \/ CertificateExpires
  <2>1. UNCHANGED <<main, wal, safety, attached, original, cmd>>
    BY <1>4 DEF WriteArtifact, CertificateExpires, restoreVars
  <2> QED
    BY <2>1 DEF RestoreInv, Untouched, Within
<1>5. CASE RotationEnds
  <2>1. cmd' = Idle /\ UNCHANGED <<main, wal, safety, attached, original>>
    BY <1>5 DEF RotationEnds
  <2> QED
    BY <2>1 DEF RestoreInv, Untouched, Within
<1>6. CASE CrashCommand
  <2>1. cmd' = Idle /\ UNCHANGED <<wal, original>>
    BY <1>6 DEF CrashCommand
  <2>2. main' # main => At("rollback_copy")
    BY <1>6 DEF CrashCommand
  <2>3. safety' # safety => At("safety")
    BY <1>6 DEF CrashCommand
  <2>4. original # Absent /\ At("rollback_copy") => safety = original /\ ~At("safety")
    BY DEF RestoreInv, Within, At, Copied
  <2>5. original # Absent /\ At("safety") => Untouched /\ ~At("rollback_copy")
    BY DEF RestoreInv, Within, At, Early
  <2> QED
    BY <2>1, <2>2, <2>3, <2>4, <2>5 DEF RestoreInv, Untouched, Within
<1> QED
  BY <1>1, <1>2, <1>3, <1>4, <1>5, <1>6

\* The rows that a restore with a safety copy found are in the safety copy or in
\* the database file at every step, and a restore that answers with success has
\* put the backup in place, for any number of servers, restores and deaths.
THEOREM RestoreIsSafe == Spec => []RestoreKeepsOriginal
<1>1. Init => RestoreInv
  BY DEF Init, RestoreInv, Within, Untouched
<1>2. LockInv /\ RestoreInv /\ [Next]_vars => RestoreInv'
  <2> SUFFICES ASSUME LockInv, RestoreInv, [Next]_vars PROVE RestoreInv'
    OBVIOUS
  <2>1. CASE UNCHANGED vars
    BY <2>1 DEF vars, restoreVars, RestoreInv, Untouched, Within
  <2>2. CASE Next
    BY <2>2, ServersKeepOriginal, CommandsKeepOriginal DEF Next
  <2> QED
    BY <2>1, <2>2
<1>3. RestoreInv => RestoreKeepsOriginal
  <2> SUFFICES ASSUME RestoreInv PROVE RestoreKeepsOriginal
    OBVIOUS
  <2>1. At("restored") => wal = Absent /\ main = Backup
    BY DEF RestoreInv, Within, At, Cleared, Copied
  <2> QED
    BY <2>1 DEF RestoreInv, Untouched, RestoreKeepsOriginal, Content
<1> QED
  BY <1>1, <1>2, <1>3, LockInvariant, PTL DEF Spec

(***************************************************************************)
(* The clients keep their trust in the server.                             *)
(***************************************************************************)

IsCert(v) == v \in [pair : {v.pair}, signer : {v.signer}, live : {v.live}]

\* A sequence of writes of TLS files that are still to be made; one that leaves
\* the root alone and issues certificates of the root `root'; one that issues a
\* server certificate.
IsPlan(s) == /\ \E S : s \in Seq(S)
             /\ \A i \in DOMAIN s : s[i].file = "cert" => IsCert(s[i].value)
Under(s, root) == \A i \in DOMAIN s : /\ s[i].file \in {"cert", "key"}
                                      /\ s[i].file = "cert" => s[i].value.signer = root
WritesCert(s) == \E i \in DOMAIN s : s[i].file = "cert"

\* What the variables are, and who is writing: a start at the step that secures
\* it, the operator during a rotation.
Artifacts ==
    /\ tls = [f \in TlsFiles |-> tls[f]]
    /\ writes = [a \in Actors |-> writes[a]]
    /\ loaded = [p \in Servers |-> loaded[p]]
    /\ Readable(tls, "cert") => IsCert(tls.cert)
    /\ \A a \in Actors : IsPlan(writes[a])
    /\ \A p \in Servers : writes[p] # <<>> => pc[p] = "securing"
    /\ writes[Operator] # <<>> => Rotating

\* While a client trusts a root: both files of the root are whole and of that
\* root, what is still to be written issues certificates of that root only, a
\* start that will not write a certificate finds none of another root, and a
\* start that has loaded one has one of that root.
RootKept ==
    trusted # Absent =>
        /\ tls.rootCert = trusted /\ tls.rootKey = trusted
        /\ \A a \in Actors : Under(writes[a], trusted)
        /\ \A p \in Servers :
              pc[p] = "securing" => \/ WritesCert(writes[p])
                                    \/ tls.cert \in {Absent, Torn}
                                    \/ tls.cert.signer = trusted
        /\ \A p \in Servers : pc[p] \in {"secured", "serving"} => loaded[p].signer = trusted

TrustInv == Artifacts /\ RootKept

\* What is left of a plan after its first write.
LEMMA PlanTail ==
    ASSUME NEW s, IsPlan(s), s # <<>>
    PROVE  /\ IsPlan(Tail(s))
           /\ Head(s).file = "cert" => IsCert(Head(s).value)
           /\ \A root : Under(s, root) =>
                 /\ Under(Tail(s), root)
                 /\ Head(s).file \in {"cert", "key"}
                 /\ Head(s).file = "cert" => Head(s).value.signer = root
           /\ WritesCert(s) => Head(s).file = "cert" \/ WritesCert(Tail(s))
<1>1. PICK S : s \in Seq(S)
  BY DEF IsPlan
<1>2. /\ Tail(s) \in Seq(S) /\ Head(s) = s[1] /\ Len(s) \in Nat \ {0}
      /\ Len(Tail(s)) = Len(s) - 1 /\ \A i \in 1 .. Len(s) - 1 : Tail(s)[i] = s[i + 1]
  BY <1>1
<1>3. DOMAIN s = 1 .. Len(s) /\ DOMAIN Tail(s) = 1 .. Len(s) - 1
  BY <1>1, <1>2, LenProperties
<1>4. 1 \in DOMAIN s /\ \A i \in DOMAIN Tail(s) : i + 1 \in DOMAIN s /\ Tail(s)[i] = s[i + 1]
  BY <1>2, <1>3
<1>5. \A j \in DOMAIN s : j = 1 \/ (j - 1 \in DOMAIN Tail(s) /\ s[j] = Tail(s)[j - 1])
  BY <1>2, <1>3
<1>6. IsPlan(Tail(s))
  BY <1>2, <1>4 DEF IsPlan
<1>7. Head(s).file = "cert" => IsCert(Head(s).value)
  BY <1>2, <1>4 DEF IsPlan
<1>8. ASSUME NEW root, Under(s, root)
      PROVE  /\ Under(Tail(s), root)
             /\ Head(s).file \in {"cert", "key"}
             /\ Head(s).file = "cert" => Head(s).value.signer = root
  BY <1>2, <1>4, <1>8 DEF Under
<1>9. WritesCert(s) => Head(s).file = "cert" \/ WritesCert(Tail(s))
  BY <1>2, <1>5 DEF WritesCert
<1> QED
  BY <1>6, <1>7, <1>8, <1>9

\* The two writes of a server certificate and its key.
LEMMA ServerPlan ==
    ASSUME NEW root, NEW pair
    PROVE  /\ IsPlan(ServerWrites(root, pair))
           /\ Under(ServerWrites(root, pair), root.cert)
           /\ WritesCert(ServerWrites(root, pair))
<1> DEFINE v == GenerateServerCertificate(root, pair)
           s == ServerWrites(root, pair)
<1>1. IsCert(v) /\ v.signer = root.cert
  BY DEF IsCert, GenerateServerCertificate
<1>2. s = <<Write("cert", v), Write("key", pair)>>
  BY DEF ServerWrites
<1> HIDE DEF v, s
<1>3. s \in Seq({Write("cert", v), Write("key", pair)}) /\ DOMAIN s = {1, 2}
  BY <1>2
<1>4. s[1].file = "cert" /\ s[1].value = v /\ s[2].file = "key"
  BY <1>2 DEF Write
<1>5. IsPlan(s) /\ Under(s, root.cert) /\ WritesCert(s)
  BY <1>1, <1>3, <1>4 DEF IsPlan, Under, WritesCert
<1> QED
  BY <1>5 DEF s

\* The same after the two writes of a new root.
LEMMA RootPlan ==
    ASSUME NEW fresh, NEW root, NEW pair
    PROVE  IsPlan(<<Write("rootCert", fresh), Write("rootKey", fresh)>> \o ServerWrites(root, pair))
<1> DEFINE r == <<Write("rootCert", fresh), Write("rootKey", fresh)>>
           s == ServerWrites(root, pair)
<1>1. PICK S : s \in Seq(S)
  BY ServerPlan DEF IsPlan
<1>2. \A i \in DOMAIN s : s[i].file = "cert" => IsCert(s[i].value)
  BY ServerPlan DEF IsPlan
<1>3. r[1].file # "cert" /\ r[2].file # "cert" /\ Len(r) = 2
  BY DEF Write
<1>4. PICK T : T = S \cup {Write("rootCert", fresh), Write("rootKey", fresh)}
  OBVIOUS
<1>5. r \in Seq(T) /\ s \in Seq(T)
  BY <1>1, <1>4
<1> HIDE DEF r, s
<1>6. r \o s \in Seq(T) /\ Len(r \o s) = Len(r) + Len(s)
  BY <1>5, ConcatProperties
<1>7. \A i \in 1 .. Len(r) + Len(s) : (r \o s)[i] = IF i <= Len(r) THEN r[i] ELSE s[i - Len(r)]
  BY <1>5, ConcatProperties
<1>8. DOMAIN s = 1 .. Len(s) /\ Len(s) \in Nat /\ DOMAIN (r \o s) = 1 .. Len(r) + Len(s)
  BY <1>5, <1>6, LenProperties
<1>9. ASSUME NEW i \in DOMAIN (r \o s), (r \o s)[i].file = "cert"
      PROVE  IsCert((r \o s)[i].value)
  <2>1. i \notin {1, 2}
    BY <1>3, <1>7, <1>8, <1>9
  <2>2. i - 2 \in DOMAIN s /\ (r \o s)[i] = s[i - 2]
    BY <1>3, <1>7, <1>8, <2>1
  <2> QED
    BY <1>2, <1>9, <2>2
<1>10. IsPlan(r \o s)
  BY <1>6, <1>9 DEF IsPlan
<1> QED
  BY <1>10 DEF r, s

LEMMA EmptyPlan == IsPlan(<<>>) /\ \A root : Under(<<>>, root)
<1>1. <<>> \in Seq({}) /\ DOMAIN <<>> = {}
  OBVIOUS
<1> QED
  BY <1>1 DEF IsPlan, Under

\* ensureServerCertificate makes no new root while both files of the old one
\* are there, and what it writes or finds good is of that root.
LEMMA EnsurePlan ==
    ASSUME NEW t, NEW used
    PROVE  LET e == EnsureServerCertificate(t, used)
           IN  /\ IsPlan(e.writes)
               /\ ~e.ok => e.writes = <<>>
               /\ t.rootCert = t.rootKey /\ t.rootCert # Absent =>
                     /\ Under(e.writes, t.rootCert)
                     /\ e.ok => WritesCert(e.writes) \/ t.cert.signer = t.rootCert
<1> DEFINE e == EnsureServerCertificate(t, used)
           fresh == FreshPair(used)
           leaf == FreshPair(used \cup {fresh})
           kept == [cert |-> t.rootCert, key |-> t.rootKey]
           made == [cert |-> fresh, key |-> fresh]
<1>1. CASE e = [ok |-> FALSE, writes |-> <<>>]
  BY <1>1, EmptyPlan
<1>2. CASE HasValidTLSArtifacts(t) = "valid" /\ e = [ok |-> TRUE, writes |-> <<>>]
  <2>1. t.cert.signer = t.rootCert
    BY <1>2 DEF HasValidTLSArtifacts
  <2> QED
    BY <1>2, <2>1, EmptyPlan
<1>3. CASE /\ ~RootIsReused(t)
           /\ e = [ok |-> TRUE,
                   writes |-> <<Write("rootCert", fresh), Write("rootKey", fresh)>>
                                \o ServerWrites(made, leaf)]
  <2>1. IsPlan(e.writes) /\ e.ok
    BY <1>3, RootPlan
  <2>2. ~(t.rootCert = t.rootKey /\ t.rootCert # Absent)
    BY <1>3 DEF RootIsReused, FileExists
  <2> QED
    BY <2>1, <2>2
<1>4. CASE e = [ok |-> TRUE, writes |-> ServerWrites(kept, fresh)]
  <2>1. kept.cert = t.rootCert
    OBVIOUS
  <2>2. e.ok /\ e.writes = ServerWrites(kept, fresh)
    BY <1>4
  <2> HIDE DEF kept, fresh, e
  <2>3. IsPlan(e.writes) /\ Under(e.writes, t.rootCert) /\ WritesCert(e.writes)
    BY <2>1, <2>2, ServerPlan
  <2>4. IsPlan(e.writes) /\ e.ok /\ Under(e.writes, t.rootCert) /\ WritesCert(e.writes)
    BY <2>2, <2>3
  <2> QED
    BY <2>4 DEF e
<1> QED
  BY <1>1, <1>2, <1>3, <1>4 DEF EnsureServerCertificate

\* A rotation without a new root issues a certificate of the old one.
LEMMA RotatePlan ==
    ASSUME NEW t, NEW used, NEW newRoot \in BOOLEAN, RotateTLSArtifacts(t, newRoot, used).ok
    PROVE  /\ IsPlan(RotateTLSArtifacts(t, newRoot, used).writes)
           /\ ~newRoot => Under(RotateTLSArtifacts(t, newRoot, used).writes, t.rootCert)
<1> DEFINE e == RotateTLSArtifacts(t, newRoot, used)
           fresh == FreshPair(used)
           leaf == FreshPair(used \cup {fresh})
           kept == [cert |-> t.rootCert, key |-> t.rootKey]
           made == [cert |-> fresh, key |-> fresh]
<1>1. CASE newRoot
  <2>1. e.writes = <<Write("rootCert", fresh), Write("rootKey", fresh)>>
                     \o ServerWrites(made, leaf)
    BY <1>1 DEF RotateTLSArtifacts
  <2> QED
    BY <1>1, <2>1, RootPlan
<1>2. CASE ~newRoot
  <2>1. e.writes = ServerWrites(kept, fresh)
    BY <1>2 DEF RotateTLSArtifacts
  <2>2. kept.cert = t.rootCert
    OBVIOUS
  <2> HIDE DEF kept, fresh, e
  <2>3. IsPlan(e.writes) /\ Under(e.writes, t.rootCert)
    BY <2>1, <2>2, ServerPlan
  <2> QED
    BY <2>3 DEF e
<1> QED
  BY <1>1, <1>2

\* Steps that leave the TLS files and the plans alone: nobody moves to a step at
\* which a certificate is about to be loaded or is in use.
LEMMA TrustFrame ==
    ASSUME TrustInv, UNCHANGED <<tls, trusted, writes>>,
           writes[Operator] # <<>> => Rotating',
           loaded' = [q \in Servers |-> loaded'[q]],
           \A q \in Servers : \/ pc'[q] = pc[q] /\ loaded'[q] = loaded[q]
                              \/ /\ pc'[q] \notin {"securing", "secured", "serving"}
                                 /\ pc[q] # "securing" \/ writes[q] = <<>>
    PROVE  TrustInv'
<1>1. Artifacts'
  BY DEF TrustInv, Artifacts
<1>2. RootKept'
  BY DEF TrustInv, RootKept
<1> QED
  BY <1>1, <1>2 DEF TrustInv

\* The command goes on writing, or does not write.
LEMMA SameCommand ==
    ASSUME TrustInv, cmd' = cmd
    PROVE  writes[Operator] # <<>> => Rotating'
BY DEF TrustInv, Artifacts, Rotating

\* One write of a TLS file.
LEMMA FileWritten ==
    ASSUME NEW t, t = [f \in TlsFiles |-> t[f]], NEW f, NEW v, NEW u, u = [t EXCEPT ![f] = v]
    PROVE  /\ u = [g \in TlsFiles |-> u[g]]
           /\ \A g \in TlsFiles : u[g] = IF g = f THEN v ELSE t[g]
<1>1. DOMAIN t = TlsFiles
  OBVIOUS
<1>2. u = [g \in TlsFiles |-> IF g = f THEN v ELSE t[g]]
  BY <1>1
<1> QED
  BY <1>2

\* A server certificate written under a root that is trusted is of that root; a
\* write that is cut off leaves nothing that could be loaded.
LEMMA WriteKeepsTrust ==
    ASSUME TrustInv, NEW a \in Actors, WriteArtifact(a)
    PROVE  TrustInv'
<1> DEFINE w == Head(writes[a])
<1>1. /\ UNCHANGED <<pc, loaded, trusted, cmd>>
      /\ writes[a] # <<>>
    BY DEF WriteArtifact, restoreVars
<1>2. /\ IsPlan(writes[a])
      /\ IsPlan(Tail(writes[a]))
      /\ w.file = "cert" => IsCert(w.value)
      /\ trusted # Absent => /\ Under(Tail(writes[a]), trusted)
                             /\ w.file \in {"cert", "key"}
                             /\ w.file = "cert" => w.value.signer = trusted
      /\ WritesCert(writes[a]) => w.file = "cert" \/ WritesCert(Tail(writes[a]))
  <2>1. IsPlan(writes[a]) /\ (trusted # Absent => Under(writes[a], trusted))
    BY DEF TrustInv, Artifacts, RootKept
  <2> QED
    BY <1>1, <2>1, PlanTail
<1>3. Rotating' = Rotating
  BY <1>1 DEF Rotating
<1>4. PICK v \in {w.value, Torn, Absent} :
        /\ tls' = [tls EXCEPT ![w.file] = v]
        /\ \/ writes' = writes /\ v \in {Torn, Absent}
           \/ writes' = [writes EXCEPT ![a] = Tail(@)] /\ v = w.value
  BY DEF WriteArtifact, HalfWritten, Written
<1>5. /\ tls' = [g \in TlsFiles |-> tls'[g]]
      /\ \A g \in TlsFiles : tls'[g] = IF g = w.file THEN v ELSE tls[g]
  BY <1>4, FileWritten DEF TrustInv, Artifacts
<1> HIDE DEF w
<1>6. writes' = [b \in Actors |-> writes'[b]]
  BY <1>4 DEF TrustInv, Artifacts
<1>7. \A b \in Actors : writes'[b] = writes[b] \/ (b = a /\ writes'[b] = Tail(writes[a]) /\ v = w.value)
  BY <1>4 DEF TrustInv, Artifacts
<1>8. Artifacts'
  <2>1. Readable(tls, "cert")' => IsCert(tls.cert)'
    BY <1>2, <1>4, <1>5 DEF TrustInv, Artifacts, Readable, TlsFiles, IsCert
  <2>2. \A b \in Actors : IsPlan(writes[b])'
    BY <1>2, <1>7 DEF TrustInv, Artifacts
  <2>3. \A b \in Actors : writes'[b] # <<>> => writes[b] # <<>>
    BY <1>1, <1>7
  <2>4. \A p \in Servers : writes'[p] # <<>> => pc'[p] = "securing"
    BY <1>1, <2>3 DEF TrustInv, Artifacts, Actors
  <2>5. writes'[Operator] # <<>> => Rotating'
    BY <1>3, <2>3 DEF TrustInv, Artifacts, Actors
  <2>6. loaded' = [p \in Servers |-> loaded'[p]]
    BY <1>1 DEF TrustInv, Artifacts
  <2> QED
    BY <1>5, <1>6, <2>1, <2>2, <2>4, <2>5, <2>6 DEF Artifacts
<1>9. RootKept'
  <2> SUFFICES ASSUME trusted' # Absent PROVE RootKept'
    BY DEF RootKept
  <2>1. trusted # Absent /\ trusted' = trusted
    BY <1>1
  <2>2. tls'.rootCert = trusted' /\ tls'.rootKey = trusted'
    BY <1>2, <1>5, <2>1 DEF TrustInv, RootKept, TlsFiles
  <2>3. \A b \in Actors : Under(writes[b], trusted)'
    BY <1>2, <1>7, <2>1 DEF TrustInv, RootKept
  <2>4. tls'.cert = IF w.file = "cert" THEN v ELSE tls.cert
    BY <1>5 DEF TlsFiles
  <2>5. w.file = "cert" => v \in {Absent, Torn} \/ v.signer = trusted'
    BY <1>2, <1>4, <2>1
  <2>6. ASSUME NEW p \in Servers, pc'[p] = "securing"
        PROVE  \/ WritesCert(writes[p])'
               \/ tls'.cert \in {Absent, Torn}
               \/ tls'.cert.signer = trusted'
    <3>1. \/ WritesCert(writes[p])
          \/ tls.cert \in {Absent, Torn}
          \/ tls.cert.signer = trusted
      BY <1>1, <2>1, <2>6 DEF TrustInv, RootKept
    <3>2. WritesCert(writes[p]) => w.file = "cert" \/ WritesCert(writes'[p])
      BY <1>2, <1>7 DEF Actors
    <3> QED
      BY <2>1, <2>4, <2>5, <3>1, <3>2
  <2>7. \A p \in Servers : pc'[p] \in {"secured", "serving"} => loaded'[p].signer = trusted'
    BY <1>1, <2>1 DEF TrustInv, RootKept
  <2> QED
    BY <2>2, <2>3, <2>6, <2>7 DEF RootKept
<1> QED
  BY <1>8, <1>9 DEF TrustInv

\* Steps of the server processes.  Only the one that holds the lock of the
\* database is between the choice of its certificate and the end of serving, so
\* when it begins to serve no other start is about to write.
LEMMA ServersKeepTrust ==
    ASSUME LockInv, TrustInv, NEW p \in Servers,
           StartServer(p) \/ Advance(p) \/ RequestStop(p) \/ Crash(p)
             \/ BeginRequest(p) \/ Commit(p) \/ EndRequest(p) \/ Checkpoint(p)
    PROVE  TrustInv'
<1>1. cmd' = cmd
  BY DEF StartServer, Advance, TakeDatabaseLock, OpenDatabase, EnsureCertificate, WriteArtifact,
         LoadCertificate, Listen, FailedStart, Stop, StopTimeout, ServeReturns, ReleaseDatabaseLock,
         CloseAndExit, RequestStop, Crash, BeginRequest, Commit, EndRequest, Checkpoint, restoreVars
<1>2. writes[Operator] # <<>> => Rotating'
  BY <1>1, SameCommand
<1>3. loaded = [q \in Servers |-> loaded[q]] /\ pc \in [Servers -> Points]
  BY DEF TrustInv, Artifacts, LockInv
<1>4. \A q \in Servers : writes[q] # <<>> => pc[q] = "securing"
  BY DEF TrustInv, Artifacts
<1>5. ASSUME UNCHANGED <<tls, trusted, writes>>, NEW from, from # "securing",
             NEW to \in Points \ {"securing", "secured", "serving"}, Step(p, from, to),
             loaded' = loaded \/ loaded' = [loaded EXCEPT ![p] = Absent]
      PROVE  TrustInv'
  <2>1. loaded' = [q \in Servers |-> loaded'[q]] /\ \A q \in Servers \ {p} : loaded'[q] = loaded[q]
    BY <1>3, <1>5
  <2>2. pc'[p] = to /\ pc[p] # "securing" /\ \A q \in Servers \ {p} : pc'[q] = pc[q]
    BY <1>3, <1>5 DEF Step
  <2> QED
    BY <1>2, <1>5, <2>1, <2>2, TrustFrame
<1>6. CASE \/ Stop(p) \/ StopTimeout(p) \/ RequestStop(p) \/ BeginRequest(p) \/ EndRequest(p)
           \/ Commit(p) \/ Checkpoint(p)
  <2>1. UNCHANGED <<tls, trusted, writes, pc, loaded>>
    BY <1>6 DEF Stop, StopTimeout, RequestStop, BeginRequest, EndRequest, Commit, Checkpoint,
         tlsVars, runVars
  <2> QED
    BY <1>2, <1>3, <2>1, TrustFrame
<1>7. CASE StartServer(p)
  <2>1. UNCHANGED <<tls, trusted, writes, loaded>> /\ (Step(p, "off", "starting") \/ Step(p, "off", "off"))
    BY <1>7 DEF StartServer
  <2> QED
    BY <1>5, <2>1 DEF Points, Holding
<1>8. CASE TakeDatabaseLock(p)
  <2>1. /\ UNCHANGED <<tls, trusted, writes, loaded>>
        /\ Step(p, "starting", "locked") \/ Step(p, "starting", "off")
    BY <1>8 DEF TakeDatabaseLock, tlsVars
  <2> QED
    BY <1>5, <2>1 DEF Points, Holding
<1>9. CASE OpenDatabase(p)
  <2>1. /\ UNCHANGED <<tls, trusted, writes, loaded>>
        /\ Step(p, "locked", "opened") \/ Step(p, "locked", "failed_closed")
    BY <1>9 DEF OpenDatabase, tlsVars
  <2> QED
    BY <1>5, <2>1 DEF Points, Holding
<1>10. CASE FailedStart(p)
  <2>1. /\ UNCHANGED <<tls, trusted, writes>> /\ loaded' = [loaded EXCEPT ![p] = Absent]
        /\ Step(p, "failed", "failed_closed") \/ Step(p, "failed_closed", "off")
    BY <1>10 DEF FailedStart, tlsVars
  <2> QED
    BY <1>5, <2>1 DEF Points, Holding
<1>11. CASE ServeReturns(p)
  <2>1. UNCHANGED <<tls, trusted, writes, loaded>> /\ Step(p, "serving", "closing")
    BY <1>11 DEF ServeReturns, tlsVars
  <2> QED
    BY <1>5, <2>1 DEF Points, Holding
<1>12. CASE ReleaseDatabaseLock(p)
  <2>1. UNCHANGED <<tls, trusted, writes, loaded>> /\ Step(p, "closing", "released")
    BY <1>12 DEF ReleaseDatabaseLock, tlsVars
  <2> QED
    BY <1>5, <2>1 DEF Points, Holding
<1>13. CASE CloseAndExit(p)
  <2>1. /\ UNCHANGED <<tls, trusted, writes>> /\ loaded' = [loaded EXCEPT ![p] = Absent]
        /\ Step(p, "released", "off")
    BY <1>13 DEF CloseAndExit, Vanish, tlsVars
  <2> QED
    BY <1>5, <2>1 DEF Points, Holding
<1>14. CASE WriteArtifact(p)
  BY <1>14, WriteKeepsTrust DEF Actors
<1>15. CASE EnsureCertificate(p)
  <2> DEFINE e == EnsureServerCertificate(tls, UsedPairs)
  <2>1. /\ UNCHANGED <<tls, trusted, loaded, cmd>>
        /\ Step(p, "opened", IF e.ok THEN "securing" ELSE "failed")
        /\ writes' = [writes EXCEPT ![p] = e.writes]
    BY <1>15 DEF EnsureCertificate, restoreVars, tlsVars
  <2>2. /\ IsPlan(e.writes) /\ (~e.ok => e.writes = <<>>)
        /\ tls.rootCert = tls.rootKey /\ tls.rootCert # Absent =>
              /\ Under(e.writes, tls.rootCert)
              /\ e.ok => WritesCert(e.writes) \/ tls.cert.signer = tls.rootCert
    BY EnsurePlan
  <2> HIDE DEF e
  <2>3. /\ writes' = [a \in Actors |-> writes'[a]] /\ writes'[p] = e.writes
        /\ \A a \in Actors \ {p} : writes'[a] = writes[a]
    BY <2>1 DEF TrustInv, Artifacts, Actors
  <2>4. /\ pc'[p] = IF e.ok THEN "securing" ELSE "failed"
        /\ \A q \in Servers \ {p} : pc'[q] = pc[q]
    BY <1>3, <2>1 DEF Step
  <2>5. Artifacts'
    <3>1. \A a \in Actors : IsPlan(writes[a])'
      BY <2>2, <2>3 DEF TrustInv, Artifacts
    <3>2. \A q \in Servers : writes'[q] # <<>> => pc'[q] = "securing"
      BY <1>4, <2>2, <2>3, <2>4 DEF Actors
    <3>3. writes'[Operator] # <<>> => Rotating'
      BY <1>2, <2>3, ServersAssumption DEF Actors
    <3> QED
      BY <2>1, <2>3, <3>1, <3>2, <3>3 DEF TrustInv, Artifacts
  <2>6. RootKept'
    <3> SUFFICES ASSUME trusted' # Absent PROVE RootKept'
      BY DEF RootKept
    <3>1. trusted # Absent /\ tls.rootCert = trusted /\ tls.rootKey = trusted
      BY <2>1 DEF TrustInv, RootKept
    <3>2. \A a \in Actors : Under(writes[a], trusted)'
      BY <2>1, <2>2, <2>3, <3>1 DEF TrustInv, RootKept
    <3>3. ASSUME NEW q \in Servers, pc'[q] = "securing"
          PROVE  \/ WritesCert(writes[q])'
                 \/ tls'.cert \in {Absent, Torn}
                 \/ tls'.cert.signer = trusted'
      BY <2>1, <2>2, <2>3, <2>4, <3>1, <3>3 DEF TrustInv, RootKept, Actors
    <3>4. \A q \in Servers : pc'[q] \in {"secured", "serving"} => loaded'[q].signer = trusted'
      BY <2>1, <2>4, <3>1 DEF TrustInv, RootKept
    <3> QED
      BY <2>1, <3>1, <3>2, <3>3, <3>4 DEF RootKept
  <2> QED
    BY <2>5, <2>6 DEF TrustInv
<1>16. CASE LoadCertificate(p)
  <2>1. UNCHANGED <<tls, trusted, writes, cmd>> /\ pc[p] = "securing" /\ writes[p] = <<>>
    BY <1>16 DEF LoadCertificate, restoreVars, tlsVars
  <2>2. CASE Step(p, "securing", "failed") /\ loaded' = loaded
    <3>1. pc'[p] = "failed" /\ \A q \in Servers \ {p} : pc'[q] = pc[q]
      BY <1>3, <2>2 DEF Step
    <3> QED
      BY <1>2, <1>3, <2>1, <2>2, <3>1, TrustFrame
  <2>3. CASE CanLoad(tls) /\ Step(p, "securing", "secured") /\ loaded' = [loaded EXCEPT ![p] = tls.cert]
    <3>1. pc'[p] = "secured" /\ \A q \in Servers \ {p} : pc'[q] = pc[q]
      BY <1>3, <2>3 DEF Step
    <3>2. /\ loaded' = [q \in Servers |-> loaded'[q]] /\ loaded'[p] = tls.cert
          /\ \A q \in Servers \ {p} : loaded'[q] = loaded[q]
      BY <1>3, <2>3
    <3>3. Artifacts'
      <4>1. \A q \in Servers : writes'[q] # <<>> => pc'[q] = "securing"
        BY <1>4, <2>1, <3>1
      <4> QED
        BY <1>2, <2>1, <3>2, <4>1 DEF TrustInv, Artifacts
    <3>4. trusted # Absent => tls.cert.signer = trusted
      <4>1. tls.cert \notin {Absent, Torn}
        BY <2>3 DEF CanLoad, Readable
      <4>2. ~WritesCert(writes[p])
        BY <2>1 DEF WritesCert
      <4> QED
        BY <2>1, <4>1, <4>2 DEF TrustInv, RootKept
    <3>5. RootKept'
      BY <2>1, <3>1, <3>2, <3>4 DEF TrustInv, RootKept
    <3> QED
      BY <3>3, <3>5 DEF TrustInv
  <2> QED
    BY <1>16, <2>2, <2>3 DEF LoadCertificate
<1>17. CASE Listen(p)
  <2>1. UNCHANGED <<tls, writes, loaded>> /\ pc[p] = "secured"
    BY <1>17 DEF Listen, Step
  <2>2. CASE Step(p, "secured", "failed") /\ trusted' = trusted
    BY <1>5, <2>1, <2>2 DEF Points, Holding
  <2>3. CASE /\ Step(p, "secured", "serving")
             /\ trusted' = IF /\ loaded[p].signer = tls.rootCert /\ tls.rootKey = tls.rootCert
                              /\ ~Rotating
                           THEN tls.rootCert ELSE trusted
    <3>1. pc'[p] = "serving" /\ \A q \in Servers \ {p} : pc'[q] = pc[q]
      BY <1>3, <2>3 DEF Step
    <3>2. \A q \in Servers \ {p} : pc[q] \notin {"securing", "secured", "serving"}
      BY <2>1 DEF LockInv, ServerHolds, Holding
    <3>3. \A q \in Servers : writes[q] = <<>>
      BY <1>4, <2>1, <3>2
    <3>4. Artifacts'
      BY <1>2, <2>1, <3>3 DEF TrustInv, Artifacts
    <3>5. CASE trusted' = trusted
      <4>1. RootKept'
        BY <2>1, <3>1, <3>5 DEF TrustInv, RootKept
      <4> QED
        BY <3>4, <4>1 DEF TrustInv
    <3>6. CASE /\ loaded[p].signer = tls.rootCert /\ tls.rootKey = tls.rootCert /\ ~Rotating
               /\ trusted' = tls.rootCert
      <4>1. \A a \in Actors : writes[a] = <<>>
        BY <3>3, <3>6 DEF Actors, TrustInv, Artifacts
      <4>2. \A a \in Actors : Under(writes[a], trusted)'
        BY <2>1, <4>1, EmptyPlan
      <4>3. RootKept'
        BY <2>1, <3>1, <3>2, <3>6, <4>2 DEF RootKept
      <4> QED
        BY <3>4, <4>3 DEF TrustInv
    <3> QED
      BY <2>3, <3>5, <3>6
  <2> QED
    BY <1>17, <2>2, <2>3 DEF Listen
<1>18. CASE Crash(p)
  <2>1. /\ UNCHANGED <<tls, trusted>> /\ loaded' = [loaded EXCEPT ![p] = Absent]
        /\ writes' = [writes EXCEPT ![p] = <<>>] /\ pc' = [pc EXCEPT ![p] = "off"]
    BY <1>18 DEF Crash, Vanish, tlsVars
  <2>2. /\ loaded' = [q \in Servers |-> loaded'[q]]
        /\ \A q \in Servers \ {p} : loaded'[q] = loaded[q]
    BY <1>3, <2>1
  <2>3. pc'[p] = "off" /\ \A q \in Servers \ {p} : pc'[q] = pc[q]
    BY <1>3, <2>1
  <2>4. /\ writes' = [a \in Actors |-> writes'[a]] /\ writes'[p] = <<>>
        /\ \A a \in Actors \ {p} : writes'[a] = writes[a]
    BY <2>1 DEF TrustInv, Artifacts, Actors
  <2>5. Artifacts'
    <3>1. \A a \in Actors : IsPlan(writes[a])'
      BY <2>4, EmptyPlan DEF TrustInv, Artifacts
    <3>2. \A q \in Servers : writes'[q] # <<>> => pc'[q] = "securing"
      BY <1>4, <2>3, <2>4 DEF Actors
    <3>3. writes'[Operator] # <<>> => Rotating'
      BY <1>2, <2>4, ServersAssumption DEF Actors
    <3> QED
      BY <2>1, <2>2, <2>4, <3>1, <3>2, <3>3 DEF TrustInv, Artifacts
  <2>6. RootKept'
    <3>1. \A a \in Actors : trusted # Absent => Under(writes[a], trusted)'
      BY <2>1, <2>4, EmptyPlan DEF TrustInv, RootKept
    <3> QED
      BY <2>1, <2>2, <2>3, <2>4, <3>1 DEF TrustInv, RootKept, Actors
  <2> QED
    BY <2>5, <2>6 DEF TrustInv
<1> QED
  BY <1>6, <1>7, <1>8, <1>9, <1>10, <1>11, <1>12, <1>13, <1>14, <1>15, <1>16, <1>17, <1>18 DEF Advance

\* A certificate that has expired is still of the root that signed it.
LEMMA Expired ==
    ASSUME NEW v, IsCert(v), NEW u, u = [v EXCEPT !.live = FALSE]
    PROVE  IsCert(u) /\ u.signer = v.signer
<1>1. u \in [pair : {v.pair}, signer : {v.signer}, live : {FALSE}]
  BY DEF IsCert
<1>2. u.pair = v.pair /\ u.signer = v.signer /\ u.live = FALSE
  BY <1>1
<1> QED
  BY <1>1, <1>2 DEF IsCert

\* Steps of the operator's commands, and the end of a certificate.
LEMMA CommandsKeepTrust ==
    ASSUME TrustInv,
           \/ \E b \in BOOLEAN : Restore(b) \/ RotateTLS(b)
           \/ RestoreAdvances \/ WriteArtifact(Operator) \/ RotationEnds
           \/ CertificateExpires \/ CrashCommand
    PROVE  TrustInv'
<1>1. loaded = [q \in Servers |-> loaded[q]]
  BY DEF TrustInv, Artifacts
<1>2. ASSUME UNCHANGED <<tls, trusted, writes, loaded, pc>>, writes[Operator] # <<>> => Rotating'
      PROVE  TrustInv'
  BY <1>1, <1>2, TrustFrame
<1>3. ASSUME NEW b \in BOOLEAN, Restore(b) PROVE TrustInv'
  <2>1. UNCHANGED <<tls, trusted, writes, loaded, pc>> /\ cmd = Idle
    BY <1>3 DEF Restore, BeginRestore, runVars, tlsVars
  <2>2. writes[Operator] = <<>>
    BY <2>1 DEF TrustInv, Artifacts, Rotating
  <2> QED
    BY <1>2, <2>1, <2>2
<1>4. CASE RestoreAdvances
  <2>1. UNCHANGED <<tls, trusted, writes, loaded, pc>>
    BY <1>4 DEF RestoreAdvances, runVars, tlsVars
  <2>2. ~Rotating
    BY <1>4 DEF Rotating, RestoreAdvances, RestoreStep, ValidateBackup, CopySafety, StageCopy,
         RemoveSidecars, RemoveTarget, RenameStaged, Finalize, RollBackCopy, ReleaseRestore, At
  <2>3. writes[Operator] = <<>>
    BY <2>2 DEF TrustInv, Artifacts
  <2> QED
    BY <1>2, <2>1, <2>3
<1>5. ASSUME NEW b \in BOOLEAN, RotateTLS(b) PROVE TrustInv'
  <2> DEFINE e == RotateTLSArtifacts(tls, b, UsedPairs)
  <2>1. /\ UNCHANGED <<tls, loaded, pc>> /\ e.ok
        /\ writes' = [writes EXCEPT ![Operator] = e.writes]
        /\ trusted' = IF b THEN Absent ELSE trusted
    BY <1>5 DEF RotateTLS
  <2>2. Rotating'
    <3>1. cmd' = [op |-> "rotate", at |-> "write", option |-> b, copied |-> TRUE]
      BY <1>5 DEF RotateTLS
    <3> QED
      BY <3>1, IdleAssumption DEF Rotating
  <2>3. IsPlan(e.writes) /\ (~b => Under(e.writes, tls.rootCert))
    BY <2>1, RotatePlan
  <2> HIDE DEF e
  <2>4. /\ writes' = [a \in Actors |-> writes'[a]] /\ writes'[Operator] = e.writes
        /\ \A a \in Actors \ {Operator} : writes'[a] = writes[a]
    BY <2>1 DEF TrustInv, Artifacts, Actors
  <2>5. \A p \in Servers : writes'[p] = writes[p]
    BY <2>4, ServersAssumption DEF Actors
  <2>6. Artifacts'
    <3>1. \A a \in Actors : IsPlan(writes[a])'
      BY <2>3, <2>4 DEF TrustInv, Artifacts
    <3> QED
      BY <2>1, <2>2, <2>4, <2>5, <3>1 DEF TrustInv, Artifacts
  <2>7. RootKept'
    <3> SUFFICES ASSUME trusted' # Absent PROVE RootKept'
      BY DEF RootKept
    <3>1. ~b /\ trusted' = trusted /\ trusted # Absent /\ tls.rootCert = trusted
      BY <2>1 DEF TrustInv, RootKept
    <3>2. \A a \in Actors : Under(writes[a], trusted)'
      BY <2>3, <2>4, <3>1 DEF TrustInv, RootKept
    <3> QED
      BY <2>1, <2>5, <3>1, <3>2 DEF TrustInv, RootKept
  <2> QED
    BY <2>6, <2>7 DEF TrustInv
<1>6. CASE WriteArtifact(Operator)
  BY <1>6, WriteKeepsTrust DEF Actors
<1>7. CASE RotationEnds
  <2>1. UNCHANGED <<tls, trusted, writes, loaded, pc>> /\ writes[Operator] = <<>>
    BY <1>7 DEF RotationEnds, runVars, tlsVars
  <2> QED
    BY <1>2, <2>1
<1>8. CASE CertificateExpires
  <2>1. /\ Readable(tls, "cert") /\ tls' = [tls EXCEPT !.cert.live = FALSE]
        /\ UNCHANGED <<trusted, writes, loaded, pc, cmd>>
    BY <1>8 DEF CertificateExpires, runVars
  <2> DEFINE c == [tls.cert EXCEPT !.live = FALSE]
  <2>2. IsCert(tls.cert) /\ tls = [f \in TlsFiles |-> tls[f]]
    BY <2>1 DEF TrustInv, Artifacts
  <2>3. IsCert(c) /\ c.signer = tls.cert.signer
    BY <2>2, Expired
  <2>4. tls' = [tls EXCEPT !["cert"] = c]
    BY <2>1
  <2> HIDE DEF c
  <2>5. /\ tls' = [f \in TlsFiles |-> tls'[f]] /\ tls'.cert = c
        /\ tls'.rootCert = tls.rootCert /\ tls'.rootKey = tls.rootKey
    BY <2>2, <2>4, FileWritten DEF TlsFiles
  <2>6. Rotating' = Rotating
    BY <2>1 DEF Rotating
  <2>7. Artifacts'
    BY <2>1, <2>3, <2>5, <2>6 DEF TrustInv, Artifacts
  <2>8. RootKept'
    <3>1. tls.cert \notin {Absent, Torn}
      BY <2>1 DEF Readable
    <3> QED
      BY <2>1, <2>3, <2>5, <3>1 DEF TrustInv, RootKept
  <2> QED
    BY <2>7, <2>8 DEF TrustInv
<1>9. CASE CrashCommand
  <2>1. /\ UNCHANGED <<tls, trusted, loaded, pc>>
        /\ writes' = [writes EXCEPT ![Operator] = <<>>]
    BY <1>9 DEF CrashCommand, tlsVars
  <2>2. /\ writes' = [a \in Actors |-> writes'[a]] /\ writes'[Operator] = <<>>
        /\ \A a \in Actors \ {Operator} : writes'[a] = writes[a]
    BY <2>1 DEF TrustInv, Artifacts, Actors
  <2>3. \A p \in Servers : writes'[p] = writes[p]
    BY <2>2, ServersAssumption DEF Actors
  <2>4. Artifacts'
    <3>1. \A a \in Actors : IsPlan(writes[a])'
      BY <2>2, EmptyPlan DEF TrustInv, Artifacts
    <3> QED
      BY <2>1, <2>2, <2>3, <3>1 DEF TrustInv, Artifacts
  <2>5. RootKept'
    <3>1. \A a \in Actors : trusted # Absent => Under(writes[a], trusted)'
      BY <2>1, <2>2, EmptyPlan DEF TrustInv, RootKept
    <3> QED
      BY <2>1, <2>3, <3>1 DEF TrustInv, RootKept
  <2> QED
    BY <2>4, <2>5 DEF TrustInv
<1> QED
  BY <1>3, <1>4, <1>5, <1>6, <1>7, <1>8, <1>9

\* A client that trusts the root of a server that began to serve goes on
\* trusting the server until a new root is asked for, through any number of
\* starts, expiries, rotations of the server certificate and deaths.
THEOREM TrustIsKept == Spec => []ClientsKeepTrust
<1>1. Init => TrustInv
  <2> SUFFICES ASSUME Init PROVE TrustInv
    OBVIOUS
  <2>1. trusted = Absent /\ ~Readable(tls, "cert")
    BY DEF Init, NoArtifacts, Readable, TlsFiles
  <2>2. \A a \in Actors : writes[a] = <<>>
    BY DEF Init
  <2>3. \A a \in Actors : IsPlan(writes[a])
    BY <2>2, EmptyPlan
  <2>4. /\ tls = [f \in TlsFiles |-> tls[f]] /\ writes = [a \in Actors |-> writes[a]]
        /\ loaded = [p \in Servers |-> loaded[p]]
    BY DEF Init, NoArtifacts
  <2>5. Artifacts
    BY <2>1, <2>2, <2>3, <2>4 DEF Artifacts, Actors
  <2> QED
    BY <2>1, <2>5 DEF TrustInv, RootKept
<1>2. LockInv /\ TrustInv /\ [Next]_vars => TrustInv'
  <2> SUFFICES ASSUME LockInv, TrustInv, [Next]_vars PROVE TrustInv'
    OBVIOUS
  <2>1. CASE UNCHANGED vars
    <3>1. UNCHANGED <<tls, trusted, writes, loaded, pc, cmd>>
      BY <2>1 DEF vars, restoreVars, runVars, tlsVars
    <3>2. loaded = [p \in Servers |-> loaded[p]]
      BY DEF TrustInv, Artifacts
    <3> QED
      BY <3>1, <3>2, SameCommand, TrustFrame
  <2>2. CASE Next
    BY <2>2, ServersKeepTrust, CommandsKeepTrust DEF Next
  <2> QED
    BY <2>1, <2>2
<1>3. TrustInv => ClientsKeepTrust
  BY DEF TrustInv, RootKept, ClientsKeepTrust, Serving
<1> QED
  BY <1>1, <1>2, <1>3, LockInvariant, PTL DEF Spec
=============================================================================
