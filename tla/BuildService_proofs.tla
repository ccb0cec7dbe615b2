------------------------ MODULE BuildService_proofs -------------------------
(***************************************************************************)
(* Builds are kept apart, for any number of units, slots and jobs.  The    *)
(* inductive invariant says what a job has at each statement of runBuild:  *)
(* the lock of its unit from the moment it waits for a slot, and a slot    *)
(* from the moment it runs, until both are given back.                     *)
(***************************************************************************)
EXTENDS BuildService, FiniteFacts

Accepted == {"created", "lock", "slot", "mkdir", "build", "finished", "release"}
WithLock == {"slot", "mkdir", "build", "finished", "release"}
WithSlot == {"mkdir", "build", "finished", "release"}

JobShape ==
    /\ stage \in [Ids -> Stages]
    /\ job \in [Ids -> Job]
    /\ holder \in [Units -> Ids \cup {NoJob}]
UnitKnown == \A i \in Ids : stage[i] \in Accepted => job[i].unit \in Units
LockHeld == \A i \in Ids : stage[i] \in WithLock => holder[job[i].unit] = i
SlotHeld == \A i \in Ids : stage[i] \in WithSlot => i \in slots
SlotsBounded == IsFiniteSet(slots) /\ Cardinality(slots) <= Workers
BuildInv == JobShape /\ UnitKnown /\ LockHeld /\ SlotHeld /\ SlotsBounded

\* A job that moves on to a statement where it has no more than before leaves
\* the invariant alone when neither the locks, the slots nor any unit change
\* (StartBuild's trigger, the work directory, the build itself).
LEMMA MoveOn ==
    ASSUME BuildInv, NEW i \in Ids, NEW s \in Stages, Goto(i, s),
           s \in Accepted => stage[i] \in Accepted,
           s \in WithLock => stage[i] \in WithLock,
           s \in WithSlot => stage[i] \in WithSlot,
           job' \in [Ids -> Job],
           \A j \in Ids : job'[j].unit = job[j].unit,
           holder' = holder, slots' = slots
    PROVE  BuildInv'
<1>1. stage' \in [Ids -> Stages] /\ stage'[i] = s /\ \A j \in Ids \ {i} : stage'[j] = stage[j]
  BY DEF BuildInv, JobShape, Goto
<1>2. JobShape' /\ SlotsBounded'
  BY <1>1 DEF BuildInv, JobShape, SlotsBounded
<1>3. UnitKnown' /\ SlotHeld'
  BY <1>1 DEF BuildInv, UnitKnown, SlotHeld
<1>4. LockHeld'
  BY <1>1 DEF BuildInv, LockHeld
<1> QED
  BY <1>2, <1>3, <1>4 DEF BuildInv

\* Steps that change nothing of a job but what the clean-up may: the age of its
\* result, or, of a job that is done, everything.
LEMMA Aside ==
    ASSUME BuildInv, stage' = stage, holder' = holder, slots' = slots,
           job' \in [Ids -> Job],
           \A j \in Ids : stage[j] # "done" => job'[j].unit = job[j].unit
    PROVE  BuildInv'
<1>1. JobShape' /\ SlotsBounded' /\ SlotHeld'
  BY DEF BuildInv, JobShape, SlotsBounded, SlotHeld
<1>2. UnitKnown'
  BY DEF BuildInv, UnitKnown, Accepted
<1>3. LockHeld'
  BY DEF BuildInv, LockHeld, WithLock
<1> QED
  BY <1>1, <1>2, <1>3 DEF BuildInv

\* Ages are bounded, and begin at nought.
LEMMA AgesBounded == MaxAge \in Nat /\ Unmade \in Job /\ \A a \in 0..MaxAge : Sooner(a + 1, MaxAge) \in 0..MaxAge
<1>1. MaxAge \in Nat
  BY BuildAssumption, RunnerAssumption DEF MaxAge
<1> QED
  BY <1>1 DEF Unmade, Statuses, Job, Sooner

\* completeJob and failJob record a result and leave the unit of every job.
LEMMA RecordResult ==
    ASSUME job \in [Ids -> Job], NEW i \in Ids, NEW o, Finished(i, o),
           o.status \in Statuses, o.product \in BOOLEAN, o.size \in Nat
    PROVE  /\ job' \in [Ids -> Job] /\ Goto(i, "finished")
           /\ \A j \in Ids : job'[j].unit = job[j].unit
<1> DEFINE new == [unit |-> job[i].unit, status |-> o.status, age |-> 0,
                   product |-> o.product, size |-> o.size]
<1>1. job[i].unit \in Units \cup {NoJob}
  BY DEF Job
<1>2. new \in Job /\ new.unit = job[i].unit
  BY <1>1, AgesBounded DEF Job
<1>3. job' = [job EXCEPT ![i] = new] /\ Goto(i, "finished")
  BY DEF Finished
<1> HIDE DEF new
<1> QED
  BY <1>2, <1>3

\* What StartBuild makes of a record is a record of a job.
LEMMA QueuedJob ==
    ASSUME NEW r \in Job, NEW u \in Units
    PROVE  LET new == [r EXCEPT !.unit = u, !.status = "queued"]
           IN  new \in Job /\ new.unit = u
<1>1. r \in [unit : Units \cup {NoJob}, status : Statuses, age : 0..MaxAge,
             product : BOOLEAN, size : Nat]
  BY DEF Job
<1>2. "queued" \in Statuses
  BY DEF Statuses
<1>3. [r EXCEPT !.unit = u, !.status = "queued"]
          \in [unit : Units \cup {NoJob}, status : Statuses, age : 0..MaxAge,
              product : BOOLEAN, size : Nat]
  BY <1>1, <1>2
<1>4. [r EXCEPT !.unit = u, !.status = "queued"].unit = u
  BY <1>1
<1> QED
  BY <1>3, <1>4 DEF Job

\* StartBuild and the statements of runBuild.
LEMMA JobSteps ==
    ASSUME BuildInv, NEW i \in Ids,
           (\E u \in Units : StartBuild(i, u)) \/ JobStep(i)
    PROVE  BuildInv'
<1> USE BuildAssumption
<1>0. job \in [Ids -> Job] /\ stage \in [Ids -> Stages] /\ holder \in [Units -> Ids \cup {NoJob}]
  BY DEF BuildInv, JobShape
<1>1. ASSUME NEW u \in Units, StartBuild(i, u) PROVE BuildInv'
  <2>1. job' \in [Ids -> Job] /\ job'[i].unit = u /\ \A j \in Ids \ {i} : job'[j] = job[j]
    <3> DEFINE new == [job[i] EXCEPT !.unit = u, !.status = "queued"]
    <3>1. new \in Job /\ new.unit = u
      BY <1>0, QueuedJob
    <3>2. job' = [job EXCEPT ![i] = new]
      BY <1>0, <1>1 DEF StartBuild
    <3> HIDE DEF new
    <3> QED
      BY <1>0, <3>1, <3>2
  <2>2. stage' \in [Ids -> Stages] /\ stage'[i] = "created" /\ \A j \in Ids \ {i} : stage'[j] = stage[j]
    BY <1>0, <1>1 DEF StartBuild, Goto, Stages
  <2>3. holder' = holder /\ slots' = slots
    BY <1>1 DEF StartBuild
  <2>4. JobShape' /\ SlotsBounded'
    BY <2>1, <2>2, <2>3 DEF BuildInv, JobShape, SlotsBounded
  <2>5. UnitKnown' /\ SlotHeld'
    BY <2>1, <2>2, <2>3 DEF BuildInv, UnitKnown, SlotHeld, WithSlot
  <2>6. LockHeld'
    BY <2>1, <2>2, <2>3 DEF BuildInv, LockHeld, WithLock
  <2> QED
    BY <2>4, <2>5, <2>6 DEF BuildInv
<1>2. CASE TriggerCleanup(i)
  <2>1. job' = job /\ holder' = holder /\ slots' = slots
    BY <1>2 DEF TriggerCleanup
  <2>2. CASE stage[i] = "created" /\ Goto(i, "lock")
    BY <1>0, <2>1, <2>2, MoveOn DEF Stages, Accepted, WithLock, WithSlot
  <2>3. CASE stage[i] = "finished" /\ Goto(i, "release")
    BY <1>0, <2>1, <2>3, MoveOn DEF Stages, Accepted, WithLock, WithSlot
  <2> QED
    BY <1>2, <2>2, <2>3 DEF TriggerCleanup
<1>3. CASE LockUnit(i)
  <2>1. stage' \in [Ids -> Stages] /\ stage'[i] = "slot" /\ \A j \in Ids \ {i} : stage'[j] = stage[j]
    BY <1>0, <1>3 DEF LockUnit, Goto, Stages
  <2>2. job' = job /\ slots' = slots
    BY <1>3 DEF LockUnit
  <2>3. stage[i] = "lock" /\ job[i].unit \in Units /\ holder[job[i].unit] = NoJob
    BY <1>3 DEF LockUnit, BuildInv, UnitKnown, Accepted
  <2>4. holder' = [holder EXCEPT ![job[i].unit] = i]
    BY <1>3 DEF LockUnit
  <2>5. \A j \in Ids \ {i} : stage[j] \in WithLock => job[j].unit # job[i].unit
    BY <2>3 DEF BuildInv, LockHeld, Ids
  <2>6. JobShape' /\ SlotsBounded'
    BY <1>0, <2>1, <2>2, <2>4 DEF BuildInv, JobShape, SlotsBounded
  <2>7. UnitKnown' /\ SlotHeld'
    BY <2>1, <2>2, <2>3 DEF BuildInv, UnitKnown, SlotHeld, WithSlot
  <2>8. LockHeld'
    <3> SUFFICES ASSUME NEW j \in Ids, stage'[j] \in WithLock PROVE holder'[job[j].unit] = j
      BY <2>2 DEF LockHeld
    <3>1. CASE j = i
      BY <1>0, <2>3, <2>4, <3>1
    <3>2. CASE j # i
      <4>1. stage[j] \in WithLock /\ job[j].unit \in Units /\ holder[job[j].unit] = j
        BY <2>1, <3>2 DEF BuildInv, LockHeld, UnitKnown, WithLock, Accepted
      <4> QED
        BY <1>0, <2>4, <2>5, <3>2, <4>1
    <3> QED
      BY <3>1, <3>2
  <2> QED
    BY <2>6, <2>7, <2>8 DEF BuildInv
<1>4. CASE TakeSlot(i)
  <2>1. stage' \in [Ids -> Stages] /\ stage'[i] = "mkdir" /\ \A j \in Ids \ {i} : stage'[j] = stage[j]
    BY <1>0, <1>4 DEF TakeSlot, Goto, Stages
  <2>2. job' \in [Ids -> Job] /\ \A j \in Ids : job'[j].unit = job[j].unit
    <3>1. job' = [job EXCEPT ![i].status = "running"]
      BY <1>4 DEF TakeSlot
    <3>2. job[i] \in Job
      BY <1>0
    <3>3. [job[i] EXCEPT !.status = "running"] \in Job
      <4>1. "running" \in Statuses
        BY DEF Statuses
      <4> QED
        BY <3>2, <4>1 DEF Job
    <3> QED
      BY <1>0, <3>1, <3>2, <3>3
  <2>3. stage[i] = "slot" /\ slots' = slots \cup {i} /\ Cardinality(slots) < Workers /\ holder' = holder
    BY <1>4 DEF TakeSlot
  <2>4. IsFiniteSet(slots') /\ Cardinality(slots') <= Workers
    <3>1. IsFiniteSet(slots) /\ Cardinality(slots) \in Nat /\ Cardinality(slots) <= Workers
      BY FS_CardinalityType DEF BuildInv, SlotsBounded
    <3>2. IsFiniteSet(slots \cup {i}) /\ Cardinality(slots \cup {i}) =
                                       (IF i \in slots THEN Cardinality(slots) ELSE Cardinality(slots) + 1)
      BY <3>1, FS_AddElement
    <3>3. Cardinality(slots \cup {i}) <= Workers
      BY <2>3, <3>1, <3>2, BuildAssumption
    <3> QED
      BY <2>3, <3>2, <3>3
  <2>5. JobShape' /\ SlotsBounded'
    BY <1>0, <2>1, <2>2, <2>3, <2>4 DEF BuildInv, JobShape, SlotsBounded
  <2>6. UnitKnown' /\ SlotHeld'
    BY <2>1, <2>2, <2>3 DEF BuildInv, UnitKnown, SlotHeld, Accepted
  <2>7. LockHeld'
    BY <2>1, <2>2, <2>3 DEF BuildInv, LockHeld, WithLock
  <2> QED
    BY <2>5, <2>6, <2>7 DEF BuildInv
<1>5. CASE MakeWorkDir(i)
  <2>1. stage[i] = "mkdir" /\ holder' = holder /\ slots' = slots
    BY <1>5 DEF MakeWorkDir
  <2>2. CASE Goto(i, "build") /\ job' = job
    BY <1>0, <2>1, <2>2, MoveOn DEF Stages, Accepted, WithLock, WithSlot
  <2>3. CASE Finished(i, [status |-> "failed", product |-> FALSE, size |-> 0])
    <3>1. job' \in [Ids -> Job] /\ (\A j \in Ids : job'[j].unit = job[j].unit) /\ Goto(i, "finished")
      BY <1>0, <2>3, RecordResult DEF Statuses
    <3> QED
      BY <2>1, <3>1, MoveOn DEF Stages, Accepted, WithLock, WithSlot
  <2> QED
    BY <1>5, <2>2, <2>3 DEF MakeWorkDir
<1>6. CASE RunBuild(i)
  <2>1. PICK o \in Outcomes : Finished(i, o)
    BY <1>6 DEF RunBuild
  <2>2. stage[i] = "build" /\ holder' = holder /\ slots' = slots
    BY <1>6 DEF RunBuild
  <2>3. o.status \in Statuses /\ o.product \in BOOLEAN /\ o.size \in Nat
    BY DEF Statuses
  <2>4. job' \in [Ids -> Job] /\ (\A j \in Ids : job'[j].unit = job[j].unit) /\ Goto(i, "finished")
    BY <1>0, <2>1, <2>3, RecordResult
  <2> QED
    BY <2>2, <2>4, MoveOn DEF Stages, Accepted, WithLock, WithSlot
<1>7. CASE Release(i)
  <2>1. stage' \in [Ids -> Stages] /\ stage'[i] = "done" /\ \A j \in Ids \ {i} : stage'[j] = stage[j]
    BY <1>0, <1>7 DEF Release, Goto, Stages
  <2>2. job' \in [Ids -> Job] /\ \A j \in Ids \ {i} : job'[j] = job[j]
    <3>1. Unmade \in Job
      BY AgesBounded
    <3>2. job' = [job EXCEPT ![i] = IF i \in jobs THEN job[i] ELSE Unmade]
      BY <1>0, <1>7 DEF Release
    <3> QED
      BY <1>0, <3>1, <3>2
  <2>3. stage[i] = "release" /\ slots' = slots \ {i} /\ holder' = [holder EXCEPT ![job[i].unit] = NoJob]
    BY <1>7 DEF Release
  <2>4. job[i].unit \in Units /\ holder[job[i].unit] = i
    BY <2>3 DEF BuildInv, UnitKnown, LockHeld, Accepted, WithLock
  <2>5. IsFiniteSet(slots') /\ Cardinality(slots') <= Workers
    <3>1. IsFiniteSet(slots) /\ Cardinality(slots) \in Nat /\ Cardinality(slots) <= Workers
      BY FS_CardinalityType DEF BuildInv, SlotsBounded
    <3>2. IsFiniteSet(slots \ {i}) /\ Cardinality(slots \ {i}) =
                                    (IF i \in slots THEN Cardinality(slots) - 1 ELSE Cardinality(slots))
      BY <3>1, FS_RemoveElement
    <3>3. Cardinality(slots \ {i}) <= Workers
      BY <3>1, <3>2, BuildAssumption
    <3> QED
      BY <2>3, <3>2, <3>3
  <2>6. JobShape' /\ SlotsBounded'
    BY <1>0, <2>1, <2>2, <2>3, <2>5 DEF JobShape, SlotsBounded
  <2>7. UnitKnown' /\ SlotHeld'
    BY <2>1, <2>2, <2>3 DEF BuildInv, UnitKnown, SlotHeld, Accepted, WithSlot
  <2>8. LockHeld'
    <3> SUFFICES ASSUME NEW j \in Ids, stage'[j] \in WithLock PROVE holder'[job'[j].unit] = j
      BY DEF LockHeld
    <3>1. j # i
      BY <2>1 DEF WithLock
    <3>2. stage[j] \in WithLock /\ job'[j] = job[j]
      BY <2>1, <2>2, <3>1
    <3>3. job[j].unit \in Units /\ holder[job[j].unit] = j
      BY <3>2 DEF BuildInv, LockHeld, UnitKnown, WithLock, Accepted
    <3> QED
      BY <1>0, <2>3, <2>4, <3>1, <3>2, <3>3
  <2> QED
    BY <2>6, <2>7, <2>8 DEF BuildInv
<1> QED
  BY <1>1, <1>2, <1>3, <1>4, <1>5, <1>6, <1>7 DEF JobStep

\* The clean-up, the runner and the clock.
LEMMA OtherSteps ==
    ASSUME BuildInv,
           Pass \/ TimePasses \/ Starts(TakeTrigger) \/ Starts(TimerFires)
             \/ Starts(Close) \/ Starts(Stop)
    PROVE  BuildInv'
<1>0. job \in [Ids -> Job]
  BY DEF BuildInv, JobShape
<1>1. CASE Snapshot \/ LimitBytes \/ (\E i \in Ids : RemoveDir(i)) \/ Return
             \/ Starts(TakeTrigger) \/ Starts(TimerFires) \/ Starts(Close) \/ Starts(Stop)
  <2>1. job' = job /\ stage' = stage /\ holder' = holder /\ slots' = slots
    BY <1>1 DEF Snapshot, LimitBytes, RemoveDir, Return, Starts
  <2> QED
    BY <1>0, <2>1, Aside
<1>2. CASE DeleteJobs
  <2>1. stage' = stage /\ holder' = holder /\ slots' = slots
    BY <1>2 DEF DeleteJobs
  <2>2. Unmade \in Job
    BY AgesBounded
  <2>3. job' \in [Ids -> Job] /\ \A j \in Ids : stage[j] # "done" => job'[j].unit = job[j].unit
    BY <1>0, <1>2, <2>2 DEF DeleteJobs
  <2> QED
    BY <2>1, <2>3, Aside
<1>3. CASE TimePasses
  <2>1. stage' = stage /\ holder' = holder /\ slots' = slots
    BY <1>3 DEF TimePasses
  <2>3. \A a \in 0..MaxAge : Sooner(a + 1, MaxAge) \in 0..MaxAge
    BY AgesBounded
  <2>4. \A j \in Ids : /\ [job[j] EXCEPT !.age = Sooner(@ + 1, MaxAge)] \in Job
                       /\ [job[j] EXCEPT !.age = Sooner(@ + 1, MaxAge)].unit = job[j].unit
    BY <1>0, <2>3 DEF Job
  <2>5. job' \in [Ids -> Job] /\ \A j \in Ids : job'[j].unit = job[j].unit
    BY <1>0, <1>3, <2>4 DEF TimePasses
  <2> QED
    BY <2>1, <2>5, Aside
<1> QED
  BY <1>1, <1>2, <1>3 DEF Pass

\* What a job has at each statement of runBuild (the lock of its unit, a slot)
\* and that slots are never over-committed.
THEOREM BuildInvariant == Spec => []BuildInv
<1>1. Init => BuildInv
  <2> SUFFICES ASSUME Init PROVE BuildInv
    OBVIOUS
  <2>1. JobShape
    <3>1. Unmade \in Job
      BY AgesBounded
    <3> QED
      BY <3>1 DEF Init, JobShape, Stages
  <2>2. UnitKnown /\ LockHeld /\ SlotHeld
    BY DEF Init, UnitKnown, LockHeld, SlotHeld, Accepted, WithLock, WithSlot
  <2>3. SlotsBounded
    BY FS_EmptySet, BuildAssumption DEF Init, SlotsBounded
  <2> QED
    BY <2>1, <2>2, <2>3 DEF BuildInv
<1>2. BuildInv /\ [Next]_vars => BuildInv'
  <2> SUFFICES ASSUME BuildInv, [Next]_vars PROVE BuildInv'
    OBVIOUS
  <2>1. CASE UNCHANGED vars
    <3>1. job' = job /\ stage' = stage /\ holder' = holder /\ slots' = slots
      BY <2>1 DEF vars, buildVars
    <3> QED
      BY <3>1, Aside DEF BuildInv, JobShape
  <2>2. CASE Next
    <3>1. CASE \E i \in Ids : FindProduct(i) \/ ReadProduct(i)
      <4>1. job' = job /\ stage' = stage /\ holder' = holder /\ slots' = slots
        BY <3>1 DEF FindProduct, ReadProduct
      <4> QED
        BY <4>1, Aside DEF BuildInv, JobShape
    <3> QED
      BY <2>2, <3>1, JobSteps, OtherSteps DEF Next
  <2> QED
    BY <2>1, <2>2
<1> QED
  BY <1>1, <1>2, PTL DEF Spec

\* Two builds never work in one unit, and never more at a time than there are
\* slots (runBuild), for any number of units, slots and jobs.
THEOREM BuildsKeptApart == Spec => []BuildsApart
<1>1. BuildInv => BuildsApart
  <2> SUFFICES ASSUME BuildInv PROVE BuildsApart
    OBVIOUS
  <2>1. \A i, j \in Ids : i # j /\ Working(i) /\ Working(j) => job[i].unit # job[j].unit
    BY DEF BuildInv, LockHeld, WithLock, Working
  <2>2. {i \in Ids : Working(i)} \in SUBSET slots
    BY DEF BuildInv, SlotHeld, WithSlot, Working
  <2>3. Cardinality({i \in Ids : Working(i)}) <= Cardinality(slots)
    BY <2>2, FS_Subset DEF BuildInv, SlotsBounded
  <2>4. IsFiniteSet({i \in Ids : Working(i)})
    BY <2>2, FS_Subset DEF BuildInv, SlotsBounded
  <2>5. Cardinality({i \in Ids : Working(i)}) <= Workers
    BY <2>3, <2>4, FS_CardinalityType, BuildAssumption DEF BuildInv, SlotsBounded
  <2> QED
    BY <2>1, <2>5 DEF BuildsApart
<1> QED
  BY <1>1, BuildInvariant, PTL

-----------------------------------------------------------------------------
(* What the clean-up leaves alone.  It works on a snapshot, in steps: what   *)
(* has to be remembered between them is that a job it chose had ended, which *)
(* it never undoes, and that it forgets jobs before their directories.       *)

UnderWay == {"created", "lock", "slot", "mkdir", "build"}
Ended == {"finished", "release", "done"}

Fresh == \A i \in Ids : stage[i] = "none" => job[i] = Unmade
Known ==
    \A i \in Ids : stage[i] \in UnderWay =>
        i \in jobs /\ job[i].status \in {"queued", "running"} /\ job[i].product = FALSE
ChosenEnded == \A i \in removals \cup retained : i \in Ids /\ stage[i] \in Ended
DirectoryThere == \A i \in Ids : stage[i] = "build" \/ (i \in jobs /\ job[i].product) => i \in dirs
ForgottenFirst == pass = "dirs" => removals \cap jobs = {}
KeepInv == JobShape /\ jobs \subseteq Ids /\ Fresh /\ Known /\ ChosenEnded /\ DirectoryThere /\ ForgottenFirst

\* A job that was not started yet, or that was collected, has no result.
LEMMA UnmadeFields == Unmade.status = "" /\ Unmade.product = FALSE
BY DEF Unmade

\* StartBuild and the statements of runBuild.
LEMMA JobStepsKeep ==
    ASSUME KeepInv, JobShape', NEW i \in Ids,
           (\E u \in Units : StartBuild(i, u)) \/ JobStep(i)
    PROVE  KeepInv'
<1>0. job \in [Ids -> Job] /\ stage \in [Ids -> Stages]
  BY DEF KeepInv, JobShape
<1>1. ASSUME NEW u \in Units, StartBuild(i, u) PROVE KeepInv'
  <2>1. stage[i] = "none" /\ job[i] = Unmade
    BY <1>1 DEF StartBuild, KeepInv, Fresh
  <2>2. stage'[i] = "created" /\ \A j \in Ids \ {i} : stage'[j] = stage[j] /\ job'[j] = job[j]
    BY <1>0, <1>1 DEF StartBuild, Goto
  <2>3. job'[i].status = "queued" /\ job'[i].product = FALSE
    <3> DEFINE new == [job[i] EXCEPT !.unit = u, !.status = "queued"]
    <3>1. new.status = "queued" /\ new.product = job[i].product
      BY <1>0 DEF Job
    <3>2. job' = [job EXCEPT ![i] = new]
      BY <1>0, <1>1 DEF StartBuild
    <3>3. job[i].product = FALSE
      BY <2>1, UnmadeFields
    <3> HIDE DEF new
    <3> QED
      BY <1>0, <3>1, <3>2, <3>3
  <2>4. jobs' = jobs \cup {i} /\ dirs' = dirs /\ pass' = pass /\ removals' = removals /\ retained' = retained
    BY <1>1 DEF StartBuild
  <2>5. jobs' \subseteq Ids /\ Fresh' /\ Known'
    BY <2>2, <2>3, <2>4 DEF KeepInv, Fresh, Known
  <2>6. ChosenEnded'
    BY <2>1, <2>2, <2>4 DEF KeepInv, ChosenEnded, Ended
  <2>7. DirectoryThere'
    BY <2>2, <2>3, <2>4 DEF KeepInv, DirectoryThere
  <2>8. ForgottenFirst'
    BY <2>1, <2>4 DEF KeepInv, ForgottenFirst, ChosenEnded, Ended
  <2> QED
    BY <2>5, <2>6, <2>7, <2>8 DEF KeepInv
<1>2. CASE TriggerCleanup(i) \/ LockUnit(i)
  <2>1. job' = job /\ jobs' = jobs /\ dirs' = dirs /\ pass' = pass /\ removals' = removals /\ retained' = retained
    BY <1>2 DEF TriggerCleanup, LockUnit
  <2>2. \/ stage[i] \in {"created", "lock"} /\ stage'[i] \in {"lock", "slot"}
        \/ stage[i] = "finished" /\ stage'[i] = "release"
    BY <1>0, <1>2 DEF TriggerCleanup, LockUnit, Goto
  <2>3. \A j \in Ids \ {i} : stage'[j] = stage[j]
    BY <1>0, <1>2 DEF TriggerCleanup, LockUnit, Goto
  <2> QED
    BY <2>1, <2>2, <2>3 DEF KeepInv, Fresh, Known, ChosenEnded, DirectoryThere, ForgottenFirst, UnderWay, Ended
<1>3. CASE TakeSlot(i)
  <2>1. stage[i] = "slot" /\ jobs' = jobs /\ dirs' = dirs /\ pass' = pass /\ removals' = removals /\ retained' = retained
    BY <1>3 DEF TakeSlot
  <2>2. stage'[i] = "mkdir" /\ \A j \in Ids \ {i} : stage'[j] = stage[j] /\ job'[j] = job[j]
    BY <1>0, <1>3 DEF TakeSlot, Goto
  <2>3. job'[i].status = "running" /\ job'[i].product = job[i].product
    BY <1>0, <1>3 DEF TakeSlot, Job
  <2> QED
    BY <2>1, <2>2, <2>3 DEF KeepInv, Fresh, Known, ChosenEnded, DirectoryThere, ForgottenFirst, UnderWay, Ended
<1>4. CASE MakeWorkDir(i)
  <2>1. stage[i] = "mkdir" /\ jobs' = jobs /\ pass' = pass /\ removals' = removals /\ retained' = retained
    BY <1>4 DEF MakeWorkDir
  <2>2. CASE dirs' = dirs \cup {i} /\ Goto(i, "build") /\ job' = job
    <3>1. stage'[i] = "build" /\ \A j \in Ids \ {i} : stage'[j] = stage[j]
      BY <1>0, <2>2 DEF Goto
    <3> QED
      BY <2>1, <2>2, <3>1 DEF KeepInv, Fresh, Known, ChosenEnded, DirectoryThere, ForgottenFirst, UnderWay, Ended
  <2>3. CASE dirs' = dirs /\ Finished(i, [status |-> "failed", product |-> FALSE, size |-> 0])
    <3>1. stage'[i] = "finished" /\ \A j \in Ids \ {i} : stage'[j] = stage[j] /\ job'[j] = job[j]
      BY <1>0, <2>3 DEF Finished, Goto
    <3>2. job'[i].product = FALSE
      BY <1>0, <2>3 DEF Finished
    <3> QED
      BY <2>1, <2>3, <3>1, <3>2 DEF KeepInv, Fresh, Known, ChosenEnded, DirectoryThere, ForgottenFirst, UnderWay, Ended
  <2> QED
    BY <1>4, <2>2, <2>3 DEF MakeWorkDir
<1>5. CASE RunBuild(i)
  <2>1. stage[i] = "build" /\ jobs' = jobs /\ dirs' = dirs /\ pass' = pass /\ removals' = removals /\ retained' = retained
    BY <1>5 DEF RunBuild
  <2>2. stage'[i] = "finished" /\ \A j \in Ids \ {i} : stage'[j] = stage[j] /\ job'[j] = job[j]
    BY <1>0, <1>5 DEF RunBuild, Finished, Goto
  <2> QED
    BY <2>1, <2>2 DEF KeepInv, Fresh, Known, ChosenEnded, DirectoryThere, ForgottenFirst, UnderWay, Ended
<1>6. CASE Release(i)
  <2>1. stage[i] = "release" /\ jobs' = jobs /\ dirs' = dirs /\ pass' = pass /\ removals' = removals /\ retained' = retained
    BY <1>6 DEF Release
  <2>2. stage'[i] = "done" /\ \A j \in Ids \ {i} : stage'[j] = stage[j] /\ job'[j] = job[j]
    BY <1>0, <1>6 DEF Release, Goto
  <2>3. job'[i] = IF i \in jobs THEN job[i] ELSE Unmade
    BY <1>0, <1>6 DEF Release
  <2> QED
    BY <2>1, <2>2, <2>3 DEF KeepInv, Fresh, Known, ChosenEnded, DirectoryThere, ForgottenFirst, UnderWay, Ended
<1> QED
  BY <1>1, <1>2, <1>3, <1>4, <1>5, <1>6 DEF JobStep

\* A job whose result is recorded has ended: what Snapshot may choose.
LEMMA TerminalEnded ==
    ASSUME KeepInv, NEW i \in Ids, Terminal(i)
    PROVE  stage[i] \in Ended
<1>1. stage[i] \in Stages
  BY DEF KeepInv, JobShape
<1>2. stage[i] # "none"
  BY UnmadeFields DEF KeepInv, Fresh, Terminal
<1>3. stage[i] \notin UnderWay
  BY DEF KeepInv, Known, Terminal
<1> QED
  BY <1>1, <1>2, <1>3 DEF Stages, UnderWay, Ended

\* The clean-up, the runner and the clock.
LEMMA OtherStepsKeep ==
    ASSUME KeepInv, JobShape',
           Pass \/ TimePasses \/ Starts(TakeTrigger) \/ Starts(TimerFires)
             \/ Starts(Close) \/ Starts(Stop)
    PROVE  KeepInv'
<1>0. job \in [Ids -> Job] /\ stage \in [Ids -> Stages]
  BY DEF KeepInv, JobShape
<1>1. CASE Snapshot
  <2>1. job' = job /\ stage' = stage /\ jobs' = jobs /\ dirs' = dirs /\ pass' # "dirs"
    BY <1>1 DEF Snapshot
  <2>2. removals' \cup retained' \subseteq removals \cup retained \cup {i \in jobs : Terminal(i)}
    BY <1>1 DEF Snapshot, OverCount
  <2>3. ChosenEnded'
    BY <2>1, <2>2, TerminalEnded DEF KeepInv, ChosenEnded
  <2> QED
    BY <2>1, <2>3 DEF KeepInv, Fresh, Known, DirectoryThere, ForgottenFirst
<1>2. CASE LimitBytes
  <2>1. job' = job /\ stage' = stage /\ jobs' = jobs /\ dirs' = dirs /\ pass' = "delete"
    BY <1>2 DEF LimitBytes
  <2>2. OverBytes(retained) \subseteq retained
    BY DEF OverBytes
  <2>3. removals' \cup retained' \subseteq removals \cup retained
    BY <1>2, <2>2 DEF LimitBytes
  <2> QED
    BY <2>1, <2>3 DEF KeepInv, Fresh, Known, ChosenEnded, DirectoryThere, ForgottenFirst
<1>3. CASE DeleteJobs
  <2>1. stage' = stage /\ jobs' = jobs \ removals /\ dirs' = dirs /\ removals' = removals /\ retained' = retained
    BY <1>3 DEF DeleteJobs
  <2>2. \A j \in Ids : job'[j] = IF j \in removals /\ stage[j] = "done" THEN Unmade ELSE job[j]
    BY <1>3 DEF DeleteJobs
  <2>3. Fresh' /\ ChosenEnded' /\ ForgottenFirst'
    BY <2>1, <2>2 DEF KeepInv, Fresh, ChosenEnded, ForgottenFirst
  <2>4. Known'
    BY <2>1, <2>2 DEF KeepInv, Known, ChosenEnded, UnderWay, Ended
  <2>5. DirectoryThere'
    BY <2>1, <2>2 DEF KeepInv, DirectoryThere
  <2> QED
    BY <2>1, <2>3, <2>4, <2>5 DEF KeepInv
<1>4. ASSUME NEW i \in Ids, RemoveDir(i) PROVE KeepInv'
  <2>1. job' = job /\ stage' = stage /\ jobs' = jobs /\ pass = "dirs" /\ pass' = pass /\ retained' = retained
    BY <1>4 DEF RemoveDir
  <2>2. i \in removals /\ removals' = removals \ {i} /\ dirs \ {i} \subseteq dirs'
    BY <1>4 DEF RemoveDir
  <2>3. i \notin jobs /\ stage[i] \in Ended
    BY <2>1, <2>2 DEF KeepInv, ForgottenFirst, ChosenEnded
  <2>4. DirectoryThere'
    BY <2>1, <2>2, <2>3 DEF KeepInv, DirectoryThere, Ended
  <2> QED
    BY <2>1, <2>2, <2>4 DEF KeepInv, Fresh, Known, ChosenEnded, ForgottenFirst
<1>5. CASE Return
  <2>1. /\ job' = job /\ stage' = stage /\ jobs' = jobs /\ dirs' = dirs /\ pass' = "none"
        /\ removals' = removals /\ retained' = {}
    BY <1>5 DEF Return
  <2> QED
    BY <2>1 DEF KeepInv, Fresh, Known, ChosenEnded, DirectoryThere, ForgottenFirst
<1>6. CASE Starts(TakeTrigger) \/ Starts(TimerFires) \/ Starts(Close) \/ Starts(Stop)
  <2>1. /\ job' = job /\ stage' = stage /\ jobs' = jobs /\ dirs' = dirs /\ pass' \in {pass, "snapshot"}
        /\ removals' = removals /\ retained' = retained
    BY <1>6 DEF Starts
  <2> QED
    BY <2>1 DEF KeepInv, Fresh, Known, ChosenEnded, DirectoryThere, ForgottenFirst
<1>7. CASE TimePasses
  <2>1. /\ stage' = stage /\ jobs' = jobs /\ dirs' = dirs /\ pass' = pass
        /\ removals' = removals /\ retained' = retained
    BY <1>7 DEF TimePasses
  <2>2. \A j \in Ids : job'[j].status = job[j].status /\ job'[j].product = job[j].product
    BY <1>0, <1>7 DEF TimePasses, Job
  <2>3. \A j \in Ids : stage[j] = "none" => job'[j] = job[j]
    BY <1>7, UnmadeFields DEF TimePasses, KeepInv, Fresh, Terminal
  <2> QED
    BY <2>1, <2>2, <2>3 DEF KeepInv, Fresh, Known, ChosenEnded, DirectoryThere, ForgottenFirst
<1> QED
  BY <1>1, <1>2, <1>3, <1>4, <1>5, <1>6, <1>7 DEF Pass

\* What cleanupJobs chooses has ended, and what it has not chosen keeps its
\* entry and its directory.
THEOREM KeepInvariant == Spec => []KeepInv
<1>1. Init => KeepInv
  <2> SUFFICES ASSUME Init PROVE KeepInv
    OBVIOUS
  <2>1. JobShape
    <3>1. Unmade \in Job
      BY AgesBounded
    <3> QED
      BY <3>1 DEF Init, JobShape, Stages
  <2> QED
    BY <2>1 DEF Init, KeepInv, Fresh, Known, ChosenEnded, DirectoryThere, ForgottenFirst, UnderWay
<1>2. KeepInv /\ BuildInv' /\ [Next]_vars => KeepInv'
  <2> SUFFICES ASSUME KeepInv, BuildInv', [Next]_vars PROVE KeepInv'
    OBVIOUS
  <2>0. JobShape'
    BY DEF BuildInv
  <2>1. CASE UNCHANGED vars
    BY <2>0, <2>1 DEF vars, buildVars, KeepInv, Fresh, Known, ChosenEnded, DirectoryThere, ForgottenFirst
  <2>2. CASE Next
    <3>1. CASE \E i \in Ids : FindProduct(i) \/ ReadProduct(i)
      BY <2>0, <3>1 DEF FindProduct, ReadProduct, KeepInv, Fresh, Known, ChosenEnded,
                        DirectoryThere, ForgottenFirst
    <3> QED
      BY <2>0, <2>2, <3>1, JobStepsKeep, OtherStepsKeep DEF Next
  <2> QED
    BY <2>1, <2>2
<1> QED
  BY <1>1, <1>2, BuildInvariant, PTL DEF Spec

\* A job under way stays known and keeps its directory, whatever the clean-up
\* does at the same time (cleanupJobs, buildRemovalsForByteLimit).
THEOREM LiveBuildsKept == Spec => []LiveBuildKept
<1>1. KeepInv => LiveBuildKept
  BY DEF KeepInv, Known, DirectoryThere, UnderWay, LiveBuildKept
<1> QED
  BY <1>1, KeepInvariant, PTL

\* A job whose product is being fetched has ended, and nothing but the clean-up
\* takes the product from it.
FetchInv ==
    /\ fetching \subseteq Ids
    /\ \A i \in fetching : stage[i] \in Ended /\ (i \in jobs => job[i].product)

LEMMA NextFetch == KeepInv /\ FetchInv /\ [Next]_vars => FetchInv'
<1> SUFFICES ASSUME KeepInv, FetchInv, [Next]_vars PROVE FetchInv'
  OBVIOUS
<1>0. job \in [Ids -> Job] /\ stage \in [Ids -> Stages] /\ jobs \subseteq Ids
  BY DEF KeepInv, JobShape
<1> USE DEF FetchInv, Ended
<1>1. ASSUME NEW i \in Ids, NEW u \in Units, StartBuild(i, u) PROVE FetchInv'
  <2>1. i \notin fetching /\ jobs' = jobs \cup {i} /\ fetching' = fetching
        /\ \A j \in Ids \ {i} : stage'[j] = stage[j] /\ job'[j] = job[j]
    BY <1>0, <1>1 DEF StartBuild, Goto
  <2> QED
    BY <2>1
<1>2. ASSUME NEW i \in Ids, TriggerCleanup(i) \/ LockUnit(i) PROVE FetchInv'
  <2>1. i \in fetching => stage'[i] \in Ended
    BY <1>0, <1>2 DEF TriggerCleanup, LockUnit, Goto
  <2>2. UNCHANGED <<jobs, job, fetching>> /\ \A j \in Ids \ {i} : stage'[j] = stage[j]
    BY <1>0, <1>2 DEF TriggerCleanup, LockUnit, Goto
  <2> QED
    BY <2>1, <2>2
<1>3. ASSUME NEW i \in Ids, TakeSlot(i) \/ MakeWorkDir(i) \/ RunBuild(i) PROVE FetchInv'
  <2>1. i \notin fetching /\ UNCHANGED <<jobs, fetching>>
        /\ \A j \in Ids \ {i} : stage'[j] = stage[j] /\ job'[j] = job[j]
    BY <1>0, <1>3 DEF TakeSlot, MakeWorkDir, RunBuild, Finished, Goto
  <2> QED
    BY <2>1
<1>4. ASSUME NEW i \in Ids, Release(i) PROVE FetchInv'
  <2>1. UNCHANGED <<jobs, fetching>> /\ stage'[i] = "done" /\ (i \in jobs => job'[i] = job[i])
        /\ \A j \in Ids \ {i} : stage'[j] = stage[j] /\ job'[j] = job[j]
    BY <1>0, <1>4 DEF Release, Goto
  <2> QED
    BY <2>1
<1>5. CASE DeleteJobs
  <2>1. stage' = stage /\ fetching' = fetching /\ jobs' \subseteq jobs
        /\ \A i \in jobs' : job'[i] = job[i]
    BY <1>0, <1>5 DEF DeleteJobs
  <2> QED
    BY <2>1
<1>6. CASE TimePasses
  <2>1. UNCHANGED <<stage, fetching, jobs>> /\ \A i \in Ids : job'[i].product = job[i].product
    BY <1>0, <1>6 DEF TimePasses, Job
  <2> QED
    BY <2>1
<1>7. CASE Snapshot \/ LimitBytes \/ (\E i \in Ids : RemoveDir(i)) \/ Return
             \/ Starts(TakeTrigger) \/ Starts(TimerFires) \/ Starts(Close) \/ Starts(Stop)
             \/ UNCHANGED vars
  <2>1. UNCHANGED <<stage, fetching, jobs, job>>
    BY <1>7 DEF Snapshot, LimitBytes, RemoveDir, Return, Starts, vars, buildVars
  <2> QED
    BY <2>1
<1>8. ASSUME NEW i \in Ids, FindProduct(i) PROVE FetchInv'
  <2>1. i \in jobs /\ job[i].status = "success" /\ job[i].product
        /\ fetching' = fetching \cup {i} /\ UNCHANGED <<stage, jobs, job>>
    BY <1>8 DEF FindProduct, GetBuildStatus
  <2>2. stage[i] \in Ended
    BY <2>1, TerminalEnded DEF Terminal
  <2> QED
    BY <2>1, <2>2
<1>9. ASSUME NEW i \in Ids, ReadProduct(i) PROVE FetchInv'
  BY <1>9 DEF ReadProduct
<1> QED
  BY <1>1, <1>2, <1>3, <1>4, <1>5, <1>6, <1>7, <1>8, <1>9 DEF Next, JobStep, Pass

\* A product that GetBuildProduct has found is on disk until cleanupJobs forgets
\* its job.
THEOREM ProductsReadable == Spec => []KnownProductReadable
<1>1. Init => FetchInv
  BY DEF Init, FetchInv
<1>2. KeepInv /\ FetchInv => KnownProductReadable
  BY DEF KeepInv, DirectoryThere, FetchInv, KnownProductReadable, Product, GetBuildStatus
<1> QED
  BY <1>1, <1>2, NextFetch, KeepInvariant, PTL DEF Spec

-----------------------------------------------------------------------------
(* The limits.  A clean-up in steps meets jobs that are added and finish     *)
(* meanwhile.  Each of them triggers another clean-up, so that the invariant *)
(* says nothing while a trigger is outstanding; without one, what is left of *)
(* the map when the chosen jobs are gone is within the limits, as far as the *)
(* clean-up has come.  The bytes are summed over all results: the order in   *)
(* which LimitBytes goes through them may change when ages reach their bound.*)

\* No clean-up is due: nobody has a trigger to send, and none is in the channel.
Quiet == ~triggerCh /\ \A i \in Ids : stage[i] \notin {"created", "finished"}

\* Jobs that the clean-up has chosen and not yet forgotten, the others, and
\* those of them that have a result.
Condemned == IF pass \in {"bytes", "delete"} THEN removals ELSE {}
Left == jobs \ Condemned
Results == {i \in Left : Terminal(i)}

PassRuns == phase = "running" <=> pass # "none"
CountHolds == Results = {} \/ Cardinality(Left) <= MaxRetainedJobs
BytesHold == MaxRetainedBytes > 0 => SumFunctionOnSet(DirBytes, Results) <= MaxRetainedBytes
LimitInv ==
    /\ PassRuns
    /\ Quiet /\ pass # "snapshot" => CountHolds
    /\ Quiet /\ pass = "bytes" => retained = Results
    /\ Quiet /\ pass \in {"delete", "dirs", "none"} => BytesHold

\* Facts about what a job's directory takes.
LEMMA SizesAreNumbers == KeepInv => IsFiniteSet(Ids) /\ \A i \in Ids : DirBytes[i] \in Nat
<1> SUFFICES ASSUME KeepInv PROVE IsFiniteSet(Ids) /\ \A i \in Ids : DirBytes[i] \in Nat
  OBVIOUS
<1>1. IsFiniteSet(Ids)
  BY FS_Interval, BuildAssumption DEF Ids
<1>2. \A i \in Ids : job[i].size \in Nat
  BY DEF KeepInv, JobShape, Job
<1> QED
  BY <1>1, <1>2 DEF DirBytes

\* Older orders any set of jobs: by the time of the result, then by creation.
LEMMA OlderOrders ==
    ASSUME KeepInv, NEW S \in SUBSET Ids
    PROVE  Orders({p \in S \X S : Older(p[1], p[2])}, S)
<1> DEFINE R == {p \in S \X S : Older(p[1], p[2])}
<1>1. \A i \in S : job[i].age \in Int /\ i \in Int
  BY BuildAssumption DEF KeepInv, JobShape, Job, Ids
<1>2. \A i, j \in S : <<i, j>> \in R <=> Older(i, j)
  OBVIOUS
<1>3. \A i \in S : ~Older(i, i)
  BY <1>1 DEF Older
<1>4. \A i, j \in S : i # j => Older(i, j) \/ Older(j, i)
  BY <1>1 DEF Older
<1>5. \A i, j, k \in S : Older(i, j) /\ Older(j, k) => Older(i, k)
  BY <1>1 DEF Older
<1> HIDE DEF R
<1>6. \A i \in S : <<i, i>> \notin R
  BY <1>2, <1>3
<1>7. \A i, j \in S : i # j => <<i, j>> \in R \/ <<j, i>> \in R
  BY <1>2, <1>4
<1>8. \A i, j, k \in S : <<i, j>> \in R /\ <<j, k>> \in R => <<i, k>> \in R
  BY <1>2, <1>5
<1>9. Orders(R, S)
  BY <1>6, <1>7, <1>8 DEF Orders
<1> QED
  BY <1>9 DEF R

\* What the limit on the number of jobs leaves: no result at all, or no more
\* jobs than the limit (the second loop of cleanupJobs).
LEMMA CountLimited ==
    ASSUME KeepInv, NEW kept \in SUBSET Ids, NEW done \in SUBSET kept
    PROVE  \/ done \ OverCount(kept, done) = {}
           \/ Cardinality(kept \ OverCount(kept, done)) <= MaxRetainedJobs
<1> DEFINE extra == Cardinality(kept) - MaxRetainedJobs
           gone == OverCount(kept, done)
           R == {p \in done \X done : Older(p[1], p[2])}
<1> USE BuildAssumption
<1>1. IsFiniteSet(kept) /\ IsFiniteSet(done) /\ Cardinality(kept) \in Nat /\ Cardinality(done) \in Nat
  BY SizesAreNumbers, FS_Subset, FS_CardinalityType
<1>2. Orders(R, done)
  BY OlderOrders
<1>3. \A i \in done : Below(R, done, i) = {j \in done : Older(j, i)}
  BY DEF Below
<1> HIDE DEF R
<1>4. gone = {i \in done : Cardinality(Below(R, done, i)) < extra}
  BY <1>3 DEF OverCount
<1>5. extra \in Int
  BY <1>1
<1>6. IsFiniteSet(gone) /\ IsFiniteSet(kept \ gone) /\ gone \subseteq kept
  BY <1>1, <1>4, FS_Subset, FS_Difference
<1> HIDE DEF gone, extra
<1>7. CASE extra <= 0
  <2>1. Cardinality(kept) <= MaxRetainedJobs
    BY <1>1, <1>7 DEF extra
  <2>2. Cardinality(kept \ gone) <= Cardinality(kept) /\ Cardinality(kept \ gone) \in Nat
    BY <1>1, <1>6, FS_Subset, FS_CardinalityType
  <2>3. Cardinality(kept \ gone) <= MaxRetainedJobs
    BY <1>1, <2>1, <2>2
  <2> QED
    BY <2>3 DEF gone
<1>8. CASE extra > 0 /\ extra <= Cardinality(done)
  <2>1. extra \in Nat
    BY <1>5, <1>8
  <2>2. Cardinality(gone) = extra
    BY <1>1, <1>2, <1>4, <1>8, <2>1, FirstOnes
  <2>3. kept \cap gone = gone
    BY <1>6
  <2>4. Cardinality(kept \ gone) = Cardinality(kept) - Cardinality(kept \cap gone)
    BY <1>1, FS_Difference
  <2>5. Cardinality(kept \ gone) = Cardinality(kept) - extra
    BY <2>2, <2>3, <2>4
  <2>6. Cardinality(kept \ gone) = MaxRetainedJobs
    BY <1>1, <2>5 DEF extra
  <2> QED
    BY <2>6 DEF gone
<1>9. CASE extra > Cardinality(done)
  <2>1. ASSUME NEW i \in done PROVE Cardinality(Below(R, done, i)) < extra
    <3>1. Below(R, done, i) \in SUBSET done
      BY DEF Below
    <3>2. IsFiniteSet(Below(R, done, i)) /\ Cardinality(Below(R, done, i)) <= Cardinality(done)
      BY <1>1, <3>1, FS_Subset
    <3>3. Cardinality(Below(R, done, i)) \in Nat
      BY <3>2, FS_CardinalityType
    <3> QED
      BY <1>1, <1>5, <1>9, <3>2, <3>3
  <2>2. done \ gone = {}
    BY <1>4, <2>1
  <2> QED
    BY <2>2 DEF gone
<1> QED
  BY <1>1, <1>5, <1>7, <1>8, <1>9

\* What the limit on the bytes leaves is within it: the oldest job that stays
\* was not too large together with all those after it.
LEMMA BytesLimited ==
    ASSUME KeepInv, NEW kept \in SUBSET Ids, MaxRetainedBytes > 0
    PROVE  SumFunctionOnSet(DirBytes, kept \ OverBytes(kept)) <= MaxRetainedBytes
<1> DEFINE rest == kept \ OverBytes(kept)
           R == {p \in rest \X rest : Older(p[1], p[2])}
<1> USE BuildAssumption
<1>0. IsFiniteSet(Ids) /\ \A i \in Ids : DirBytes[i] \in Nat
  BY SizesAreNumbers
<1>1. rest \in SUBSET Ids /\ IsFiniteSet(rest)
  BY <1>0, FS_Subset
<1>2. Orders(R, rest)
  BY <1>1, OlderOrders
<1>3. \A i, j \in rest : Older(j, i) => <<j, i>> \in R
  OBVIOUS
<1>4. \A i \in rest : i \in kept /\ ~(SumFunctionOnSet(DirBytes, {j \in kept : ~Older(j, i)}) > MaxRetainedBytes)
  BY DEF OverBytes
<1>5. rest \subseteq kept
  OBVIOUS
<1> HIDE DEF rest, R
<1>6. CASE rest = {}
  BY <1>0, <1>1, <1>6, SumRemove DEF rest
<1>7. CASE rest # {}
  <2>1. PICK i \in rest : \A j \in rest : <<j, i>> \notin R
    BY <1>1, <1>2, <1>7, FirstOne
  <2> DEFINE after == {j \in kept : ~Older(j, i)}
  <2>2. rest \in SUBSET after /\ after \in SUBSET Ids
    BY <1>3, <1>5, <2>1
  <2>3. ~(SumFunctionOnSet(DirBytes, after) > MaxRetainedBytes)
    BY <1>4
  <2> HIDE DEF after
  <2>4. SumFunctionOnSet(DirBytes, rest) <= SumFunctionOnSet(DirBytes, after)
    BY <1>0, <2>2, SumMonotone
  <2>5. SumFunctionOnSet(DirBytes, rest) \in Nat /\ SumFunctionOnSet(DirBytes, after) \in Nat
    BY <1>0, <1>1, <2>2, SumRemove
  <2>6. SumFunctionOnSet(DirBytes, rest) <= MaxRetainedBytes
    BY <2>3, <2>4, <2>5
  <2> QED
    BY <2>6 DEF rest
<1> QED
  BY <1>6, <1>7

\* Where a trigger is outstanding only the runner and the pass have to agree.
LEMMA NotQuiet ==
    ASSUME LimitInv, ~Quiet' \/ pass' = "snapshot", PassRuns'
    PROVE  LimitInv'
BY DEF LimitInv

\* Steps that leave the jobs that stay, their results and their directories.
LEMMA Undisturbed ==
    ASSUME KeepInv, KeepInv', LimitInv, PassRuns', Quiet' => Quiet,
           Left' = Left, Results' = Results,
           \A i \in Results : DirBytes'[i] = DirBytes[i],
           \/ pass' = pass /\ retained' = retained
           \/ pass = "delete" /\ pass' = "dirs"
           \/ pass = "dirs" /\ pass' = "none"
    PROVE  LimitInv'
<1>1. SumFunctionOnSet(DirBytes', Results) <= SumFunctionOnSet(DirBytes, Results)
      /\ SumFunctionOnSet(DirBytes', Results) \in Nat /\ SumFunctionOnSet(DirBytes, Results) \in Nat
  <2> DEFINE w == DirBytes'
             v == DirBytes
  <2>1. IsFiniteSet(Ids) /\ Results \in SUBSET Ids
    BY SizesAreNumbers DEF KeepInv, Results, Left
  <2>2. \A i \in Ids : v[i] \in Nat
    BY SizesAreNumbers
  <2>3. \A i \in Ids : w[i] \in Nat
    <3>1. \A i \in Ids : job'[i].size \in Nat
      BY DEF KeepInv, JobShape, Job
    <3> QED
      BY <3>1 DEF DirBytes
  <2>4. \A i \in Results : w[i] <= v[i]
    BY <2>1, <2>2
  <2> HIDE DEF w, v
  <2>5. SumFunctionOnSet(w, Results) <= SumFunctionOnSet(v, Results)
    BY <2>1, <2>2, <2>3, <2>4, SumMonotone
  <2>6. SumFunctionOnSet(w, Results) \in Nat /\ SumFunctionOnSet(v, Results) \in Nat
    BY <2>1, <2>2, <2>3, SumRemove
  <2> QED
    BY <2>5, <2>6 DEF w, v
<1>2. BytesHold => BytesHold'
  <2> SUFFICES ASSUME BytesHold, MaxRetainedBytes > 0
               PROVE  SumFunctionOnSet(DirBytes', Results) <= MaxRetainedBytes
    BY DEF BytesHold
  <2> QED
    BY <1>1, BuildAssumption DEF BytesHold
<1>3. CountHolds => CountHolds'
  BY DEF CountHolds
<1> QED
  BY <1>2, <1>3 DEF LimitInv

\* StartBuild and the statements of runBuild.
LEMMA JobStepsLimit ==
    ASSUME KeepInv, KeepInv', LimitInv, NEW i \in Ids,
           (\E u \in Units : StartBuild(i, u)) \/ JobStep(i)
    PROVE  LimitInv'
<1>0. /\ job \in [Ids -> Job] /\ stage \in [Ids -> Stages] /\ jobs \subseteq Ids
      /\ pass' = pass /\ removals' = removals /\ retained' = retained /\ phase' = phase
  <2>1. pass' = pass /\ removals' = removals /\ retained' = retained /\ phase' = phase
    BY DEF StartBuild, JobStep, TriggerCleanup, Trigger, LockUnit, TakeSlot, MakeWorkDir, RunBuild,
           Release, runnerVars
  <2> QED
    BY <2>1 DEF KeepInv, JobShape
<1>1. PassRuns' /\ Condemned' = Condemned
  BY <1>0 DEF LimitInv, PassRuns, Condemned
<1>2. CASE \E u \in Units : StartBuild(i, u)
  <2>1. stage'[i] = "created"
    BY <1>0, <1>2 DEF StartBuild, Goto
  <2>2. ~Quiet'
    BY <2>1 DEF Quiet
  <2> QED
    BY <1>1, <2>2, NotQuiet
<1>3. CASE TriggerCleanup(i)
  <2>1. ~Quiet'
    BY <1>3 DEF TriggerCleanup, Trigger, Quiet
  <2> QED
    BY <1>1, <2>1, NotQuiet
<1>4. CASE RunBuild(i)
  <2>1. stage'[i] = "finished"
    BY <1>0, <1>4 DEF RunBuild, Finished, Goto
  <2>2. ~Quiet'
    BY <2>1 DEF Quiet
  <2> QED
    BY <1>1, <2>2, NotQuiet
<1>5. CASE MakeWorkDir(i) /\ stage'[i] = "finished"
  <2>1. ~Quiet'
    BY <1>5 DEF Quiet
  <2> QED
    BY <1>1, <2>1, NotQuiet
<1>6. CASE LockUnit(i) \/ TakeSlot(i) \/ (MakeWorkDir(i) /\ stage'[i] # "finished") \/ Release(i)
  <2>1. jobs' = jobs /\ triggerCh' = triggerCh
    BY <1>6 DEF LockUnit, TakeSlot, MakeWorkDir, Release, runnerVars
  <2>2. Quiet' => Quiet
    <3>1. stage[i] \notin {"created", "finished"} /\ \A j \in Ids \ {i} : stage'[j] = stage[j]
      BY <1>0, <1>6 DEF LockUnit, TakeSlot, MakeWorkDir, Release, Finished, Goto
    <3> QED
      BY <2>1, <3>1 DEF Quiet
  <2>3. \A j \in jobs : /\ job'[j].size = job[j].size
                        /\ Terminal(j)' <=> Terminal(j)
                        /\ Terminal(j) => (j \in dirs' <=> j \in dirs)
    <3>1. CASE LockUnit(i)
      BY <3>1 DEF LockUnit, Terminal
    <3>2. CASE TakeSlot(i)
      <4>1. stage[i] \in UnderWay /\ dirs' = dirs
        BY <3>2 DEF TakeSlot, UnderWay
      <4>2. ~Terminal(i)
        BY <4>1 DEF KeepInv, Known, Terminal
      <4>3. job'[i].status = "running" /\ job'[i].size = job[i].size /\ \A j \in Ids \ {i} : job'[j] = job[j]
        BY <1>0, <3>2 DEF TakeSlot, Job
      <4> QED
        BY <1>0, <4>1, <4>2, <4>3 DEF Terminal
    <3>3. CASE MakeWorkDir(i) /\ stage'[i] # "finished"
      <4>1. job' = job /\ dirs' = dirs \cup {i} /\ stage[i] \in UnderWay
        BY <1>0, <3>3 DEF MakeWorkDir, Finished, Goto, UnderWay
      <4>2. ~Terminal(i)
        BY <4>1 DEF KeepInv, Known, Terminal
      <4> QED
        BY <4>1, <4>2 DEF Terminal
    <3>4. CASE Release(i)
      <4>1. dirs' = dirs /\ \A j \in jobs : job'[j] = job[j]
        BY <1>0, <3>4 DEF Release
      <4> QED
        BY <4>1 DEF Terminal
    <3> QED
      BY <1>6, <3>1, <3>2, <3>3, <3>4
  <2>4. Left' = Left /\ Left \subseteq jobs
    BY <1>1, <2>1 DEF Left
  <2>5. Results' = Results
    BY <2>3, <2>4 DEF Results
  <2>6. \A j \in Results : DirBytes'[j] = DirBytes[j]
    BY <1>0, <2>3, <2>4 DEF Results, DirBytes
  <2> QED
    BY <1>0, <1>1, <2>2, <2>4, <2>5, <2>6, Undisturbed
<1> QED
  BY <1>2, <1>3, <1>4, <1>5, <1>6 DEF JobStep

\* The steps of cleanupJobs.
LEMMA PassLimit ==
    ASSUME KeepInv, KeepInv', LimitInv, Pass
    PROVE  LimitInv'
<1>1. CASE Snapshot
  <2> DEFINE done == {i \in jobs : Terminal(i)}
             old == {i \in done : Expired(i)}
             kept == jobs \ old
             over == OverCount(kept, done \ old)
  <2>1. jobs' = jobs /\ job' = job /\ stage' = stage /\ pass = "snapshot"
    BY <1>1 DEF Snapshot
  <2>2. PassRuns'
    BY <1>1 DEF Snapshot, LimitInv, PassRuns, Finish, runnerVars
  <2>3. CASE jobs = {}
    <3>1. pass' = "none"
      BY <1>1, <2>3 DEF Snapshot
    <3>2. Results' = {}
      BY <2>1, <2>3 DEF Results, Left
    <3>3. BytesHold'
      <4>1. IsFiniteSet({})
        BY FS_EmptySet
      <4> DEFINE w == DirBytes'
      <4> HIDE DEF w
      <4>2. SumFunctionOnSet(w, {}) = 0
        BY <4>1, SumStep
      <4> QED
        BY <3>2, <4>2, BuildAssumption DEF BytesHold, w
    <3> QED
      BY <2>2, <3>1, <3>2, <3>3 DEF LimitInv, CountHolds
  <2>4. CASE jobs # {}
    <3>1. pass' = "bytes" /\ removals' = old \cup over /\ retained' = done \ (old \cup over)
      BY <1>1, <2>4 DEF Snapshot
    <3>2. kept \in SUBSET Ids /\ done \ old \in SUBSET kept
      BY DEF KeepInv
    <3>3. (done \ old) \ over = {} \/ Cardinality(kept \ over) <= MaxRetainedJobs
      BY <3>2, CountLimited
    <3> HIDE DEF over
    <3>4. Left' = kept \ over
      BY <2>1, <3>1 DEF Left, Condemned
    <3>5. Results' = (done \ old) \ over
      BY <2>1, <3>4 DEF Results, Terminal
    <3>6. retained' = Results'
      BY <3>1, <3>5
    <3> QED
      BY <2>2, <3>1, <3>3, <3>4, <3>5, <3>6 DEF LimitInv, CountHolds
  <2> QED
    BY <2>3, <2>4
<1>2. CASE LimitBytes
  <2>1. /\ jobs' = jobs /\ job' = job /\ stage' = stage /\ dirs' = dirs /\ triggerCh' = triggerCh
        /\ pass = "bytes" /\ pass' = "delete" /\ removals' = removals \cup OverBytes(retained)
    BY <1>2 DEF LimitBytes, runnerVars
  <2>2. PassRuns'
    BY <1>2 DEF LimitBytes, LimitInv, PassRuns, runnerVars
  <2> SUFFICES ASSUME Quiet' PROVE CountHolds' /\ BytesHold'
    BY <2>1, <2>2 DEF LimitInv
  <2>3. Quiet
    BY <2>1 DEF Quiet
  <2>4. retained = Results /\ CountHolds
    BY <2>1, <2>3 DEF LimitInv
  <2>5. OverBytes(Results) \subseteq Results
    BY DEF OverBytes
  <2>6. Left' = Left \ OverBytes(Results)
    BY <2>1, <2>4 DEF Left, Condemned
  <2>7. Results' = Results \ OverBytes(Results)
    BY <2>1, <2>6 DEF Results, Terminal
  <2>8. Results \in SUBSET Ids /\ IsFiniteSet(Left)
    BY SizesAreNumbers, FS_Subset DEF KeepInv, Results, Left
  <2>9. BytesHold'
    <3>1. DirBytes' = DirBytes
      BY <2>1 DEF DirBytes
    <3>2. MaxRetainedBytes > 0 =>
            SumFunctionOnSet(DirBytes, Results \ OverBytes(Results)) <= MaxRetainedBytes
      BY <2>8, BytesLimited
    <3> QED
      BY <2>7, <3>1, <3>2 DEF BytesHold
  <2>10. CountHolds'
    <3>1. CASE Results = {}
      BY <2>7, <3>1 DEF CountHolds
    <3>2. CASE Cardinality(Left) <= MaxRetainedJobs
      <4>1. IsFiniteSet(Left') /\ Cardinality(Left') <= Cardinality(Left)
        BY <2>6, <2>8, FS_Subset
      <4>2. Cardinality(Left') \in Nat /\ Cardinality(Left) \in Nat
        BY <2>8, <4>1, FS_CardinalityType
      <4>3. Cardinality(Left') <= MaxRetainedJobs
        BY <3>2, <4>1, <4>2, BuildAssumption
      <4> QED
        BY <4>3 DEF CountHolds
    <3> QED
      BY <2>4, <3>1, <3>2 DEF CountHolds
  <2> QED
    BY <2>9, <2>10
<1>3. CASE DeleteJobs
  <2>1. /\ jobs' = jobs \ removals /\ stage' = stage /\ dirs' = dirs /\ triggerCh' = triggerCh
        /\ pass = "delete" /\ pass' = "dirs" /\ phase' = phase
    BY <1>3 DEF DeleteJobs, runnerVars
  <2>2. \A j \in Ids : j \notin removals => job'[j] = job[j]
    BY <1>3 DEF DeleteJobs
  <2>3. PassRuns' /\ (Quiet' => Quiet)
    BY <2>1 DEF LimitInv, PassRuns, Quiet
  <2>4. Left' = Left /\ Left \subseteq Ids /\ Left \cap removals = {}
    BY <2>1 DEF Left, Condemned, KeepInv
  <2>5. Results' = Results
    BY <2>2, <2>4 DEF Results, Terminal
  <2>6. \A j \in Results : DirBytes'[j] = DirBytes[j]
    BY <2>1, <2>2, <2>4 DEF Results, DirBytes
  <2> QED
    BY <2>1, <2>3, <2>4, <2>5, <2>6, Undisturbed
<1>4. ASSUME NEW i \in Ids, RemoveDir(i) PROVE LimitInv'
  <2>1. /\ jobs' = jobs /\ job' = job /\ stage' = stage /\ triggerCh' = triggerCh
        /\ pass = "dirs" /\ pass' = pass /\ retained' = retained /\ phase' = phase
        /\ i \in removals /\ dirs \ {i} \subseteq dirs' /\ dirs' \subseteq dirs
    BY <1>4 DEF RemoveDir, runnerVars
  <2>2. i \notin jobs
    BY <2>1 DEF KeepInv, ForgottenFirst
  <2>3. PassRuns' /\ (Quiet' => Quiet)
    BY <2>1 DEF LimitInv, PassRuns, Quiet
  <2>4. Left' = Left /\ Left \subseteq jobs /\ Left \subseteq Ids
    BY <2>1 DEF Left, Condemned, KeepInv
  <2>5. Results' = Results
    BY <2>1, <2>4 DEF Results, Terminal
  <2>6. \A j \in Results : DirBytes'[j] = DirBytes[j]
    BY <2>1, <2>2, <2>4 DEF Results, DirBytes
  <2> QED
    BY <2>1, <2>3, <2>4, <2>5, <2>6, Undisturbed
<1>5. CASE Return
  <2>1. /\ jobs' = jobs /\ job' = job /\ stage' = stage /\ dirs' = dirs /\ triggerCh' = triggerCh
        /\ pass = "dirs" /\ pass' = "none" /\ phase' = "select"
    BY <1>5 DEF Return, Finish
  <2>2. PassRuns' /\ (Quiet' => Quiet)
    BY <2>1 DEF PassRuns, Quiet
  <2>3. Left' = Left /\ Results' = Results /\ DirBytes' = DirBytes
    BY <2>1 DEF Left, Condemned, Results, Terminal, DirBytes
  <2> QED
    BY <2>1, <2>2, <2>3, Undisturbed
<1> QED
  BY <1>1, <1>2, <1>3, <1>4, <1>5 DEF Pass

\* The runner and the clock: a trigger is taken from the channel only by a run
\* that starts with a new snapshot, because the interval is 0.
LEMMA RunnerLimit ==
    ASSUME KeepInv, KeepInv', LimitInv,
           TimePasses \/ Starts(TakeTrigger) \/ Starts(TimerFires) \/ Starts(Close) \/ Starts(Stop)
    PROVE  LimitInv'
<1>1. CASE Starts(TakeTrigger) \/ Starts(TimerFires)
  <2>1. phase = "select" /\ phase' = "running"
    BY <1>1, BuildAssumption DEF Starts, TakeTrigger, TimerFires, TooSoon, RunNow
  <2>2. pass' = "snapshot"
    BY <1>1, <2>1 DEF Starts
  <2>3. PassRuns'
    BY <2>1, <2>2 DEF PassRuns
  <2> QED
    BY <2>2, <2>3, NotQuiet
<1>2. CASE Starts(Close) \/ Starts(Stop)
  <2>1. /\ jobs' = jobs /\ job' = job /\ stage' = stage /\ dirs' = dirs /\ triggerCh' = triggerCh
        /\ removals' = removals /\ retained' = retained /\ pass' = pass
    BY <1>2 DEF Starts, Close, Stop
  <2>2. phase' = phase \/ (phase = "select" /\ phase' = "stopped")
    BY <1>2 DEF Starts, Close, Stop
  <2>3. PassRuns' /\ (Quiet' => Quiet)
    BY <2>1, <2>2 DEF LimitInv, PassRuns, Quiet
  <2>4. Left' = Left /\ Results' = Results /\ DirBytes' = DirBytes
    BY <2>1 DEF Left, Condemned, Results, Terminal, DirBytes
  <2> QED
    BY <2>1, <2>3, <2>4, Undisturbed
<1>3. CASE TimePasses
  <2>1. /\ jobs' = jobs /\ stage' = stage /\ dirs' = dirs /\ triggerCh' = triggerCh /\ phase' = phase
        /\ removals' = removals /\ retained' = retained /\ pass' = pass
    BY <1>3 DEF TimePasses, Tick
  <2>2. \A j \in Ids : job'[j].status = job[j].status /\ job'[j].size = job[j].size
    BY <1>3 DEF TimePasses, KeepInv, JobShape, Job
  <2>3. PassRuns' /\ (Quiet' => Quiet)
    BY <2>1 DEF LimitInv, PassRuns, Quiet
  <2>4. Left' = Left /\ Left \subseteq Ids
    BY <2>1 DEF Left, Condemned, KeepInv
  <2>5. Results' = Results
    BY <2>2, <2>4 DEF Results, Terminal
  <2>6. \A j \in Results : DirBytes'[j] = DirBytes[j]
    BY <2>1, <2>2, <2>4 DEF Results, DirBytes
  <2> QED
    BY <2>1, <2>3, <2>4, <2>5, <2>6, Undisturbed
<1> QED
  BY <1>1, <1>2, <1>3

\* As far as the clean-up has come, what it leaves is within the limits.
THEOREM LimitInvariant == Spec => []LimitInv
<1>1. Init => LimitInv
  BY DEF Init, RunnerInit, LimitInv, PassRuns
<1>2. KeepInv /\ KeepInv' /\ LimitInv /\ [Next]_vars => LimitInv'
  <2> SUFFICES ASSUME KeepInv, KeepInv', LimitInv, [Next]_vars PROVE LimitInv'
    OBVIOUS
  <2>1. CASE UNCHANGED vars \/ \E i \in Ids : FindProduct(i) \/ ReadProduct(i)
    <3>1. /\ jobs' = jobs /\ job' = job /\ stage' = stage /\ dirs' = dirs /\ triggerCh' = triggerCh
          /\ removals' = removals /\ retained' = retained /\ pass' = pass /\ phase' = phase
      BY <2>1 DEF vars, runnerVars, buildVars, FindProduct, ReadProduct
    <3>2. PassRuns' /\ (Quiet' => Quiet) /\ Left' = Left /\ Results' = Results /\ DirBytes' = DirBytes
      BY <3>1 DEF LimitInv, PassRuns, Quiet, Left, Condemned, Results, Terminal, DirBytes
    <3> QED
      BY <3>1, <3>2, Undisturbed
  <2>2. CASE Next
    BY <2>1, <2>2, JobStepsLimit, PassLimit, RunnerLimit DEF Next
  <2> QED
    BY <2>1, <2>2
<1> QED
  BY <1>1, <1>2, KeepInvariant, PTL DEF Spec

\* When nothing is left to trigger a clean-up, the jobs and their directories
\* are within the limits, for all limits and however builds and clean-ups
\* overlap (cleanupJobs, buildRemovalsForByteLimit, the runner).
THEOREM LimitsAreKept == Spec => []LimitsHold
<1>1. KeepInv /\ LimitInv => LimitsHold
  <2> DEFINE done == {i \in jobs : Terminal(i)}
  <2> SUFFICES ASSUME KeepInv, LimitInv, phase = "select", Quiet
               PROVE  /\ done = {} \/ Cardinality(jobs) <= MaxRetainedJobs
                      /\ OverBytes(done) = {}
    BY DEF LimitsHold, Quiet
  <2>1. pass = "none"
    BY DEF LimitInv, PassRuns
  <2>2. Left = jobs /\ Results = done
    BY <2>1 DEF Left, Condemned, Results
  <2>3. CountHolds /\ BytesHold
    BY <2>1 DEF LimitInv
  <2>4. done \in SUBSET Ids /\ IsFiniteSet(Ids) /\ \A i \in Ids : DirBytes[i] \in Nat
    BY SizesAreNumbers DEF KeepInv
  <2> HIDE DEF done
  <2>5. ASSUME NEW i \in done, MaxRetainedBytes > 0
        PROVE  ~(SumFunctionOnSet(DirBytes, {j \in done : ~Older(j, i)}) > MaxRetainedBytes)
    <3> DEFINE after == {j \in done : ~Older(j, i)}
    <3>1. after \in SUBSET done
      OBVIOUS
    <3> HIDE DEF after
    <3>2. SumFunctionOnSet(DirBytes, after) <= SumFunctionOnSet(DirBytes, done)
      BY <2>4, <3>1, SumMonotone
    <3>3. SumFunctionOnSet(DirBytes, after) \in Nat /\ SumFunctionOnSet(DirBytes, done) \in Nat
      BY <2>4, <3>1, SumRemove
    <3>4. SumFunctionOnSet(DirBytes, done) <= MaxRetainedBytes
      BY <2>2, <2>3, <2>5 DEF BytesHold
    <3> QED
      BY <3>2, <3>3, <3>4, BuildAssumption DEF after
  <2>6. OverBytes(done) = {}
    BY <2>5 DEF OverBytes
  <2> QED
    BY <2>2, <2>3, <2>6 DEF CountHolds
<1> QED
  BY <1>1, KeepInvariant, LimitInvariant, PTL

-----------------------------------------------------------------------------
(* The clean-up is a runner *)

\* The time for which a clean-up asks is none, or at most a life time of a
\* result from now (nextBuildCleanupDue).
LEMMA NextDueIs ==
    ASSUME KeepInv
    PROVE  NextDue = None \/ (NextDue \in Int /\ NextDue <= MaxDelay)
<1> USE BuildAssumption, RunnerAssumption
<1>1. CASE retained = {}
  BY <1>1 DEF NextDue
<1>2. CASE retained # {}
  <2> DEFINE T == {JobTTL - job[i].age : i \in retained}
             Z == {n \in Nat : \E t \in T : n = t + MaxSince + 1}
  <2>1. \A i \in retained : job[i].age \in Nat /\ job[i].age <= JobTTL + MaxSince + 1
    BY AgesBounded DEF KeepInv, JobShape, Job, ChosenEnded, MaxAge
  <2>2. \A t \in T : t \in Int /\ t + MaxSince + 1 \in Nat /\ t <= JobTTL
    BY <2>1
  <2>3. T # {}
    BY <1>2
  <2>4. NextDue = Min(T)
    BY <1>2 DEF NextDue
  <2> HIDE DEF T
  <2>5. Z \subseteq Nat /\ Z # {}
    BY <2>2, <2>3
  <2>6. PICK z \in Z : \A y \in Z : z <= y
    BY <2>5, LeastNat
  <2>7. PICK t \in T : z = t + MaxSince + 1
    BY <2>6
  <2>8. ASSUME NEW s \in T PROVE t <= s
    <3>1. s + MaxSince + 1 \in Z
      BY <2>2
    <3>2. z <= s + MaxSince + 1
      BY <2>6, <3>1
    <3> QED
      BY <2>2, <2>7, <3>2
  <2>9. Min(T) \in T
    BY <2>8 DEF Min
  <2> QED
    BY <2>2, <2>4, <2>9
<1> QED
  BY <1>1, <1>2

\* Every step of the service is a step of its runner, or none.
LEMMA StepIsRunners ==
    ASSUME KeepInv, [Next]_vars
    PROVE  [RunnerNext]_runnerVars
<1>1. CASE \E i \in Ids, u \in Units : StartBuild(i, u)
  BY <1>1 DEF StartBuild
<1>2. CASE \E i \in Ids : JobStep(i)
  <2>1. Trigger \/ UNCHANGED runnerVars
    BY <1>2 DEF JobStep, TriggerCleanup, LockUnit, TakeSlot, MakeWorkDir, RunBuild, Release
  <2> QED
    BY <2>1 DEF RunnerNext
<1>3. ASSUME NEW e, e = None \/ (e \in Int /\ e <= MaxDelay), Finish(e) PROVE RunnerNext
  <2> DEFINE d == IF e # None /\ e < 0 THEN 0 ELSE e
  <2>1. d \in {None} \cup 0..MaxDelay
    BY <1>3, RunnerAssumption
  <2>2. ~(d # None /\ d < 0)
    BY <2>1
  <2>3. Finish(d)
    BY <1>3, <2>2 DEF Finish
  <2> QED
    BY <2>1, <2>3 DEF RunnerNext
<1>4. CASE Snapshot \/ LimitBytes \/ DeleteJobs \/ \E i \in Ids : RemoveDir(i)
  <2>1. Finish(None) \/ UNCHANGED runnerVars
    BY <1>4 DEF Snapshot, LimitBytes, DeleteJobs, RemoveDir
  <2> QED
    BY <2>1, <1>3
<1>5. CASE Return
  <2>1. Finish(NextDue)
    BY <1>5 DEF Return
  <2> QED
    BY <2>1, <1>3, NextDueIs
<1>6. CASE TimePasses \/ Starts(TakeTrigger) \/ Starts(TimerFires) \/ Starts(Close) \/ Starts(Stop)
  BY <1>6 DEF TimePasses, Starts, RunnerNext
<1>7. CASE UNCHANGED vars
  BY <1>7 DEF vars
<1>8. CASE \E i \in Ids : FindProduct(i) \/ ReadProduct(i)
  BY <1>8 DEF FindProduct, ReadProduct
<1> QED
  BY <1>1, <1>2, <1>4, <1>5, <1>6, <1>7, <1>8 DEF Next, Pass

\* The clean-up of builds is a runner, so that what holds of every runner holds
\* of it (NewBuildService, cleanupJobs).
THEOREM CleanupIsRunner == Spec => RunnerSpec
<1>1. Init => RunnerInit
  BY DEF Init
<1>2. KeepInv /\ [Next]_vars => [RunnerNext]_runnerVars
  BY StepIsRunners
<1> QED
  BY <1>1, <1>2, KeepInvariant, PTL DEF Spec, RunnerSpec
=============================================================================
