---------------------------- MODULE BuildService ----------------------------
(***************************************************************************)
(* BuildService: StartBuild queues a job and starts a goroutine for it,    *)
(* which takes the lock of its unit, then one of the slots, builds in a    *)
(* work directory of its own and records the result.  cleanupJobs, run by  *)
(* a cleanup.Runner, forgets results that are too old, too many or too     *)
(* large and removes their work directories.                               *)
(*                                                                         *)
(* Jobs are numbered in the order of their creation.  What a build runs is *)
(* in BuildCommands; here it succeeds, with or without a product, or not.  *)
(***************************************************************************)
EXTENDS CleanupRunner, FiniteSetsExt

CONSTANTS
    Units,             \* directories that can be built
    Workers,           \* capacity of the channel slots
    JobTTL,            \* in ticks
    MaxRetainedJobs,
    MaxRetainedBytes,  \* 0 for no limit
    Outcomes,          \* how a build may end
    MaxJobs,           \* bound: jobs started
    MaxFaults,         \* bound: failing operations on directories
    NoJob

\* NewBuildService replaces values that are not positive by defaults and gives
\* the runner the interval 0.
ASSUME BuildAssumption ==
    /\ Interval = 0 /\ MaxJobs \in Nat /\ MaxFaults \in Nat /\ NoJob \notin Nat
    /\ Workers \in Nat \ {0} /\ MaxRetainedJobs \in Nat \ {0} /\ MaxRetainedBytes \in Nat
    /\ JobTTL \in Nat \ {0} /\ JobTTL <= MaxDelay
    /\ Outcomes \subseteq [status : {"success", "failed"}, product : BOOLEAN, size : Nat]
    /\ \A o \in Outcomes : o.product => o.status = "success" /\ o.size > 0

Ids == 1..MaxJobs

VARIABLES
    jobs,       \* the ids in the map
    job,        \* id -> the job; the goroutine keeps it when the map has not
    stage,      \* id -> the next statement of StartBuild or runBuild
    holder,     \* unit -> the job that holds its lock, or NoJob
    slots,      \* the jobs that are in the channel
    dirs,       \* ids whose work directory exists
    pass,       \* the next step of cleanupJobs
    removals,   \* cleanupJobs: jobs to remove, then directories to remove
    retained,   \* cleanupJobs: terminal jobs that stay
    fetching,   \* jobs whose product a GetBuildProduct has found and not yet read
    faults
buildVars ==
    <<jobs, job, stage, holder, slots, dirs, pass, removals, retained, fetching, faults>>
vars == <<runnerVars, buildVars>>

MaxAge == JobTTL + MaxSince + 1
Statuses == {"", "queued", "running", "success", "failed"}
Job == [unit : Units \cup {NoJob}, status : Statuses, age : 0..MaxAge, product : BOOLEAN, size : Nat]
Stages == {"none", "created", "lock", "slot", "mkdir", "build", "finished", "release", "done"}
Unmade == [unit |-> NoJob, status |-> "", age |-> 0, product |-> FALSE, size |-> 0]

TypeOK ==
    /\ RunnerTypeOK
    /\ jobs \subseteq Ids /\ job \in [Ids -> Job] /\ stage \in [Ids -> Stages]
    /\ holder \in [Units -> Ids \cup {NoJob}] /\ slots \subseteq Ids /\ dirs \subseteq Ids
    /\ pass \in {"none", "snapshot", "bytes", "delete", "dirs"}
    /\ removals \subseteq Ids /\ retained \subseteq Ids /\ fetching \subseteq Ids
    /\ faults \in 0..MaxFaults

Init ==
    /\ RunnerInit
    /\ jobs = {} /\ job = [i \in Ids |-> Unmade] /\ stage = [i \in Ids |-> "none"]
    /\ holder = [u \in Units |-> NoJob] /\ slots = {} /\ dirs = {}
    /\ pass = "snapshot" /\ removals = {} /\ retained = {}
    /\ fetching = {} /\ faults = 0

Goto(i, s) == stage' = [stage EXCEPT ![i] = s]
Terminal(i) == job[i].status \in {"success", "failed"}
Fault == faults < MaxFaults /\ faults' = faults + 1

-----------------------------------------------------------------------------
(* StartBuild and runBuild *)

\* The job is in the map before the clean-up is triggered and the goroutine
\* starts.
StartBuild(i, u) ==
    /\ stage[i] = "none" /\ \A j \in 1..(i - 1) : stage[j] # "none"
    /\ jobs' = jobs \cup {i}
    /\ job' = [job EXCEPT ![i].unit = u, ![i].status = "queued"]
    /\ Goto(i, "created")
    /\ UNCHANGED <<runnerVars, holder, slots, dirs, pass, removals, retained,
                   fetching, faults>>

\* triggerCleanup, at the end of StartBuild and of failJob and completeJob.
TriggerCleanup(i) ==
    /\ \/ stage[i] = "created" /\ Goto(i, "lock")
       \/ stage[i] = "finished" /\ Goto(i, "release")
    /\ Trigger
    /\ UNCHANGED <<jobs, job, holder, slots, dirs, pass, removals, retained,
                   fetching, faults>>

LockUnit(i) ==
    /\ stage[i] = "lock" /\ holder[job[i].unit] = NoJob
    /\ holder' = [holder EXCEPT ![job[i].unit] = i]
    /\ Goto(i, "slot")
    /\ UNCHANGED <<runnerVars, jobs, job, slots, dirs, pass, removals, retained,
                   fetching, faults>>

\* Mutant: one build more than there are slots.
TakeSlotLate(i) ==
    /\ stage[i] = "slot" /\ Cardinality(slots) <= Workers
    /\ slots' = slots \cup {i}
    /\ job' = [job EXCEPT ![i].status = "running"]
    /\ Goto(i, "mkdir")
    /\ UNCHANGED <<runnerVars, jobs, holder, dirs, pass, removals, retained,
                   fetching, faults>>

TakeSlot(i) ==
    /\ stage[i] = "slot" /\ Cardinality(slots) < Workers
    /\ slots' = slots \cup {i}
    /\ job' = [job EXCEPT ![i].status = "running"]
    /\ Goto(i, "mkdir")
    /\ UNCHANGED <<runnerVars, jobs, holder, dirs, pass, removals, retained,
                   fetching, faults>>

\* completeJob, failJob: the result and the time it was made.
Finished(i, o) ==
    /\ job' = [job EXCEPT ![i] = [unit |-> @.unit, status |-> o.status, age |-> 0,
                                  product |-> o.product, size |-> o.size]]
    /\ Goto(i, "finished")

MakeWorkDir(i) ==
    /\ stage[i] = "mkdir"
    /\ \/ dirs' = dirs \cup {i} /\ Goto(i, "build") /\ UNCHANGED <<job, faults>>
       \/ Fault /\ Finished(i, [status |-> "failed", product |-> FALSE, size |-> 0]) /\ UNCHANGED dirs
    /\ UNCHANGED <<runnerVars, jobs, holder, slots, pass, removals, retained,
                   fetching>>

\* runBuildFn returns; the directory has its size then.
RunBuild(i) ==
    /\ stage[i] = "build"
    /\ \E o \in Outcomes : Finished(i, o)
    /\ UNCHANGED <<runnerVars, jobs, holder, slots, dirs, pass, removals,
                   retained, fetching, faults>>

\* Mutant: a failed build keeps its lock.
ReleaseSucceeded(i) ==
    /\ stage[i] = "release"
    /\ slots' = slots \ {i}
    /\ holder' = IF job[i].status = "failed" THEN holder ELSE [holder EXCEPT ![job[i].unit] = NoJob]
    /\ Goto(i, "done")
    /\ UNCHANGED <<runnerVars, jobs, job, dirs, pass, removals, retained,
                   fetching, faults>>

\* The deferred calls give back the slot, then the lock: who waits for the slot
\* holds the lock of another unit.  A job that neither the map nor a goroutine
\* refers to is collected (Unmade), as is one that cleanupJobs deletes.
Release(i) ==
    /\ stage[i] = "release"
    /\ slots' = slots \ {i}
    /\ holder' = [holder EXCEPT ![job[i].unit] = NoJob]
    /\ Goto(i, "done")
    /\ job' = [job EXCEPT ![i] = IF i \in jobs THEN @ ELSE Unmade]
    /\ UNCHANGED <<runnerVars, jobs, dirs, pass, removals, retained, fetching,
                   faults>>

-----------------------------------------------------------------------------
(* cleanupJobs *)

\* The order of both limits: by the time of the result, then by creation.
Older(i, j) == job[i].age > job[j].age \/ (job[i].age = job[j].age /\ i < j)

\* now lies `since' ticks back.
Expired(i) == job[i].age - since > JobTTL

\* Mutant: jobs that are not finished count as candidates.
OverCountAny(kept, finished) ==
    LET extra == Cardinality(kept) - MaxRetainedJobs
    IN  {i \in kept : Cardinality({j \in kept : Older(j, i)}) < extra}

\* All jobs are counted, finished ones are dropped, the oldest first.
OverCount(kept, finished) ==
    LET extra == Cardinality(kept) - MaxRetainedJobs
    IN  {i \in finished : Cardinality({j \in finished : Older(j, i)}) < extra}

\* What the work directory of a job takes.
DirBytes == [i \in Ids |-> IF i \in dirs THEN job[i].size ELSE 0]

\* buildRemovalsForByteLimit: a job is dropped when it and those after it are
\* too large together.
OverBytes(kept) ==
    {i \in kept : MaxRetainedBytes > 0 /\
        SumFunctionOnSet(DirBytes, {j \in kept : ~Older(j, i)}) > MaxRetainedBytes}

\* Under the lock of the map.  With an empty map the run is over.
Snapshot ==
    LET finished == {i \in jobs : Terminal(i)}
        expired == {i \in finished : Expired(i)}
        extra == OverCount(jobs \ expired, finished \ expired)
    IN
    /\ pass = "snapshot"
    /\ IF jobs = {}
       THEN Finish(None) /\ pass' = "none" /\ UNCHANGED <<removals, retained>>
       ELSE /\ removals' = expired \cup extra /\ retained' = finished \ (expired \cup extra)
            /\ pass' = "bytes" /\ UNCHANGED runnerVars
    /\ UNCHANGED <<jobs, job, stage, holder, slots, dirs, fetching, faults>>

\* Mutant: the directories of the jobs that are over the limit stay.
LimitBytesLost ==
    /\ pass = "bytes" /\ pass' = "delete"
    /\ removals' = removals /\ retained' = retained \ OverBytes(retained)
    /\ UNCHANGED <<runnerVars, jobs, job, stage, holder, slots, dirs, fetching,
                   faults>>

\* Without the lock: the directories are measured.
LimitBytes ==
    /\ pass = "bytes" /\ pass' = "delete"
    /\ removals' = removals \cup OverBytes(retained)
    /\ retained' = retained \ OverBytes(retained)
    /\ UNCHANGED <<runnerVars, jobs, job, stage, holder, slots, dirs, fetching,
                   faults>>

\* Mutant: jobs stay until their directory is gone.
DeleteJobsLast ==
    /\ pass = "delete" /\ pass' = "dirs"
    /\ jobs' = jobs \ (removals \ dirs)
    /\ UNCHANGED <<runnerVars, job, stage, holder, slots, dirs, removals,
                   retained, fetching, faults>>

DeleteJobs ==
    /\ pass = "delete" /\ pass' = "dirs"
    /\ jobs' = jobs \ removals
    /\ job' = [i \in Ids |-> IF i \in removals /\ stage[i] = "done" THEN Unmade ELSE job[i]]
    /\ UNCHANGED <<runnerVars, stage, holder, slots, dirs, removals, retained,
                   fetching, faults>>

\* The work directories go after the jobs; an error is logged.
RemoveDir(i) ==
    /\ pass = "dirs" /\ i \in removals
    /\ removals' = removals \ {i}
    /\ \/ dirs' = dirs \ {i} /\ UNCHANGED faults
       \/ i \in dirs /\ Fault /\ UNCHANGED dirs
    /\ UNCHANGED <<runnerVars, jobs, job, stage, holder, slots, pass, retained,
                   fetching>>

\* nextBuildCleanupDue: when the first of those that stay expires.
NextDue == IF retained = {} THEN None ELSE Min({JobTTL - job[i].age : i \in retained})

Return ==
    /\ pass = "dirs" /\ removals = {}
    /\ Finish(NextDue)
    /\ pass' = "none" /\ retained' = {}
    /\ UNCHANGED <<jobs, job, stage, holder, slots, dirs, removals, fetching, faults>>

\* A step of the runner, which may begin a run.
Starts(A) ==
    /\ A
    /\ pass' = IF phase # "running" /\ phase' = "running" THEN "snapshot" ELSE pass
    /\ UNCHANGED <<jobs, job, stage, holder, slots, dirs, removals, retained,
                   fetching, faults>>

TimePasses ==
    /\ Tick
    /\ job' = [i \in Ids |-> IF Terminal(i) THEN [job[i] EXCEPT !.age = Sooner(@ + 1, MaxAge)] ELSE job[i]]
    /\ UNCHANGED <<jobs, stage, holder, slots, dirs, pass, removals, retained,
                   fetching, faults>>

-----------------------------------------------------------------------------
(* What a client gets: GetBuildStatus and GetBuildProduct *)

GetBuildStatus(i) == IF i \in jobs THEN job[i].status ELSE "NotFound"

\* GetBuildProduct looks the job up, under the lock of the map and that of the
\* job; one that has no product is answered then.
FindProduct(i) ==
    /\ GetBuildStatus(i) = "success" /\ job[i].product
    /\ fetching' = fetching \cup {i}
    /\ UNCHANGED <<runnerVars, jobs, job, stage, holder, slots, dirs, pass,
                   removals, retained, faults>>

\* Then it reads the file, without a lock, and answers with what it gets.
Product(i) == IF i \in dirs THEN "data" ELSE "ReadError"
ReadProduct(i) ==
    /\ i \in fetching
    /\ fetching' = fetching \ {i}
    /\ UNCHANGED <<runnerVars, jobs, job, stage, holder, slots, dirs, pass,
                   removals, retained, faults>>

-----------------------------------------------------------------------------
(* Specification *)

JobStep(i) ==
    \/ TriggerCleanup(i) \/ LockUnit(i) \/ TakeSlot(i) \/ MakeWorkDir(i)
    \/ RunBuild(i) \/ Release(i)
Pass == Snapshot \/ LimitBytes \/ DeleteJobs \/ (\E i \in Ids : RemoveDir(i)) \/ Return

Next ==
    \/ \E i \in Ids, u \in Units : StartBuild(i, u)
    \/ \E i \in Ids : JobStep(i) \/ FindProduct(i) \/ ReadProduct(i)
    \/ Pass \/ TimePasses
    \/ Starts(TakeTrigger) \/ Starts(TimerFires) \/ Starts(Close) \/ Starts(Stop)

\* Goroutines go on, and the commands of a build end: runCmd waits for them
\* without a limit, so this is an assumption about the tools.  Nobody has to
\* start a build.
Fairness ==
    /\ \A i \in Ids : WF_vars(JobStep(i))
    /\ WF_vars(Pass) /\ WF_vars(TimePasses)
    /\ WF_vars(Starts(TakeTrigger)) /\ WF_vars(Starts(TimerFires)) /\ SF_vars(Starts(Stop))

Spec == Init /\ [][Next]_vars
FairSpec == Spec /\ Fairness

-----------------------------------------------------------------------------
(* Properties *)

Working(i) == stage[i] \in {"mkdir", "build", "finished"}

\* Two builds never work in the directory of one unit, and never more at a
\* time than there are slots (runBuild takes both and gives back both, in the
\* other order, on every path).
BuildsApart ==
    /\ \A i, j \in Ids : i # j /\ Working(i) /\ Working(j) => job[i].unit # job[j].unit
    /\ Cardinality({i \in Ids : Working(i)}) <= Workers

\* The clean-up works on a snapshot and without the lock in between, while jobs
\* are added and finish: a job under way stays known and keeps its directory.
LiveBuildKept ==
    \A i \in Ids : stage[i] \in {"lock", "slot", "mkdir", "build"} =>
        i \in jobs /\ (stage[i] = "build" => i \in dirs)

\* A client that GetBuildProduct has found a product for gets it, unless
\* cleanupJobs forgets the job before the file is read: it deletes jobs before
\* their directories, and so no job that is known as a success has lost its
\* product.  A read that fails is one of a job that is unknown by then.
KnownProductReadable ==
    \A i \in fetching : Product(i) = "ReadError" => GetBuildStatus(i) = "NotFound"

\* When nothing is left to trigger it, the last clean-up has left no more than
\* the limits allow, also if builds ended while it ran: they triggered it after
\* their result was recorded.  Only unfinished jobs may be more.
LimitsHold ==
    LET finished == {i \in jobs : Terminal(i)} IN
    phase = "select" /\ ~triggerCh /\ ~(\E i \in Ids : stage[i] \in {"created", "finished"}) =>
        /\ finished = {} \/ Cardinality(jobs) <= MaxRetainedJobs
        /\ OverBytes(finished) = {}

\* Every build that was accepted ends, whoever waits for its unit or a slot, and
\* its result goes when its time is over, though nothing triggers a clean-up
\* then: the timer of the last one is set for it, unless the service is closed.
EveryJobEnds ==
    \A i \in Ids : (stage[i] = "created") ~> (stage[i] = "done" /\ (i \notin jobs \/ closing))
=============================================================================
