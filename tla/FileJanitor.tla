---------------------------- MODULE FileJanitor ----------------------------
(***************************************************************************)
(* The janitors of log files, conflict copies and artifacts: each is a     *)
(* cleanup.Runner whose run lists the files it is responsible for, removes *)
(* those that are too old, then the oldest ones until the rest is small    *)
(* enough, and asks to be run again when the first of the rest expires.    *)
(*                                                                         *)
(* They differ in what triggers them.  Every line that is logged triggers  *)
(* the log janitor (installLogTrigger), its own lines too; a new conflict  *)
(* copy triggers the janitor of conflict copies, and a mutation that of    *)
(* the artifacts.                                                          *)
(***************************************************************************)
EXTENDS CleanupRunner, FiniteSetsExt

CONSTANTS
    OwnLines,     \* whether a line logged by the janitor triggers it
    Retention,    \* in ticks; 0 for no limit
    MaxBytes,     \* 0 for no limit
    Sizes,        \* of files
    MaxFiles,     \* bound: names of files
    MaxWrites,    \* bound: files written
    MaxFaults     \* bound: failures of the file system

\* A janitor without a limit is not started.
ASSUME JanitorAssumption ==
    /\ OwnLines \in BOOLEAN /\ Retention \in Nat /\ MaxBytes \in Nat /\ Retention + MaxBytes > 0
    /\ Retention <= MaxDelay /\ Sizes \subseteq Nat
    /\ MaxFiles \in Nat /\ MaxWrites \in Nat /\ MaxFaults \in Nat

VARIABLES
    files,     \* name -> age and size of the files that match
    pass,      \* the next step of cleanup
    items,     \* cleanup: the files as they were listed
    expired,   \* cleanup: names that are too old and still to be removed
    kept,      \* cleanup: names that are not
    failed,    \* cleanup: names that could not be removed
    removed,   \* cleanup: removedCount > 0
    written,   \* history variable: names written since the files were listed
    writes, faults
passVars == <<items, expired, kept, failed, removed, written>>
janitorVars == <<files, pass, passVars, writes, faults>>
vars == <<runnerVars, janitorVars>>

Names == 1..MaxFiles
MaxAge == Retention + MaxSince + 1
Nothing == << >>

Init ==
    /\ RunnerInit
    /\ files = Nothing /\ pass = "collect"
    /\ items = Nothing /\ expired = {} /\ kept = {} /\ failed = {} /\ removed = FALSE
    /\ written = {} /\ writes = 0 /\ faults = 0

Fault == faults < MaxFaults /\ faults' = faults + 1

\* Mutant: lines of the janitors themselves trigger nothing.
LoggedSilently == UNCHANGED runnerVars

\* A line is logged: triggerWriter.Write, if installLogTrigger has set it.
Logged == IF OwnLines THEN Trigger ELSE UNCHANGED runnerVars
Without(f) == [g \in DOMAIN files \ {f} |-> files[g]]

-----------------------------------------------------------------------------
\* A file is written, new or again, and the janitor is triggered: the line that
\* was logged, CleanupHooks.TriggerConflict, CleanupHooks.TriggerMutation.
Write(f, size) ==
    /\ writes < MaxWrites /\ writes' = writes + 1
    /\ files' = [g \in DOMAIN files \cup {f} |-> IF g = f THEN [age |-> 0, size |-> size] ELSE files[g]]
    /\ written' = IF f \in DOMAIN items THEN written \cup {f} ELSE written
    /\ Trigger
    /\ UNCHANGED <<pass, items, expired, kept, failed, removed, faults>>

\* collectItems and the first part of cleanupFilesByPolicy.  `now' is the time
\* at which the run began, `since' ticks ago.
Collect ==
    LET old == {f \in DOMAIN files : Retention > 0 /\ files[f].age - since > Retention} IN
    /\ pass = "collect" /\ pass' = "expire"
    /\ items' = files /\ expired' = old /\ kept' = DOMAIN files \ old
    /\ UNCHANGED <<runnerVars, files, failed, removed, written, writes, faults>>

\* The directory cannot be read: the run is over and asks for nothing.
CollectFails ==
    /\ pass = "collect" /\ Fault /\ pass' = "return"
    /\ Logged
    /\ UNCHANGED <<files, passVars, writes>>

\* The order of both loops.
Before(f, g) == items[f].age > items[g].age \/ (items[f].age = items[g].age /\ f < g)
IsOldest(f, S) == f \in S /\ \A g \in S \ {f} : Before(f, g)

\* removeItem.  A file that is gone counts as removed; one that has been written
\* since it was listed is removed too.
Remove(f) ==
    /\ files' = Without(f) /\ removed' = TRUE
    /\ UNCHANGED <<runnerVars, failed, faults>>
RemoveFails(f) ==
    /\ f \in DOMAIN files /\ Fault
    /\ failed' = failed \cup {f} /\ Logged
    /\ UNCHANGED <<files, removed>>

RemoveExpired(f) ==
    /\ pass = "expire" /\ IsOldest(f, expired)
    /\ expired' = expired \ {f}
    /\ Remove(f) \/ RemoveFails(f)
    /\ UNCHANGED <<pass, items, kept, written, writes>>

ExpiredDone ==
    /\ pass = "expire" /\ expired = {} /\ pass' = "limit"
    /\ UNCHANGED <<runnerVars, files, passVars, writes, faults>>

Size == [f \in DOMAIN items |-> items[f].size]
Bytes(S) == SumFunctionOnSet(Size, S)
TooMuch == MaxBytes > 0 /\ Bytes(kept) > MaxBytes

\* Mutant: the newest first.
RemoveNewestForBytes(f) ==
    /\ pass = "limit" /\ TooMuch
    /\ f \in kept \ failed /\ \A g \in kept \ (failed \cup {f}) : Before(g, f)
    /\ \/ Remove(f) /\ kept' = kept \ {f}
       \/ RemoveFails(f) /\ UNCHANGED kept
    /\ UNCHANGED <<pass, items, expired, written, writes>>

\* What cannot be removed stays and counts.
RemoveForBytes(f) ==
    /\ pass = "limit" /\ TooMuch /\ IsOldest(f, kept \ failed)
    /\ \/ Remove(f) /\ kept' = kept \ {f}
       \/ RemoveFails(f) /\ UNCHANGED kept
    /\ UNCHANGED <<pass, items, expired, written, writes>>

\* The line that says what was removed.
Summary ==
    /\ pass = "limit" /\ pass' = "return"
    /\ ~TooMuch \/ kept \subseteq failed
    /\ IF removed THEN Logged ELSE UNCHANGED runnerVars
    /\ UNCHANGED <<files, passVars, writes, faults>>

\* When the first of those that are kept expires.
NextDue ==
    IF kept = {} \/ Retention = 0 THEN None ELSE Min({Retention - items[f].age : f \in kept})

Return ==
    /\ pass = "return" /\ Finish(NextDue)
    /\ pass' = "none" /\ items' = Nothing /\ kept' = {} /\ failed' = {} /\ removed' = FALSE
    /\ written' = {}
    /\ UNCHANGED <<files, expired, writes, faults>>

-----------------------------------------------------------------------------
\* A step of the runner, which may begin a run; its triggers are also those that
\* have nothing to do with the files.
Starts(A) ==
    /\ A
    /\ pass' = IF phase # "running" /\ phase' = "running" THEN "collect" ELSE pass
    /\ UNCHANGED <<files, passVars, writes, faults>>

\* Ages that are past the retention are alike; without one only their order
\* counts.
Aged(rows) ==
    [f \in DOMAIN rows |->
        [rows[f] EXCEPT !.age = IF Retention = 0 THEN @ + 1 ELSE Sooner(@ + 1, MaxAge)]]
TimePasses ==
    /\ Tick
    /\ files' = Aged(files) /\ items' = Aged(items)
    /\ UNCHANGED <<pass, expired, kept, failed, removed, written, writes, faults>>

Pass ==
    \/ Collect \/ CollectFails \/ ExpiredDone \/ Summary \/ Return
    \/ \E f \in Names : RemoveExpired(f) \/ RemoveForBytes(f)

Next ==
    \/ \E f \in Names, size \in Sizes : Write(f, size)
    \/ Pass \/ TimePasses \/ Starts(Trigger)
    \/ Starts(TakeTrigger) \/ Starts(TimerFires) \/ Starts(Close) \/ Starts(Stop)

\* The goroutine goes on, time passes, and what select has ready is taken.
Fairness ==
    /\ WF_vars(Pass) /\ WF_vars(TimePasses)
    /\ WF_vars(Starts(TakeTrigger)) /\ WF_vars(Starts(TimerFires)) /\ SF_vars(Starts(Stop))

Spec == Init /\ [][Next]_vars
FairSpec == Spec /\ Fairness

-----------------------------------------------------------------------------
(* Properties *)

\* A pass in which every removal succeeded has removed a prefix of the files in
\* the order of their age, and what it listed and left is within the limit
\* (cleanupFilesByPolicy); files written meanwhile are not counted, and of a pass
\* with a failed removal nothing is said.
OldestGoAndLimitHolds ==
    LET listed == (DOMAIN items \cap DOMAIN files) \ written
        gone == DOMAIN items \ DOMAIN files
    IN  pass = "return" /\ failed = {} =>
        /\ MaxBytes > 0 => Bytes(listed) <= MaxBytes
        /\ \A f \in gone, g \in listed : Before(f, g)

\* A file that is past its time is removed, though nothing happens then that
\* would trigger the janitor, and although a removal, or the listing of the
\* directory, fails: a failure is logged, and the line triggers the log janitor
\* again (cleanup, installLogTrigger, the runner's timer).  The janitors of
\* artifacts and conflict copies have no such trigger: what they could not
\* remove waits for the next file of their kind.
ExpiredRemoved ==
    \A f \in Names :
        (f \in DOMAIN files /\ files[f].age > Retention)
            ~> (f \notin DOMAIN files \/ files[f].age <= Retention \/ closing)
=============================================================================
