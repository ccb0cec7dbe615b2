--------------------------- MODULE CleanupRunner ---------------------------
(***************************************************************************)
(* cleanup.Runner: one goroutine that runs a clean-up function at start,   *)
(* when it is triggered (at most once per interval) and at the time the    *)
(* last run asked for.                                                     *)
(*                                                                         *)
(* Times are relative to the present: wait is scheduledAt - now, since is  *)
(* now - lastRun.  A tick moves both, so that the model has no last moment *)
(* and what must eventually happen can be stated.                          *)
(***************************************************************************)
EXTENDS Integers

CONSTANTS
    Interval,   \* Runner.interval, in ticks; 0 for no throttling
    MaxDelay,   \* bound: the furthest a run may ask for
    MaxSince,   \* bound: since is not counted further; a run is shorter
    MaxLag,     \* bound: ticks between the timer going off and the loop seeing it
    None        \* the zero time.Time

ASSUME RunnerAssumption ==
    /\ Interval \in Nat /\ MaxDelay \in Nat /\ MaxLag \in Nat
    /\ MaxSince \in Nat \ {0} /\ Interval <= MaxSince /\ Interval <= MaxDelay
    /\ MaxLag <= MaxSince
    /\ None \notin Int

VARIABLES
    phase,      \* where loop is: "running" in r.run, "select", or "stopped"
    triggerCh,  \* the channel of capacity one holds an element
    closing,    \* stopCh is closed
    wait,       \* scheduledAt - now, or None when no timer is set
    since,      \* now - lastRun
    due,        \* history: when the last run asked to be repeated, minus now
    owed        \* history: a Trigger since the last run began
runnerVars == <<phase, triggerCh, closing, wait, since, due, owed>>

Delays == {None} \cup -MaxLag..MaxDelay
RunnerTypeOK ==
    /\ phase \in {"running", "select", "stopped"}
    /\ triggerCh \in BOOLEAN /\ closing \in BOOLEAN /\ owed \in BOOLEAN
    /\ wait \in Delays /\ due \in Delays
    /\ since \in 0..MaxSince

Later(d) == IF d = None THEN None ELSE d - 1
Sooner(s, t) == IF s < t THEN s ELSE t

\* A run is under way from the start: NewRunner starts the loop, which begins
\* with runNow.
RunnerInit ==
    /\ phase = "running" /\ triggerCh = FALSE /\ closing = FALSE
    /\ wait = None /\ since = 0 /\ due = None /\ owed = FALSE

\* Mutant: the timer is reset whatever it was set to.
ScheduleLatest(d) == d

\* scheduleAt(now + d) when a timer may be set already: the sooner one stays.
ScheduleAt(d) == IF wait # None /\ d >= wait THEN wait ELSE d

\* runNow up to the call of r.run, for a `now' that lies s ticks back.
RunNow(s) ==
    /\ phase' = "running" /\ wait' = None /\ since' = s
    /\ due' = None /\ owed' = FALSE

\* The run returns; it wants to be repeated d ticks from now.  A time before
\* the start of the run is replaced by the start, and a timer for a moment
\* that has passed goes off at once.
Finish(d) ==
    LET at == IF d # None /\ d < 0 THEN 0 ELSE d
    IN  /\ phase = "running" /\ phase' = "select"
        /\ wait' = at /\ due' = at
        /\ UNCHANGED <<triggerCh, closing, since, owed>>

\* Mutant: a channel without a buffer drops what comes during a run.
TriggerUnbuffered ==
    /\ triggerCh' = (triggerCh \/ phase = "select") /\ owed' = TRUE
    /\ UNCHANGED <<phase, closing, wait, since, due>>

\* A trigger that finds the channel full is dropped: the one in it stands for
\* both.
Trigger ==
    /\ triggerCh' = TRUE /\ owed' = TRUE
    /\ UNCHANGED <<phase, closing, wait, since, due>>

TooSoon == Interval > 0 /\ since < Interval

TakeTrigger ==
    /\ phase = "select" /\ triggerCh
    /\ triggerCh' = FALSE /\ UNCHANGED closing
    /\ \/ /\ TooSoon
          /\ wait' = ScheduleAt(Interval - since)
          /\ UNCHANGED <<phase, since, due, owed>>
       \/ /\ ~TooSoon
          /\ RunNow(0)

\* The timer's channel delivers the time at which the timer went off.
TimerFires ==
    /\ phase = "select" /\ wait # None /\ wait <= 0
    /\ \E s \in 0..(0 - wait) : RunNow(s)
    /\ UNCHANGED <<triggerCh, closing>>

Close ==
    /\ ~closing /\ closing' = TRUE
    /\ UNCHANGED <<phase, triggerCh, wait, since, due, owed>>

\* Mutant: pending triggers are served before the loop ends.
StopWhenIdle ==
    /\ phase = "select" /\ closing /\ ~triggerCh
    /\ phase' = "stopped" /\ wait' = None /\ due' = None
    /\ UNCHANGED <<triggerCh, closing, since, owed>>

Stop ==
    /\ phase = "select" /\ closing
    /\ phase' = "stopped" /\ wait' = None /\ due' = None
    /\ UNCHANGED <<triggerCh, closing, since, owed>>

Tick ==
    /\ phase = "running" => since < MaxSince
    /\ wait # None => wait > -MaxLag
    /\ wait' = Later(wait) /\ due' = Later(due)
    /\ since' = Sooner(since + 1, MaxSince)
    /\ UNCHANGED <<phase, triggerCh, closing, owed>>

----------------------------------------------------------------------------
RunnerNext ==
    \/ \E d \in {None} \cup 0..MaxDelay : Finish(d)
    \/ Trigger \/ TakeTrigger \/ TimerFires \/ Close \/ Stop \/ Tick

RunnerSpec == RunnerInit /\ [][RunnerNext]_runnerVars

\* A run returns, time passes, and a ready case of select is taken.  Stop is
\* one of several ready cases and select picks among them at random, so it is
\* not passed over for ever: strong fairness.
RunnerFairness ==
    /\ WF_runnerVars(\E d \in {None} \cup 0..MaxDelay : Finish(d))
    /\ WF_runnerVars(Tick) /\ WF_runnerVars(TakeTrigger)
    /\ WF_runnerVars(TimerFires) /\ SF_runnerVars(Stop)
RunnerFairSpec == RunnerSpec /\ RunnerFairness

----------------------------------------------------------------------------
(* Properties.                                                             *)

\* A throttled trigger moves the one timer the loop has, and a run sets it
\* again: the time a run asked for is never forgotten or put off by either
\* (scheduleAt, runNow).
DueHonoured == phase = "select" /\ due # None => wait # None /\ wait <= due

\* Runs are at least an interval apart, except where the last run asked to be
\* repeated earlier (the throttling of loop).
EarlyOnlyIfAsked ==
    [][phase = "select" /\ phase' = "running" /\ since < Interval
         => due # None /\ due <= 0]_runnerVars

\* Triggers are coalesced (Trigger drops one when the channel is full, a
\* throttled one only sets the timer) but never lost: after each one a run
\* begins, unless the runner is being closed.
TriggerServed == owed ~> (~owed \/ closing)

\* Close returns however often the runner is triggered.
CloseReturns == closing ~> (phase = "stopped")

============================================================================
