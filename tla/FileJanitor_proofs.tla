------------------------- MODULE FileJanitor_proofs -------------------------
(***************************************************************************)
(* What the runner's timer guarantees, for every interval, and what a      *)
(* janitor, which is a runner, removes.                                    *)
(*                                                                         *)
(* The runner's inductive invariant adds to DueHonoured that nothing is    *)
(* asked for while a run is under way, and where the one timer can come    *)
(* from: the last run, or a throttled trigger.                             *)
(***************************************************************************)
EXTENDS FileJanitor, FiniteFacts

\* The two halves of RunnerTypeOK.
Flags == triggerCh \in BOOLEAN /\ closing \in BOOLEAN /\ owed \in BOOLEAN
Times ==
    /\ phase \in {"running", "select", "stopped"}
    /\ wait \in Delays /\ due \in Delays /\ since \in 0..MaxSince

TimerCleared == phase # "select" => wait = None /\ due = None

\* Before the interval is over the timer stands where the last run put it, or
\* not before the end of the interval (scheduleAt(allowedAt) in loop).
TimerNotEarly ==
    phase = "select" /\ wait # None /\ since < Interval
        => (due # None /\ wait = due) \/ wait >= Interval - since

RunnerInv == Times /\ TimerCleared /\ DueHonoured /\ TimerNotEarly

\* Every step of the runner keeps the invariant.
LEMMA RunnerStep ==
    ASSUME RunnerInv, [RunnerNext]_runnerVars
    PROVE  RunnerInv'
<1> USE RunnerAssumption
<1> USE DEF RunnerInv, Times, Delays, TimerCleared, DueHonoured, TimerNotEarly
<1>1. ASSUME NEW d \in {None} \cup 0..MaxDelay, Finish(d) PROVE RunnerInv'
  <2>1. ~(d # None /\ d < 0)
    BY <1>1
  <2>2. phase' = "select" /\ wait' = d /\ due' = d /\ since' = since
    BY <1>1, <2>1 DEF Finish
  <2>3. d \in Delays
    BY <1>1
  <2>4. CASE d = None
    BY <2>2, <2>3, <2>4
  <2>5. CASE d # None
    BY <2>2, <2>3, <2>5
  <2> QED
    BY <2>4, <2>5
<1>2. CASE Trigger
  BY <1>2 DEF Trigger
<1>3. CASE TakeTrigger
  <2>1. CASE TooSoon
    <3>1. phase = "select" /\ phase' = phase /\ since' = since /\ due' = due
          /\ triggerCh' = FALSE /\ closing' = closing /\ owed' = owed
          /\ wait' = ScheduleAt(Interval - since)
      BY <1>3, <2>1 DEF TakeTrigger
    <3>2. Interval - since \in 1..MaxDelay
      BY <2>1 DEF TooSoon
    <3>3. CASE wait # None /\ Interval - since >= wait
      BY <3>1, <3>3 DEF ScheduleAt
    <3>4. CASE ~(wait # None /\ Interval - since >= wait)
      BY <3>1, <3>2, <3>4 DEF ScheduleAt
    <3> QED
      BY <3>3, <3>4
  <2>2. CASE ~TooSoon
    <3>1. RunNow(0) /\ triggerCh' = FALSE /\ closing' = closing
      BY <1>3, <2>2, Zenon DEF TakeTrigger
    <3> QED
      BY <3>1 DEF RunNow
  <2> QED
    BY <2>1, <2>2
<1>4. CASE TimerFires
  <2>1. PICK s \in 0..(0 - wait) : RunNow(s)
    BY <1>4 DEF TimerFires
  <2>2. wait \in -MaxLag..0 /\ UNCHANGED <<triggerCh, closing>>
    BY <1>4 DEF TimerFires
  <2>3. s \in 0..MaxSince
    BY <2>1, <2>2
  <2> QED
    BY <2>1, <2>2, <2>3 DEF RunNow
<1>5. CASE Close
  BY <1>5 DEF Close
<1>6. CASE Stop
  BY <1>6 DEF Stop
<1>7. CASE Tick
  BY <1>7 DEF Tick, Later, Sooner
<1>8. CASE UNCHANGED runnerVars
  BY <1>8 DEF runnerVars
<1> QED
  BY <1>1, <1>2, <1>3, <1>4, <1>5, <1>6, <1>7, <1>8 DEF RunnerNext

\* The invariant holds at the start.
LEMMA RunnerStart == RunnerInit => RunnerInv
BY RunnerAssumption
DEF RunnerInit, RunnerInv, Times, Delays, TimerCleared, DueHonoured, TimerNotEarly

\* The invariant holds in every reachable state.
THEOREM RunnerInvariant == RunnerSpec => []RunnerInv
<1>1. RunnerInv /\ [RunnerNext]_runnerVars => RunnerInv'
  BY RunnerStep
<1> QED
  BY <1>1, RunnerStart, PTL DEF RunnerSpec

\* The runner's state keeps its types.
THEOREM RunnerTypeCorrect == RunnerSpec => []RunnerTypeOK
<1>1. RunnerInit => Flags
  BY Zenon DEF RunnerInit, Flags
<1>2. Flags /\ [RunnerNext]_runnerVars => Flags'
  BY Zenon DEF Flags, RunnerNext, runnerVars, Finish, Trigger, TakeTrigger, RunNow,
               TimerFires, Close, Stop, Tick
<1>3. Flags /\ Times => RunnerTypeOK
  BY Zenon DEF Flags, Times, RunnerTypeOK
<1> QED
  BY <1>1, <1>2, <1>3, RunnerInvariant, PTL DEF RunnerSpec, RunnerInv

\* The time a run asked for is never forgotten or put off.
THEOREM DueIsHonoured == RunnerSpec => []DueHonoured
BY RunnerInvariant, PTL DEF RunnerInv

\* A run begins before the interval is over only if the last one asked for it.
THEOREM ThrottledRuns == RunnerSpec => EarlyOnlyIfAsked
<1>1. RunnerInv /\ [RunnerNext]_runnerVars
        => [phase = "select" /\ phase' = "running" /\ since < Interval
              => due # None /\ due <= 0]_runnerVars
  <2> SUFFICES ASSUME RunnerInv, RunnerNext, phase = "select", phase' = "running",
                      since < Interval
               PROVE  due # None /\ due <= 0
    BY DEF runnerVars
  <2>1. TimerFires
    BY RunnerAssumption
    DEF RunnerNext, Finish, Trigger, TakeTrigger, TooSoon, RunNow, Close, Stop, Tick,
        RunnerInv, Times
  <2> QED
    BY <2>1, RunnerAssumption
    DEF TimerFires, RunnerInv, Times, Delays, TimerNotEarly
<1> QED
  BY <1>1, RunnerInvariant, PTL DEF RunnerSpec, EarlyOnlyIfAsked

-----------------------------------------------------------------------------
(* The janitor.  The invariant says what a pass knows of the files it listed *)
(* between its steps, in which files are written and time passes: those it   *)
(* keeps are on disk and younger than all others that it listed, and those   *)
(* it has removed come back only as files written since.                     *)

Rows(rows) ==
    /\ DOMAIN rows \subseteq Names
    /\ \A f \in DOMAIN rows : rows[f] \in [age : Nat, size : Nat]
PassRuns == phase = "running" <=> pass # "none"
Cleared ==
    pass \in {"none", "collect"} =>
        DOMAIN items = {} /\ expired = {} /\ kept = {} /\ failed = {} /\ written = {}
Chosen ==
    /\ kept \subseteq DOMAIN items /\ expired \subseteq DOMAIN items /\ kept \cap expired = {}
    /\ kept \cup expired \subseteq DOMAIN files
    /\ pass \in {"limit", "return"} => expired = {}

\* The age of a file that is kept never reaches its bound during the pass, so
\* that its order among the others stays.
KeptYoung == Retention > 0 => \A g \in kept : items[g].age <= Retention + since

\* As long as every removal has succeeded.
Accounted == failed = {} => (DOMAIN items \cap DOMAIN files) \ written \subseteq kept \cup expired
OldestGone == failed = {} => \A f \in DOMAIN items \ kept, g \in kept : Before(f, g)
LimitKept == failed = {} /\ pass = "return" /\ MaxBytes > 0 => Bytes(kept) <= MaxBytes

RowInv == Rows(files) /\ Rows(items) /\ since \in 0..MaxSince /\ failed \subseteq Names
JanitorInv ==
    /\ RowInv /\ PassRuns /\ Cleared /\ Chosen /\ KeptYoung
    /\ Accounted /\ OldestGone /\ LimitKept

\* The names are finitely many, and sizes are numbers.
LEMMA ListedSizes ==
    ASSUME Rows(items)
    PROVE  IsFiniteSet(DOMAIN items) /\ \A f \in DOMAIN items : Size[f] \in Nat
<1>1. IsFiniteSet(Names)
  BY FS_Interval, JanitorAssumption DEF Names
<1>2. IsFiniteSet(DOMAIN items)
  BY <1>1, FS_Subset DEF Rows
<1> QED
  BY <1>2 DEF Rows, Size

\* A file is written.
LEMMA WriteInv ==
    ASSUME JanitorInv, NEW f \in Names, NEW size \in Sizes, Write(f, size)
    PROVE  JanitorInv'
<1>1. /\ pass' = pass /\ items' = items /\ expired' = expired /\ kept' = kept /\ failed' = failed
      /\ phase' = phase /\ since' = since
      /\ written' = IF f \in DOMAIN items THEN written \cup {f} ELSE written
  BY DEF Write, Trigger
<1>2. /\ DOMAIN files' = DOMAIN files \cup {f}
      /\ \A g \in DOMAIN files' : files'[g] = IF g = f THEN [age |-> 0, size |-> size] ELSE files[g]
  BY DEF Write
<1>3. RowInv'
  <2>1. size \in Nat
    BY JanitorAssumption
  <2> QED
    BY <1>1, <1>2, <2>1 DEF JanitorInv, RowInv, Rows
<1>4. PassRuns' /\ KeptYoung' /\ OldestGone' /\ LimitKept'
  BY <1>1 DEF JanitorInv, PassRuns, KeptYoung, OldestGone, LimitKept, Before, Bytes, Size
<1>5. Cleared'
  BY <1>1 DEF JanitorInv, Cleared
<1>6. Chosen' /\ Accounted'
  BY <1>1, <1>2 DEF JanitorInv, Chosen, Accounted
<1> QED
  BY <1>3, <1>4, <1>5, <1>6 DEF JanitorInv

\* The files are listed and the old ones are told from the others.
LEMMA CollectInv ==
    ASSUME JanitorInv, Collect
    PROVE  JanitorInv'
<1> DEFINE old == {f \in DOMAIN files : Retention > 0 /\ files[f].age - since > Retention}
<1> USE JanitorAssumption, RunnerAssumption
<1>1. /\ pass = "collect" /\ pass' = "expire" /\ items' = files /\ expired' = old
      /\ kept' = DOMAIN files \ old /\ files' = files /\ failed' = failed /\ written' = written
      /\ phase' = phase /\ since' = since
  BY DEF Collect, runnerVars
<1>2. \A f \in DOMAIN files : files[f].age \in Nat /\ since \in Nat
  BY DEF JanitorInv, RowInv, Rows
<1>3. RowInv' /\ PassRuns' /\ Cleared' /\ Chosen' /\ Accounted' /\ LimitKept'
  BY <1>1 DEF JanitorInv, RowInv, Rows, PassRuns, Cleared, Chosen, Accounted, LimitKept
<1>4. KeptYoung'
  BY <1>1, <1>2 DEF KeptYoung
<1>5. OldestGone'
  <2> SUFFICES ASSUME NEW f \in old, NEW g \in DOMAIN files \ old PROVE files[f].age > files[g].age
    BY <1>1 DEF OldestGone, Before
  <2> QED
    BY <1>2
<1> QED
  BY <1>3, <1>4, <1>5 DEF JanitorInv

\* A removal, of a file that is too old or of the oldest that is kept.
LEMMA RemoveInv ==
    ASSUME JanitorInv, NEW f \in Names, RemoveExpired(f) \/ RemoveForBytes(f)
    PROVE  JanitorInv'
<1>0. f \in expired \/ f \in kept
  BY DEF RemoveExpired, RemoveForBytes, IsOldest
<1>1. /\ pass' = pass /\ items' = items /\ written' = written /\ phase' = phase /\ since' = since
      /\ pass \in {"expire", "limit"}
  BY DEF RemoveExpired, RemoveForBytes, Remove, RemoveFails, Logged, Trigger, runnerVars
<1>2. PassRuns' /\ Cleared' /\ LimitKept'
  BY <1>1 DEF JanitorInv, PassRuns, Cleared, LimitKept
<1>3. CASE Remove(f)
  <2>1. failed' = failed /\ DOMAIN files' = DOMAIN files \ {f} /\ \A g \in DOMAIN files' : files'[g] = files[g]
    BY <1>3 DEF Remove, Without
  <2>2. RowInv'
    BY <1>1, <2>1 DEF JanitorInv, RowInv, Rows
  <2>3. CASE RemoveExpired(f)
    <3>1. expired' = expired \ {f} /\ kept' = kept /\ f \in expired
      BY <2>3 DEF RemoveExpired, IsOldest
    <3>2. KeptYoung' /\ OldestGone'
      BY <1>1, <2>1, <3>1 DEF JanitorInv, KeptYoung, OldestGone, Before
    <3>3. Chosen' /\ Accounted'
      BY <1>1, <2>1, <3>1 DEF JanitorInv, Chosen, Accounted
    <3> QED
      BY <1>2, <2>2, <3>2, <3>3 DEF JanitorInv
  <2>4. CASE RemoveForBytes(f) /\ kept' = kept \ {f}
    <3>1. expired' = expired /\ IsOldest(f, kept \ failed)
      BY <2>4 DEF RemoveForBytes
    <3>2. KeptYoung'
      BY <1>1, <2>4 DEF JanitorInv, KeptYoung
    <3>3. Chosen' /\ Accounted'
      <4>1. f \in kept /\ kept' \cup expired' = (kept \cup expired) \ {f}
        BY <2>4, <3>1 DEF IsOldest, JanitorInv, Chosen
      <4>2. Chosen'
        BY <1>1, <2>1, <2>4, <3>1, <4>1 DEF JanitorInv, Chosen
      <4>3. Accounted'
        BY <1>1, <2>1, <4>1 DEF JanitorInv, Accounted
      <4> QED
        BY <4>2, <4>3
    <3>4. OldestGone'
      <4> SUFFICES ASSUME failed = {}, NEW h \in DOMAIN items \ (kept \ {f}), NEW g \in kept \ {f}
                   PROVE  Before(h, g)
        BY <1>1, <2>1, <2>4 DEF OldestGone, Before
      <4>1. CASE h = f
        BY <3>1, <4>1 DEF IsOldest
      <4>2. CASE h # f
        BY <4>2 DEF JanitorInv, OldestGone
      <4> QED
        BY <4>1, <4>2
    <3> QED
      BY <1>2, <2>2, <3>2, <3>3, <3>4 DEF JanitorInv
  <2>5. RemoveForBytes(f) => kept' = kept \ {f}
    <3> SUFFICES ASSUME RemoveForBytes(f), RemoveFails(f), kept' = kept PROVE FALSE
      BY DEF RemoveForBytes
    <3> QED
      BY <1>3, <2>1 DEF RemoveFails
  <2> QED
    BY <2>3, <2>4, <2>5
<1>4. CASE RemoveFails(f)
  <2>1. failed' = failed \cup {f} /\ files' = files
    BY <1>4 DEF RemoveFails
  <2>2. RowInv' /\ failed' # {}
    BY <1>1, <2>1 DEF JanitorInv, RowInv
  <2>3. kept' \subseteq kept /\ expired' \subseteq expired
    BY DEF RemoveExpired, RemoveForBytes
  <2>4. KeptYoung' /\ Chosen'
    BY <1>1, <2>1, <2>3 DEF JanitorInv, KeptYoung, Chosen
  <2> QED
    BY <1>2, <2>2, <2>4 DEF JanitorInv, Accounted, OldestGone
<1> QED
  BY <1>3, <1>4 DEF RemoveExpired, RemoveForBytes

\* The other steps of the pass.
LEMMA OtherPassInv ==
    ASSUME JanitorInv, CollectFails \/ ExpiredDone \/ Summary \/ Return
    PROVE  JanitorInv'
<1>1. CASE CollectFails
  <2>1. /\ pass = "collect" /\ pass' = "return" /\ files' = files /\ items' = items /\ expired' = expired
        /\ kept' = kept /\ failed' = failed /\ written' = written /\ phase' = phase /\ since' = since
    BY <1>1 DEF CollectFails, passVars, Logged, Trigger, runnerVars
  <2>2. DOMAIN items = {} /\ expired = {} /\ kept = {}
    BY <2>1 DEF JanitorInv, Cleared
  <2>3. LimitKept'
    <3>1. IsFiniteSet({}) /\ Size' = Size
      BY <2>1, FS_EmptySet DEF Size
    <3> DEFINE w == Size
    <3> HIDE DEF w
    <3>2. SumFunctionOnSet(w, {}) = 0
      BY <3>1, SumStep
    <3> QED
      BY <2>1, <2>2, <3>1, <3>2, JanitorAssumption DEF LimitKept, Bytes, w
  <2>4. RowInv' /\ PassRuns' /\ Cleared' /\ Chosen' /\ KeptYoung' /\ Accounted' /\ OldestGone'
    BY <2>1, <2>2 DEF JanitorInv, RowInv, PassRuns, Cleared, Chosen, KeptYoung, Accounted, OldestGone
  <2> QED
    BY <2>3, <2>4 DEF JanitorInv
<1>2. CASE ExpiredDone
  <2>1. /\ pass = "expire" /\ pass' = "limit" /\ files' = files /\ items' = items /\ expired' = expired
        /\ kept' = kept /\ failed' = failed /\ written' = written /\ phase' = phase /\ since' = since
        /\ expired = {}
    BY <1>2 DEF ExpiredDone, passVars, runnerVars
  <2> QED
    BY <2>1 DEF JanitorInv, RowInv, PassRuns, Cleared, Chosen, KeptYoung, Accounted, OldestGone, LimitKept, Before
<1>3. CASE Summary
  <2>1. /\ pass = "limit" /\ pass' = "return" /\ files' = files /\ items' = items /\ expired' = expired
        /\ kept' = kept /\ failed' = failed /\ written' = written /\ phase' = phase /\ since' = since
        /\ (~TooMuch \/ kept \subseteq failed)
    BY <1>3 DEF Summary, passVars, Logged, Trigger, runnerVars
  <2>2. LimitKept'
    <3>1. Size' = Size
      BY <2>1 DEF Size
    <3> SUFFICES ASSUME failed = {}, MaxBytes > 0 PROVE SumFunctionOnSet(Size, kept) <= MaxBytes
      BY <2>1, <3>1 DEF LimitKept, Bytes
    <3>2. Rows(items) /\ kept \in SUBSET DOMAIN items
      BY DEF JanitorInv, RowInv, Chosen
    <3>3. SumFunctionOnSet(Size, kept) \in Nat /\ (kept = {} => SumFunctionOnSet(Size, kept) = 0)
      BY <3>2, ListedSizes, SumRemove
    <3> QED
      BY <2>1, <3>3, JanitorAssumption DEF TooMuch, Bytes
  <2> QED
    BY <2>1, <2>2 DEF JanitorInv, RowInv, PassRuns, Cleared, Chosen, KeptYoung, Accounted, OldestGone, Before
<1>4. CASE Return
  <2>1. /\ pass = "return" /\ pass' = "none" /\ files' = files /\ items' = Nothing /\ expired' = expired
        /\ kept' = {} /\ failed' = {} /\ written' = {} /\ phase' = "select" /\ since' = since
    BY <1>4 DEF Return, Finish
  <2>2. DOMAIN items' = {} /\ expired = {}
    BY <2>1 DEF JanitorInv, Chosen, Nothing
  <2>3. PassRuns' /\ Cleared' /\ Chosen' /\ KeptYoung' /\ Accounted' /\ OldestGone' /\ LimitKept'
    BY <2>1, <2>2 DEF PassRuns, Cleared, Chosen, KeptYoung, Accounted, OldestGone, LimitKept
  <2>4. RowInv'
    BY <2>1, <2>2 DEF JanitorInv, RowInv, Rows
  <2> QED
    BY <2>3, <2>4 DEF JanitorInv
<1> QED
  BY <1>1, <1>2, <1>3, <1>4

\* The runner: a run begins with nothing listed.
LEMMA StartsInv ==
    ASSUME JanitorInv, Times,
           Starts(Trigger) \/ Starts(TakeTrigger) \/ Starts(TimerFires) \/ Starts(Close) \/ Starts(Stop)
    PROVE  JanitorInv'
<1> USE RunnerAssumption
<1>1. /\ files' = files /\ items' = items /\ expired' = expired
      /\ kept' = kept /\ failed' = failed /\ written' = written
  BY DEF Starts, passVars
<1>2. CASE phase = "select" /\ phase' = "running"
  <2>1. pass = "none" /\ pass' = "collect"
    <3>1. pass = "none"
      BY <1>2 DEF JanitorInv, PassRuns
    <3> QED
      BY <1>2, <3>1 DEF Starts
  <2>2. since' \in 0..MaxSince
    <3>1. CASE Starts(TimerFires)
      <4>1. PICK s \in 0..(0 - wait) : RunNow(s)
        BY <3>1 DEF Starts, TimerFires
      <4>2. wait \in -MaxLag..0
        BY <3>1 DEF Starts, TimerFires, Times, Delays
      <4> QED
        BY <4>1, <4>2 DEF RunNow
    <3>2. CASE ~Starts(TimerFires)
      BY <1>2, <3>2 DEF Starts, Trigger, TakeTrigger, Close, Stop, RunNow, JanitorInv, RowInv
    <3> QED
      BY <3>1, <3>2
  <2>3. DOMAIN items = {} /\ expired = {} /\ kept = {} /\ failed = {} /\ written = {}
    BY <2>1 DEF JanitorInv, Cleared
  <2> QED
    BY <1>1, <1>2, <2>1, <2>2, <2>3
    DEF JanitorInv, RowInv, PassRuns, Cleared, Chosen, KeptYoung, Accounted, OldestGone, LimitKept
<1>3. CASE ~(phase = "select" /\ phase' = "running")
  <2>1. since' = since
    <3>1. CASE Starts(TakeTrigger)
      BY <1>3, <3>1 DEF Starts, TakeTrigger, RunNow
    <3>2. ~Starts(TimerFires)
      BY <1>3 DEF Starts, TimerFires, RunNow
    <3> QED
      BY <3>1, <3>2 DEF Starts, Trigger, Close, Stop
  <2>2. phase' = phase \/ (phase = "select" /\ phase' = "stopped")
    BY <1>3 DEF Starts, Trigger, TakeTrigger, TimerFires, Close, Stop, RunNow
  <2>3. pass' = pass
    BY <2>2 DEF Starts
  <2>4. PassRuns'
    BY <2>2, <2>3 DEF JanitorInv, PassRuns
  <2> QED
    BY <1>1, <2>1, <2>3, <2>4
    DEF JanitorInv, RowInv, Cleared, Chosen, KeptYoung, Accounted, OldestGone, LimitKept, Before, Bytes, Size
<1> QED
  BY <1>2, <1>3

\* What a tick makes of the files: sizes stay, and ages grow up to their bound.
LEMMA AgedIs ==
    ASSUME NEW rows, Rows(rows)
    PROVE  /\ DOMAIN Aged(rows) = DOMAIN rows
           /\ \A f \in DOMAIN rows :
                /\ Aged(rows)[f].size = rows[f].size
                /\ Aged(rows)[f].age = IF Retention = 0 THEN rows[f].age + 1 ELSE Sooner(rows[f].age + 1, MaxAge)
BY DEF Rows, Aged

\* They stay files.
LEMMA AgedRows ==
    ASSUME NEW rows, Rows(rows), MaxAge \in Nat
    PROVE  Rows(Aged(rows))
<1>1. \A a \in Nat : (IF Retention = 0 THEN a + 1 ELSE Sooner(a + 1, MaxAge)) \in Nat
  BY DEF Sooner
<1>2. \A f \in DOMAIN rows : Aged(rows)[f] \in [age : Nat, size : Nat]
  BY <1>1 DEF Rows, Aged
<1> QED
  BY <1>2 DEF Rows, Aged

\* Time passes: during a pass `since' counts it, as long as it can.
LEMMA TickInv ==
    ASSUME JanitorInv, TimePasses
    PROVE  JanitorInv'
<1> USE JanitorAssumption, RunnerAssumption
<1>1. /\ pass' = pass /\ expired' = expired /\ kept' = kept /\ failed' = failed /\ written' = written
      /\ phase' = phase /\ since' = Sooner(since + 1, MaxSince) /\ (phase = "running" => since < MaxSince)
      /\ files' = Aged(files) /\ items' = Aged(items)
  BY DEF TimePasses, Tick
<1>2. Rows(files) /\ Rows(items) /\ since \in 0..MaxSince
  BY DEF JanitorInv, RowInv
<1>3. /\ DOMAIN items' = DOMAIN items
      /\ \A f \in DOMAIN items :
           /\ items'[f].size = items[f].size
           /\ items'[f].age = IF Retention = 0 THEN items[f].age + 1 ELSE Sooner(items[f].age + 1, MaxAge)
  BY <1>1, <1>2, AgedIs
<1>4. DOMAIN files' = DOMAIN files
  BY <1>1, <1>2, AgedIs
<1>5. RowInv'
  <2>1. MaxAge \in Nat
    BY DEF MaxAge
  <2>2. \A rows : Rows(rows) => Rows(Aged(rows))
    BY <2>1, AgedRows
  <2>3. since' \in 0..MaxSince
    BY <1>1, <1>2 DEF Sooner
  <2> QED
    BY <1>1, <1>2, <2>2, <2>3 DEF JanitorInv, RowInv
<1>6. PassRuns' /\ Cleared' /\ Chosen' /\ Accounted'
  BY <1>1, <1>3, <1>4 DEF JanitorInv, PassRuns, Cleared, Chosen, Accounted
<1>7. \A f \in DOMAIN items : items[f].age \in Nat
  BY <1>2 DEF Rows
<1>8. pass \in {"none", "collect"} => kept = {}
  BY DEF JanitorInv, Cleared
<1>9. kept # {} => since' = since + 1
  BY <1>1, <1>2, <1>8 DEF JanitorInv, PassRuns, Sooner
<1>10. KeptYoung'
  <2> SUFFICES ASSUME Retention > 0, NEW g \in kept PROVE items'[g].age <= Retention + since'
    BY <1>1 DEF KeptYoung
  <2>1. items[g].age <= Retention + since /\ g \in DOMAIN items
    BY DEF JanitorInv, KeptYoung, Chosen
  <2> QED
    BY <1>2, <1>3, <1>7, <1>9, <2>1 DEF Sooner, MaxAge
<1>11. OldestGone'
  <2> SUFFICES ASSUME failed = {}, NEW f \in DOMAIN items \ kept, NEW g \in kept PROVE Before(f, g)'
    BY <1>1, <1>3 DEF OldestGone
  <2>1. g \in DOMAIN items /\ Before(f, g)
    BY DEF JanitorInv, Chosen, OldestGone
  <2>2. items[f].age \in Nat /\ items[g].age \in Nat
    BY <1>7, <2>1
  <2>3. CASE Retention = 0
    BY <1>3, <2>1, <2>2, <2>3 DEF Before
  <2>4. CASE Retention > 0
    <3>1. items[g].age <= Retention + since /\ since < MaxSince
      BY <1>1, <1>2, <1>8, <2>4 DEF JanitorInv, KeptYoung, PassRuns
    <3>2. items[g].age + 1 < MaxAge
      BY <1>2, <2>2, <3>1 DEF MaxAge
    <3>3. items'[g].age = items[g].age + 1
      BY <1>3, <2>1, <2>2, <2>4, <3>2 DEF Sooner
    <3>4. items'[f].age = IF items[f].age + 1 < MaxAge THEN items[f].age + 1 ELSE MaxAge
      BY <1>3, <2>4 DEF Sooner
    <3>5. MaxAge \in Nat
      BY DEF MaxAge
    <3> QED
      BY <2>1, <2>2, <3>2, <3>3, <3>4, <3>5 DEF Before
  <2> QED
    BY <2>3, <2>4
<1>12. LimitKept'
  <2>1. Size' = Size
    BY <1>3 DEF Size
  <2> QED
    BY <1>1, <2>1 DEF JanitorInv, LimitKept, Bytes
<1> QED
  BY <1>5, <1>6, <1>10, <1>11, <1>12 DEF JanitorInv

-----------------------------------------------------------------------------
(* The janitor is a runner *)

\* The time for which a pass asks is none, or at most a retention from now.
LEMMA NextDueIs ==
    ASSUME JanitorInv
    PROVE  NextDue = None \/ (NextDue \in Int /\ NextDue <= MaxDelay)
<1> USE JanitorAssumption, RunnerAssumption
<1>1. CASE kept = {} \/ Retention = 0
  BY <1>1 DEF NextDue
<1>2. CASE ~(kept = {} \/ Retention = 0)
  <2> DEFINE T == {Retention - items[f].age : f \in kept}
             Z == {n \in Nat : \E t \in T : n = t + MaxSince}
  <2>1. \A f \in kept : items[f].age \in Nat /\ items[f].age <= Retention + MaxSince
    <3>1. \A f \in kept : items[f].age \in Nat /\ items[f].age <= Retention + since
      BY <1>2 DEF JanitorInv, RowInv, Rows, Chosen, KeptYoung
    <3>2. since \in 0..MaxSince
      BY DEF JanitorInv, RowInv
    <3> QED
      BY <3>1, <3>2
  <2>2. \A t \in T : t \in Int /\ t + MaxSince \in Nat /\ t <= Retention
    BY <2>1
  <2>3. T # {}
    BY <1>2
  <2>4. NextDue = Min(T)
    BY <1>2 DEF NextDue
  <2> HIDE DEF T
  <2>5. Z \subseteq Nat /\ Z # {}
    BY <2>2, <2>3
  <2>6. PICK z \in Z : \A y \in Z : z <= y
    BY <2>5, LeastNat
  <2>7. PICK t \in T : z = t + MaxSince
    BY <2>6
  <2>8. ASSUME NEW s \in T PROVE t <= s
    <3>1. s + MaxSince \in Z
      BY <2>2
    <3>2. z <= s + MaxSince
      BY <2>6, <3>1
    <3> QED
      BY <2>2, <2>7, <3>2
  <2>9. Min(T) \in T
    BY <2>8 DEF Min
  <2> QED
    BY <2>2, <2>4, <2>9
<1> QED
  BY <1>1, <1>2

\* Every step of the janitor is a step of its runner, or none.
LEMMA StepIsRunners ==
    ASSUME JanitorInv, [Next]_vars
    PROVE  [RunnerNext]_runnerVars
<1>1. CASE \E f \in Names, size \in Sizes : Write(f, size)
  BY <1>1 DEF Write, RunnerNext
<1>2. CASE Collect \/ CollectFails \/ ExpiredDone \/ Summary
             \/ \E f \in Names : RemoveExpired(f) \/ RemoveForBytes(f)
  <2>1. Trigger \/ UNCHANGED runnerVars
    BY <1>2 DEF Collect, CollectFails, ExpiredDone, Summary, RemoveExpired, RemoveForBytes,
                Remove, RemoveFails, Logged
  <2> QED
    BY <2>1 DEF RunnerNext
<1>3. CASE Return
  <2> DEFINE d == IF NextDue # None /\ NextDue < 0 THEN 0 ELSE NextDue
  <2>1. Finish(NextDue)
    BY <1>3 DEF Return
  <2>2. d \in {None} \cup 0..MaxDelay
    BY NextDueIs, RunnerAssumption
  <2>3. ~(d # None /\ d < 0)
    BY <2>2
  <2>4. Finish(d)
    BY <2>1, <2>3 DEF Finish
  <2> QED
    BY <2>2, <2>4 DEF RunnerNext
<1>4. CASE TimePasses \/ Starts(Trigger) \/ Starts(TakeTrigger) \/ Starts(TimerFires)
             \/ Starts(Close) \/ Starts(Stop)
  BY <1>4 DEF TimePasses, Starts, RunnerNext
<1>5. CASE UNCHANGED vars
  BY <1>5 DEF vars
<1> QED
  BY <1>1, <1>2, <1>3, <1>4, <1>5 DEF Next, Pass

\* What a pass knows between its steps, and the invariant of its runner.
THEOREM JanitorInvariant == Spec => [](RunnerInv /\ JanitorInv)
<1>1. Init => RunnerInv /\ JanitorInv
  <2> SUFFICES ASSUME Init PROVE RunnerInv /\ JanitorInv
    OBVIOUS
  <2>1. RunnerInv
    BY RunnerStart DEF Init
  <2>2. DOMAIN files = {} /\ DOMAIN items = {} /\ since = 0 /\ phase = "running" /\ pass = "collect"
        /\ expired = {} /\ kept = {} /\ failed = {} /\ written = {}
    BY DEF Init, RunnerInit, Nothing
  <2>3. JanitorInv
    BY <2>2, RunnerAssumption
    DEF JanitorInv, RowInv, Rows, PassRuns, Cleared, Chosen, KeptYoung, Accounted, OldestGone, LimitKept
  <2> QED
    BY <2>1, <2>3
<1>2. RunnerInv /\ JanitorInv /\ [Next]_vars => (RunnerInv /\ JanitorInv)'
  <2> SUFFICES ASSUME RunnerInv, JanitorInv, [Next]_vars PROVE RunnerInv' /\ JanitorInv'
    OBVIOUS
  <2>1. RunnerInv'
    BY StepIsRunners, RunnerStep
  <2>2. CASE UNCHANGED vars
    <3>1. /\ files' = files /\ items' = items /\ since' = since /\ phase' = phase /\ pass' = pass
          /\ expired' = expired /\ kept' = kept /\ failed' = failed /\ written' = written
      BY <2>2 DEF vars, runnerVars, janitorVars, passVars
    <3>2. RowInv' /\ PassRuns' /\ Cleared' /\ Chosen' /\ KeptYoung' /\ Accounted'
      BY <3>1 DEF JanitorInv, RowInv, Rows, PassRuns, Cleared, Chosen, KeptYoung, Accounted
    <3>3. OldestGone' /\ LimitKept'
      BY <3>1 DEF JanitorInv, OldestGone, LimitKept, Before, Bytes, Size
    <3>4. JanitorInv'
      BY <3>2, <3>3 DEF JanitorInv
    <3> QED
      BY <2>1, <3>4
  <2>3. CASE Next
    <3>1. Times
      BY DEF RunnerInv
    <3>2. JanitorInv'
      BY <2>3, <3>1, WriteInv, CollectInv, RemoveInv, OtherPassInv, StartsInv, TickInv DEF Next, Pass
    <3> QED
      BY <2>1, <3>2
  <2> QED
    BY <2>1, <2>2, <2>3
<1> QED
  BY <1>1, <1>2, PTL DEF Spec

\* A janitor is a runner: what holds of every runner holds of the janitors.
THEOREM JanitorIsRunner == Spec => RunnerSpec
<1>1. Init => RunnerInit
  BY DEF Init
<1>2. JanitorInv /\ [Next]_vars => [RunnerNext]_runnerVars
  BY StepIsRunners
<1> QED
  BY <1>1, <1>2, JanitorInvariant, PTL DEF Spec, RunnerSpec

\* A pass in which every removal succeeded has removed a prefix of the files in
\* the order of their age, and what it listed and left is within the limit
\* (cleanupFilesByPolicy), for all limits and whatever is written meanwhile.
THEOREM OldestGoFirst == Spec => []OldestGoAndLimitHolds
<1>1. JanitorInv => OldestGoAndLimitHolds
  <2> DEFINE listed == (DOMAIN items \cap DOMAIN files) \ written
             gone == DOMAIN items \ DOMAIN files
  <2> SUFFICES ASSUME JanitorInv, pass = "return", failed = {}
               PROVE  /\ MaxBytes > 0 => Bytes(listed) <= MaxBytes
                      /\ \A f \in gone, g \in listed : Before(f, g)
    BY DEF OldestGoAndLimitHolds
  <2>1. Rows(items) /\ kept \in SUBSET DOMAIN items
    BY DEF JanitorInv, RowInv, Chosen
  <2>2. listed \in SUBSET kept
    BY DEF JanitorInv, Chosen, Accounted
  <2>3. gone \subseteq DOMAIN items \ kept
    BY DEF JanitorInv, Chosen
  <2>4. \A f \in gone, g \in listed : Before(f, g)
    BY <2>2, <2>3 DEF JanitorInv, OldestGone
  <2> HIDE DEF listed
  <2>5. ASSUME MaxBytes > 0 PROVE Bytes(listed) <= MaxBytes
    <3>1. SumFunctionOnSet(Size, listed) <= SumFunctionOnSet(Size, kept)
      <4> DEFINE w == Size
      <4>1. IsFiniteSet(DOMAIN items) /\ \A f \in DOMAIN items : w[f] \in Nat
        BY <2>1, ListedSizes
      <4>2. \A f \in listed : w[f] <= w[f]
        BY <2>1, <2>2, <4>1
      <4> HIDE DEF w
      <4>3. SumFunctionOnSet(w, listed) <= SumFunctionOnSet(w, kept)
        BY <2>1, <2>2, <4>1, <4>2, SumMonotone
      <4> QED
        BY <4>3 DEF w
    <3>2. SumFunctionOnSet(Size, listed) \in Nat /\ SumFunctionOnSet(Size, kept) \in Nat
      BY <2>1, <2>2, ListedSizes, SumRemove
    <3>3. SumFunctionOnSet(Size, kept) <= MaxBytes
      BY <2>5 DEF JanitorInv, LimitKept, Bytes
    <3> QED
      BY <3>1, <3>2, <3>3, JanitorAssumption DEF Bytes
  <2> QED
    BY <2>4, <2>5
<1> QED
  BY <1>1, JanitorInvariant, PTL

\* So the times that the janitors' passes ask for are honoured, and they run
\* early only if asked (requestSchedule, nextScheduledRun).
THEOREM JanitorsRunInTime == Spec => []DueHonoured /\ EarlyOnlyIfAsked
BY JanitorIsRunner, DueIsHonoured, ThrottledRuns, PTL
=============================================================================
