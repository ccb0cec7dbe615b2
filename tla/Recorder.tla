------------------------------ MODULE Recorder ------------------------------
(***************************************************************************)
(* observability.Recorder: what the server counts of its requests, and the *)
(* snapshot that ServerStatus and the periodic reporter show.  Every       *)
(* method runs under one mutex.  Of the samplers (one per method, queue    *)
(* wait, build duration) one is modelled.                                  *)
(***************************************************************************)
EXTENDS Integers, Sequences, FiniteSets

CONSTANTS
    HotPaths,          \* paths of range writes, as numbers in the order of their names
    Threshold,         \* the largest write that counts as small
    Window,            \* ticks that may lie between two writes of a burst
    BurstMinimum,      \* writes that make a burst
    SampleSize,        \* durations a sampler keeps
    Durations,         \* milliseconds
    MaxWrites,         \* bound: small writes to a path
    MaxSamples         \* bound: durations

ASSUME RecorderAssumption ==
    /\ Threshold \in Nat \ {0} /\ Window \in Nat \ {0}
    /\ BurstMinimum \in Nat \ {0, 1} /\ SampleSize \in Nat \ {0}
    /\ HotPaths \subseteq Nat /\ Durations \subseteq Nat /\ MaxWrites \in Nat /\ MaxSamples \in Nat

VARIABLES
    window,    \* path -> the small writes under way: last and count
    bursts,    \* path -> bursts seen (smallWritePathCounts)
    sampler,   \* durationSampler: values, next, count, and errors of the method
    writes,    \* history variable: path -> times of its small writes, in the order recorded
    samples    \* history variable: the durations, in the order recorded
recorderVars == <<window, bursts, sampler, writes, samples>>

RecorderInit ==
    /\ window = [p \in HotPaths |-> [last |-> 0, count |-> 0]]
    /\ bursts = [p \in HotPaths |-> 0]
    /\ sampler = [values |-> << >>, next |-> 0, count |-> 0, errors |-> 0]
    /\ writes = [p \in HotPaths |-> << >>] /\ samples = << >>

\* A write that comes soon enough after the last one belongs to its burst,
\* which is counted when it has reached its minimum.
Burst(p, at) ==
    LET w == window[p] IN
    IF w.count = 0 \/ at - w.last > Window
    THEN window' = [window EXCEPT ![p] = [last |-> at, count |-> 1]] /\ UNCHANGED bursts
    ELSE /\ window' = [window EXCEPT ![p] = [last |-> at, count |-> w.count + 1]]
         /\ bursts' = [bursts EXCEPT ![p] = IF w.count + 1 = BurstMinimum THEN @ + 1 ELSE @]

\* recordRangeWriteAt.  The time is taken before the mutex, so that times need
\* not come in order.
RecordRangeWrite(p, bytes, at) ==
    /\ Len(writes[p]) < MaxWrites
    /\ IF bytes = 0 \/ bytes > Threshold
       THEN UNCHANGED <<window, bursts, writes>>
       ELSE Burst(p, at) /\ writes' = [writes EXCEPT ![p] = Append(@, at)]
    /\ UNCHANGED <<sampler, samples>>

\* Mutant: the first value is overwritten whenever the buffer is full.
AddFirst(s, ms) ==
    IF Len(s.values) < SampleSize
    THEN [s EXCEPT !.values = Append(@, ms), !.count = @ + 1]
    ELSE [s EXCEPT !.values[1] = ms, !.count = @ + 1]

\* durationSampler.Add: a ring once it is full.
Add(s, ms) ==
    IF Len(s.values) < SampleSize
    THEN [s EXCEPT !.values = Append(@, ms), !.count = @ + 1]
    ELSE [s EXCEPT !.values[s.next + 1] = ms, !.next = (@ + 1) % SampleSize, !.count = @ + 1]

\* RecordRPC, RecordBuildQueueWait, RecordBuildCompletion.
RecordDuration(ms, failed) ==
    /\ Len(samples) < MaxSamples
    /\ sampler' = [Add(sampler, ms) EXCEPT !.errors = @ + (IF failed THEN 1 ELSE 0)]
    /\ samples' = Append(samples, ms)
    /\ UNCHANGED <<window, bursts, writes>>

\* sort.Slice: the elements of S by their ranks in an order of S, a set of pairs.
InOrder(S, order) ==
    [k \in 1..Cardinality(S) |->
        CHOOSE x \in S : Cardinality({y \in S : <<y, x>> \in order}) = k - 1]

\* percentile, of the values as durationSampler.Snapshot sorts them.
Percentile(values, p) ==
    LET n == Len(values)
        order == {d \in (1..n) \X (1..n) :
                    \/ values[d[1]] < values[d[2]]
                    \/ values[d[1]] = values[d[2]] /\ d[1] < d[2]}
        rank == (n * p + 99) \div 100
    IN  values[InOrder(1..n, order)[IF rank < 1 THEN 1 ELSE IF rank > n THEN n ELSE rank]]

\* Snapshot: the paths with bursts, the busiest first, paths of the same count in
\* the order of their names, and the percentiles.
BusyPaths == {p \in HotPaths : bursts[p] > 0}
Busier ==
    {d \in BusyPaths \X BusyPaths :
        \/ bursts[d[1]] > bursts[d[2]]
        \/ bursts[d[1]] = bursts[d[2]] /\ d[1] < d[2]}
Snapshot ==
    [hotPaths |-> InOrder(BusyPaths, Busier),
     count |-> sampler.count, errors |-> sampler.errors,
     percentiles |-> [p \in {50, 95, 99} |->
                        IF sampler.values = << >> THEN 0 ELSE Percentile(sampler.values, p)]]

-----------------------------------------------------------------------------
(* Properties *)

\* What is shown are the percentiles of the latest durations, as many as the
\* buffer holds: the smallest value that p of a hundred do not exceed, for one
\* value and for a buffer that has wrapped around alike.
PercentilesOfLatest ==
    LET n == Len(samples)
        kept == IF n < SampleSize THEN n ELSE SampleSize
        latest == SubSeq(samples, n - kept + 1, n)
        AtMost(v) == Cardinality({i \in 1..kept : latest[i] <= v})
    IN  kept > 0 =>
        \A p \in {50, 95, 99} :
            LET v == Snapshot.percentiles[p] IN
            /\ \E i \in 1..kept : latest[i] = v
            /\ 100 * AtMost(v) >= p * kept
            /\ 100 * AtMost(v - 1) < p * kept

\* A burst is counted once, when a series of small writes to a path with no long
\* pause reaches the minimum, however long it goes on, and a pause ends it.
Pause(times, i) == i = 1 \/ times[i] - times[i - 1] > Window
Reached(times, i) ==
    LET first == i - BurstMinimum + 1 IN
    first >= 1 /\ Pause(times, first) /\ \A j \in (first + 1)..i : ~Pause(times, j)
BurstsCounted ==
    \A p \in HotPaths :
        bursts[p] = Cardinality({i \in 1..Len(writes[p]) : Reached(writes[p], i)})

\* What Snapshot shows is exact: percentiles of a ring buffer, and the paths with
\* bursts, every one once and none below a quieter one.
SnapshotIsExact ==
    LET hot == Snapshot.hotPaths IN
    /\ PercentilesOfLatest /\ BurstsCounted
    /\ Snapshot.count = Len(samples)
    /\ {hot[i] : i \in 1..Len(hot)} = BusyPaths
    /\ \A i, j \in 1..Len(hot) :
         i < j => bursts[hot[i]] > bursts[hot[j]] \/ (bursts[hot[i]] = bursts[hot[j]] /\ hot[i] < hot[j])
=============================================================================
