--------------------- MODULE DatabaseMaintenance_proofs ---------------------
(***************************************************************************)
(* What trimming leaves, for any number of backups, of files to keep, of   *)
(* failures and of callers, as long as no two backups are made at a time   *)
(* (nothing in the code keeps two from it, and then more files are left:   *)
(* []OneAtATime is an assumption of the theorems and not a result).  And   *)
(* that the maintenance runs as a runner does, with no such assumption.    *)
(*                                                                         *)
(* The argument follows one clean-up.  Its list is what the directory has  *)
(* when it is made and when it is sorted, so that what is left of it is,   *)
(* newest first, the oldest files of the directory, as many as there are   *)
(* too many.                                                               *)
(***************************************************************************)
EXTENDS DatabaseMaintenance, SequenceTheorems, FiniteFacts

\* The steps of backupNow, and that they are one actor's at a time.
Making == {"path", "create", "glob", "sort", "remove", "record"}
OneAtATime == \A a, b \in Actors : step[a] \in Making /\ step[b] \in Making => a = b

\* The directory has every name once.
DirectoryInv ==
    /\ files \in Seq(ToSet(files))
    /\ \A i, j \in 1..Len(files) : files[i] = files[j] => i = j

\* How far the clean-up of a has come.
Trimming(a) ==
    /\ step[a] \in {"glob", "sort", "remove"} => KeepLatest > 0
    /\ step[a] = "sort" => matches[a] = files /\ Len(files) > KeepLatest
    /\ step[a] = "remove" =>
         LET m == Len(matches[a]) IN
         /\ matches[a] \in Seq(ToSet(matches[a])) /\ Len(files) = KeepLatest + m
         /\ \A i \in 1..m : matches[a][i] = files[m + 1 - i]
    /\ step[a] = "record" => KeepLatest = 0 \/ Len(files) <= KeepLatest

TrimInv ==
    /\ DirectoryInv
    /\ DOMAIN step = Actors /\ DOMAIN matches = Actors
    /\ \A a \in Actors : Trimming(a)

-----------------------------------------------------------------------------
(* Lists                                                                   *)

\* A list is a list of its elements.
LEMMA ListOfElements ==
    ASSUME NEW S, NEW s \in Seq(S)
    PROVE  s \in Seq(ToSet(s))
BY SeqOfRange DEF Range, ToSet

\* Taking an element out of a list that has everything once (os.Remove).
LEMMA RemoveElement ==
    ASSUME NEW s, s \in Seq(ToSet(s)), \A i, j \in 1..Len(s) : s[i] = s[j] => i = j,
           NEW k \in 1..Len(s)
    PROVE  LET r == RemoveFirst(s, s[k]) IN
           /\ r \in Seq(ToSet(r)) /\ Len(r) = Len(s) - 1
           /\ \A i \in 1..(Len(s) - 1) : r[i] = IF i < k THEN s[i] ELSE s[i + 1]
<1> DEFINE T == ToSet(s)
           front == SubSeq(s, 1, k - 1)
           back == SubSeq(s, k + 1, Len(s))
           r == front \o back
<1> HIDE DEF T
<1>1. s \in Seq(T) /\ Len(s) \in Nat
  BY LenProperties DEF T
<1>2. RemoveFirst(s, s[k]) = r
  <2>1. {i \in 1..Len(s) : s[i] = s[k]} = {k}
    OBVIOUS
  <2>2. Min({k}) = k
    BY DEF Min
  <2> QED
    BY <2>1, <2>2 DEF RemoveFirst, RemoveAt, SelectInSeq
<1>3. front \in Seq(T) /\ Len(front) = k - 1 /\ \A i \in 1..(k - 1) : front[i] = s[i]
  BY <1>1
<1>4. back \in Seq(T) /\ Len(back) = Len(s) - k /\ \A i \in 1..(Len(s) - k) : back[i] = s[k + i]
  BY <1>1
<1> HIDE DEF front, back
<1>5. r \in Seq(T) /\ Len(r) = Len(s) - 1
  BY <1>3, <1>4, ConcatProperties
<1>6. ASSUME NEW i \in 1..(Len(s) - 1) PROVE r[i] = IF i < k THEN s[i] ELSE s[i + 1]
  <2>1. CASE i < k
    BY <1>3, <1>4, <2>1
  <2>2. CASE i >= k
    <3>1. i - (k - 1) \in 1..(Len(s) - k) /\ i = (k - 1) + (i - (k - 1))
      BY <2>2, <1>1
    <3>2. r[i] = back[i - (k - 1)]
      BY <1>3, <1>4, <3>1
    <3>3. back[i - (k - 1)] = s[k + (i - (k - 1))] /\ k + (i - (k - 1)) = i + 1
      BY <1>4, <3>1
    <3> QED
      BY <2>2, <3>2, <3>3
  <2> HIDE DEF r
  <2> QED
    BY <1>1, <2>1, <2>2
<1>7. r \in Seq(ToSet(r))
  <2> HIDE DEF r
  <2> QED
    BY <1>5, ListOfElements
<1> QED
  BY <1>2, <1>5, <1>6, <1>7

\* A list none of whose files is gone is sorted newest first (sort.Slice in
\* cleanupOldBackups).
LEMMA SortedNewestFirst ==
    ASSUME DirectoryInv, NEW k \in 1..Len(files)
    PROVE  SortMatches(files)[k] = files[Len(files) + 1 - k]
<1> DEFINE n == Len(files)
           P(i) == {j \in 1..n : Before(files, j, i)}
<1>1. n \in Nat /\ DOMAIN files = 1..n
  BY LenProperties DEF DirectoryInv
<1> HIDE DEF n
<1>2. ASSUME NEW i \in 1..n PROVE P(i) = (i + 1)..n
  <2> DEFINE gone == {g \in DOMAIN files : files[g] \notin ToSet(files)}
             blocks(x) == Cardinality({g \in gone : NotAfter(files[g], files[x])})
  <2>1. gone = {}
    BY DEF ToSet
  <2>2. ASSUME NEW x PROVE blocks(x) = 0
    <3>1. {g \in gone : NotAfter(files[g], files[x])} = {}
      BY <2>1
    <3> QED
      BY <3>1, FS_EmptySet
  <2>3. ASSUME NEW j \in 1..n
        PROVE  Before(files, j, i) <=>
                 \/ blocks(j) < blocks(i)
                 \/ blocks(j) = blocks(i) /\ i \notin gone /\ (j \in gone \/ j > i)
    BY DEF Before
  <2> HIDE DEF gone, blocks
  <2>4. ASSUME NEW j \in 1..n PROVE Before(files, j, i) <=> j > i
    <3>1. blocks(i) = 0 /\ blocks(j) = 0
      BY <2>2
    <3> QED
      BY <2>1, <2>3, <3>1
  <2> QED
    BY <1>1, <2>4
<1> HIDE DEF P
<1>3. ASSUME NEW i \in 1..n PROVE Cardinality(P(i)) = n - i
  <2> DEFINE m == i + 1
  <2>1. m \in Int /\ n \in Int /\ m = i + 1
    BY <1>1
  <2>2. P(i) = m..n
    BY <1>2
  <2> HIDE DEF m
  <2>3. Cardinality(m..n) = IF m > n THEN 0 ELSE n - m + 1
    BY <2>1, FS_Interval
  <2>4. Cardinality(P(i)) = IF m > n THEN 0 ELSE n - m + 1
    BY <2>2, <2>3
  <2> QED
    BY <2>1, <2>4
<1> DEFINE c == CHOOSE i \in 1..n : Cardinality(P(i)) = k - 1
<1>4. SortMatches(files)[k] = files[c]
  BY <1>1 DEF SortMatches, P, n
<1>5. c = n + 1 - k
  <2>1. n + 1 - k \in 1..n /\ Cardinality(P(n + 1 - k)) = k - 1
    BY <1>1, <1>3
  <2>2. c \in 1..n /\ Cardinality(P(c)) = k - 1
    BY <2>1
  <2> QED
    BY <1>1, <1>3, <2>2
<1> QED
  BY <1>4, <1>5 DEF n

-----------------------------------------------------------------------------
(* One clean-up                                                            *)

Cleaning == {"glob", "sort", "remove", "record"}

\* A step of backupNow of one actor leaves the others where they do nothing to
\* the directory.
LEMMA OthersTrimNothing ==
    ASSUME TrimInv, OneAtATime, NEW a \in Actors, step[a] \in Making,
           NEW b \in Actors \ {a}, step'[b] = step[b]
    PROVE  Trimming(b)'
<1>1. step'[b] \notin Making
  BY DEF OneAtATime
<1> QED
  BY <1>1 DEF Trimming, Making

\* A step that brings an actor to where it cleans nothing up and leaves the
\* directory and the lists alone.
LEMMA ElsewhereTrims ==
    ASSUME TrimInv, NEW a \in Actors, NEW s, s \notin Cleaning, Goto(a, s),
           UNCHANGED <<files, matches>>
    PROVE  TrimInv'
<1>1. ASSUME NEW b \in Actors PROVE Trimming(b)'
  <2>1. Trimming(b)
    BY DEF TrimInv
  <2>2. CASE b = a
    BY <2>2 DEF TrimInv, Trimming, Goto, Cleaning
  <2>3. CASE b # a
    <3>1. step'[b] = step[b]
      BY <2>3 DEF TrimInv, Goto
    <3> QED
      BY <2>1, <3>1 DEF Trimming
  <2> QED
    BY <2>2, <2>3
<1> QED
  BY <1>1 DEF TrimInv, DirectoryInv, Goto

\* So does the end of a backup (Record, BackupInto on a file that exists, and
\* Fail as a rule).
LEMMA EndTrims ==
    ASSUME TrimInv, NEW a \in Actors, End(a), files' = files
    PROVE  TrimInv'
<1>1. ASSUME NEW b \in Actors PROVE Trimming(b)'
  <2>1. Trimming(b)
    BY DEF TrimInv
  <2>2. CASE b = a
    BY <2>2 DEF TrimInv, Trimming, End, Goto
  <2>3. CASE b # a
    <3>1. step'[b] = step[b] /\ matches'[b] = matches[b]
      BY <2>3 DEF TrimInv, End, Goto
    <3> QED
      BY <2>1, <3>1 DEF Trimming
  <2> QED
    BY <2>2, <2>3
<1> QED
  BY <1>1 DEF TrimInv, DirectoryInv, End, Goto

\* A new file has a name that was not in the directory.
LEMMA NewFile ==
    ASSUME DirectoryInv, NEW p, p \notin ToSet(files), files' = Append(files, p)
    PROVE  DirectoryInv'
<1> DEFINE T == ToSet(files) \cup {p}
<1>1. files \in Seq(ToSet(files)) /\ Len(files) \in Nat
  BY LenProperties DEF DirectoryInv
<1>2. files \in Seq(T) /\ p \in T
  BY <1>1, SeqMonotonic
<1> HIDE DEF T
<1>3. /\ files' \in Seq(T) /\ Len(files') = Len(files) + 1
      /\ files'[Len(files) + 1] = p
      /\ \A i \in 1..Len(files) : files'[i] = files[i]
  BY <1>2, AppendProperties
<1>4. files' \in Seq(ToSet(files'))
  BY <1>3, ListOfElements
<1>5. \A i \in 1..Len(files) : files[i] # p
  BY <1>1, LenProperties DEF ToSet
<1>6. ASSUME NEW i \in 1..Len(files'), NEW j \in 1..Len(files'), files'[i] = files'[j]
      PROVE  i = j
  <2>1. i \in 1..Len(files) \/ i = Len(files) + 1
    BY <1>1, <1>3
  <2>2. j \in 1..Len(files) \/ j = Len(files) + 1
    BY <1>1, <1>3
  <2> QED
    BY <1>3, <1>5, <1>6, <2>1, <2>2 DEF DirectoryInv
<1>7. ToSet(files)' = ToSet(files')
  BY DEF ToSet
<1> QED
  BY <1>4, <1>6, <1>7 DEF DirectoryInv

LEMMA BackupIntoTrims ==
    ASSUME TrimInv, OneAtATime, NEW a \in Actors, BackupInto(a)
    PROVE  TrimInv'
<1>1. CASE path[a] \in ToSet(files)
  BY <1>1, EndTrims DEF BackupInto
<1>2. CASE path[a] \notin ToSet(files)
  <2>1. files' = Append(files, path[a]) /\ Goto(a, IF KeepLatest = 0 THEN "record" ELSE "glob")
        /\ matches' = matches /\ step[a] = "create"
    BY <1>2 DEF BackupInto
  <2>2. DirectoryInv'
    BY <1>2, <2>1, NewFile DEF TrimInv
  <2>3. Trimming(a)'
    BY <2>1, MaintenanceAssumption DEF TrimInv, Trimming, Goto
  <2>4. ASSUME NEW b \in Actors \ {a} PROVE Trimming(b)'
    BY <2>1, OthersTrimNothing DEF TrimInv, Goto, Making
  <2> QED
    BY <2>1, <2>2, <2>3, <2>4 DEF TrimInv, Goto
<1> QED
  BY <1>1, <1>2

\* A backup that fails ends, and VACUUM INTO may have made its file.
LEMMA FailTrims ==
    ASSUME TrimInv, OneAtATime, NEW a \in Actors, Fail(a)
    PROVE  TrimInv'
<1>1. CASE files' = files
  BY <1>1, EndTrims DEF Fail
<1>2. CASE LeavesPart(a)
  <2>1. files' = Append(files, path[a]) /\ path[a] \notin ToSet(files) /\ step[a] = "create"
        /\ End(a)
    BY <1>2 DEF LeavesPart, Fail
  <2>2. DirectoryInv'
    BY <2>1, NewFile DEF TrimInv
  <2>3. Trimming(a)'
    BY <2>1 DEF TrimInv, Trimming, End, Goto
  <2>4. ASSUME NEW b \in Actors \ {a} PROVE Trimming(b)'
    BY <2>1, OthersTrimNothing DEF TrimInv, End, Goto, Making
  <2> QED
    BY <2>1, <2>2, <2>3, <2>4 DEF TrimInv, End, Goto
<1> QED
  BY <1>1, <1>2 DEF Fail

\* The list is made,
LEMMA GlobTrims ==
    ASSUME TrimInv, OneAtATime, NEW a \in Actors, Glob(a)
    PROVE  TrimInv'
<1>1. Len(files) \in Nat /\ KeepLatest \in Nat
  BY LenProperties, MaintenanceAssumption DEF TrimInv, DirectoryInv
<1>2. step[a] = "glob" /\ files' = files
  BY DEF Glob
<1>3. Trimming(a)'
  BY <1>1, <1>2 DEF Glob, TrimInv, Trimming, Goto
<1>4. ASSUME NEW b \in Actors \ {a} PROVE Trimming(b)'
  BY <1>2, OthersTrimNothing DEF Glob, TrimInv, Goto, Making
<1>5. DOMAIN step' = Actors /\ DOMAIN matches' = Actors
  BY DEF Glob, TrimInv, Goto
<1> QED
  BY <1>2, <1>3, <1>4, <1>5 DEF TrimInv, DirectoryInv

\* and sorted while the directory is as it was: what is to be removed are the
\* oldest files, newest first.
LEMMA SortTrims ==
    ASSUME TrimInv, OneAtATime, NEW a \in Actors, Sort(a)
    PROVE  TrimInv'
<1> DEFINE n == Len(files)
           sorted == SortMatches(files)
           m == SubSeq(sorted, KeepLatest + 1, n)
<1>1. DirectoryInv /\ step[a] = "sort" /\ files' = files /\ matches[a] = files
      /\ n > KeepLatest /\ KeepLatest > 0 /\ n \in Nat /\ KeepLatest \in Nat
  BY LenProperties, MaintenanceAssumption DEF TrimInv, DirectoryInv, Trimming, Sort
<1>2. matches' = [matches EXCEPT ![a] = m] /\ step' = [step EXCEPT ![a] = "remove"]
  BY <1>1 DEF Sort, Goto
<1>3. DOMAIN files = 1..n /\ files \in Seq(ToSet(files))
  BY LenProperties DEF TrimInv, DirectoryInv
<1>4. \A k \in 1..n : sorted[k] = files[n + 1 - k]
  BY <1>1, SortedNewestFirst
<1>5. sorted \in [1..n -> ToSet(files)]
  <2>1. DOMAIN sorted = 1..n /\ sorted = [k \in 1..n |-> sorted[k]]
    BY <1>3 DEF SortMatches
  <2>2. \A k \in 1..n : n + 1 - k \in 1..n
    BY <1>1
  <2>3. \A k \in 1..n : sorted[k] \in ToSet(files)
    BY <1>3, <1>4, <2>2 DEF ToSet
  <2> HIDE DEF sorted
  <2> QED
    BY <2>1, <2>3
<1> HIDE DEF sorted, n
<1>6. sorted \in Seq(ToSet(files)) /\ Len(sorted) = n
  BY <1>1, <1>5, IsASeq, LenProperties
<1>7. /\ m \in Seq(ToSet(files)) /\ Len(m) = n - KeepLatest
      /\ \A i \in 1..(n - KeepLatest) : m[i] = sorted[KeepLatest + i]
  BY <1>1, <1>6
<1> HIDE DEF m
<1>8. \A i \in 1..Len(m) : m[i] = files[Len(m) + 1 - i]
  <2> SUFFICES ASSUME NEW i \in 1..Len(m) PROVE m[i] = files[Len(m) + 1 - i]
    OBVIOUS
  <2>1. KeepLatest + i \in 1..n /\ n + 1 - (KeepLatest + i) = Len(m) + 1 - i
    BY <1>1, <1>7
  <2> QED
    BY <1>4, <1>7, <2>1
<1>9. m \in Seq(ToSet(m))
  BY <1>7, ListOfElements
<1>10. Trimming(a)'
  <2>1. matches'[a] = m /\ step'[a] = "remove"
    BY <1>2 DEF TrimInv
  <2>2. Len(files) = KeepLatest + Len(m)
    BY <1>1, <1>7 DEF n
  <2>3. ToSet(matches[a])' = ToSet(m)
    BY <2>1 DEF ToSet
  <2> QED
    BY <1>1, <1>8, <1>9, <2>1, <2>2, <2>3 DEF Trimming
<1>11. ASSUME NEW b \in Actors \ {a} PROVE Trimming(b)'
  BY <1>1, <1>2, OthersTrimNothing DEF TrimInv, Making
<1> QED
  BY <1>1, <1>2, <1>10, <1>11 DEF TrimInv, DirectoryInv

\* Where the next file to be removed is: what comes after it in the list comes
\* before it in the directory.
LEMMA NextToGo ==
    ASSUME TrimInv, NEW a \in Actors, step[a] = "remove", matches[a] # << >>
    PROVE  LET k == Len(matches[a]) IN
           /\ k \in 1..Len(files) /\ Head(matches[a]) = files[k]
           /\ Len(files) = KeepLatest + k /\ KeepLatest > 0 /\ Len(files) \in Nat
           /\ \A i \in 1..k : matches[a][i] = files[k + 1 - i]
           /\ matches[a] \in Seq(ToSet(matches[a]))
<1> DEFINE k == Len(matches[a])
           l == matches[a]
<1>1. /\ l \in Seq(ToSet(l)) /\ Len(files) = KeepLatest + k /\ KeepLatest > 0
      /\ \A i \in 1..k : l[i] = files[k + 1 - i]
  BY DEF TrimInv, Trimming
<1>2. KeepLatest \in Nat
  BY MaintenanceAssumption
<1> HIDE DEF l
<1>3. Len(l) \in Nat /\ Len(l) # 0 /\ Head(l) = l[1]
  <2>1. l # << >>
    BY DEF l
  <2> QED
    BY <1>1, <2>1, EmptySeq, LenProperties
<1>4. k \in 1..Len(files) /\ k + 1 - 1 = k /\ 1 \in 1..k
  BY <1>1, <1>2, <1>3 DEF l
<1> QED
  BY <1>1, <1>2, <1>3, <1>4 DEF l

\* What is left of the list are the oldest files that are left.
LEMMA RemoveTrims ==
    ASSUME TrimInv, OneAtATime, NEW a \in Actors, RemoveNext(a)
    PROVE  TrimInv'
<1>1. step[a] = "remove" /\ Trimming(a) /\ DirectoryInv
  BY DEF RemoveNext, TrimInv
<1>2. CASE matches[a] = << >>
  <2>1. files' = files /\ matches' = matches /\ step' = [step EXCEPT ![a] = "record"]
    BY <1>2 DEF RemoveNext, Goto
  <2>2. Len(files) = KeepLatest
    BY <1>1, <1>2, MaintenanceAssumption DEF Trimming
  <2>3. Trimming(a)'
    BY <2>1, <2>2, MaintenanceAssumption DEF TrimInv, Trimming
  <2>4. ASSUME NEW b \in Actors \ {a} PROVE Trimming(b)'
    BY <1>1, <2>1, OthersTrimNothing DEF TrimInv, Making
  <2> QED
    BY <2>1, <2>3, <2>4 DEF TrimInv, DirectoryInv
<1>3. CASE matches[a] # << >>
  <2> DEFINE n == Len(files)
             l == matches[a]
             k == Len(l)
             left == RemoveFirst(files, files[k])
  <2>1. /\ k \in 1..n /\ Head(l) = files[k] /\ n = KeepLatest + k /\ KeepLatest > 0
        /\ n \in Nat /\ \A i \in 1..k : l[i] = files[k + 1 - i]
        /\ l \in Seq(ToSet(l))
    BY <1>1, <1>3, NextToGo
  <2>2. files' = left /\ step' = step /\ matches' = [matches EXCEPT ![a] = Tail(l)]
    BY <1>3, <2>1 DEF RemoveNext
  <2>3. /\ left \in Seq(ToSet(left)) /\ Len(left) = n - 1
        /\ \A i \in 1..(n - 1) : left[i] = IF i < k THEN files[i] ELSE files[i + 1]
    BY <1>1, <2>1, RemoveElement DEF DirectoryInv
  <2>4. \A i, j \in 1..n : files[i] = files[j] => i = j
    BY <1>1 DEF DirectoryInv
  <2> HIDE DEF left
  <2>5. DirectoryInv'
    <3>1. ASSUME NEW i \in 1..(n - 1), NEW j \in 1..(n - 1), left[i] = left[j] PROVE i = j
      <4> DEFINE at(x) == IF x < k THEN x ELSE x + 1
      <4>1. ASSUME NEW x \in 1..(n - 1) PROVE at(x) \in 1..n /\ left[x] = files[at(x)]
        <5>1. k \in Int /\ n \in Int /\ x \in Int
          BY <2>1
        <5> HIDE DEF k, n
        <5>2. CASE x < k
          BY <2>3, <5>1, <5>2
        <5>3. CASE x >= k
          BY <2>3, <5>1, <5>3
        <5> QED
          BY <5>1, <5>2, <5>3
      <4>2. at(i) = at(j)
        BY <2>4, <3>1, <4>1
      <4>3. i \in Int /\ j \in Int /\ k \in Int
        BY <2>1
      <4> QED
        BY <4>2, <4>3
    <3>2. ToSet(files)' = ToSet(left)
      BY <2>2 DEF ToSet
    <3> QED
      BY <2>2, <2>3, <3>1, <3>2 DEF DirectoryInv
  <2>6. Trimming(a)'
    <3> DEFINE rest == Tail(l)
    <3>1. l # << >>
      BY <1>3
    <3> HIDE DEF l, n
    <3>2. rest \in Seq(ToSet(l)) /\ Len(rest) = k - 1 /\ \A i \in 1..(k - 1) : rest[i] = l[i + 1]
      BY <2>1, <3>1
    <3> HIDE DEF rest
    <3>3. rest \in Seq(ToSet(rest))
      BY <3>2, ListOfElements
    <3>4. \A i \in 1..(k - 1) : rest[i] = left[(k - 1) + 1 - i]
      <4> SUFFICES ASSUME NEW i \in 1..(k - 1) PROVE rest[i] = left[(k - 1) + 1 - i]
        OBVIOUS
      <4>1. rest[i] = l[i + 1] /\ i + 1 \in 1..k
        BY <2>1, <3>2
      <4>2. l[i + 1] = files[k + 1 - (i + 1)]
        BY <2>1, <4>1
      <4>3. (k - 1) + 1 - i \in 1..(n - 1) /\ (k - 1) + 1 - i < k /\ k + 1 - (i + 1) = (k - 1) + 1 - i
        BY <2>1, MaintenanceAssumption
      <4> QED
        BY <2>3, <4>1, <4>2, <4>3
    <3>5. matches'[a] = rest /\ step'[a] = "remove" /\ Len(files') = KeepLatest + Len(rest)
      BY <1>1, <2>1, <2>2, <2>3, <3>2, MaintenanceAssumption DEF TrimInv, rest
    <3>6. ToSet(matches[a])' = ToSet(rest)
      BY <3>5 DEF ToSet
    <3>7. \A i \in 1..Len(rest) : rest[i] = files'[Len(rest) + 1 - i]
      BY <2>2, <3>2, <3>4
    <3> QED
      BY <2>1, <3>3, <3>5, <3>6, <3>7 DEF Trimming
  <2>7. ASSUME NEW b \in Actors \ {a} PROVE Trimming(b)'
    BY <1>1, <2>2, OthersTrimNothing DEF TrimInv, Making
  <2> QED
    BY <2>2, <2>5, <2>6, <2>7 DEF TrimInv
<1> QED
  BY <1>2, <1>3

-----------------------------------------------------------------------------
(* What trimming leaves                                                    *)

LEMMA InitTrims == Init => TrimInv
<1> SUFFICES ASSUME Init PROVE TrimInv
  OBVIOUS
<1>1. files = << >> /\ DOMAIN step = Actors /\ DOMAIN matches = Actors
      /\ \A a \in Actors : step[a] \in {"checkpoint", "idle"}
  BY DEF Init
<1>2. DirectoryInv
  <2>1. files \in Seq(ToSet(files)) /\ Len(files) = 0
    BY <1>1, EmptySeq
  <2> QED
    BY <2>1 DEF DirectoryInv
<1> QED
  BY <1>1, <1>2 DEF TrimInv, Trimming

LEMMA NextTrims == TrimInv /\ OneAtATime /\ [Next]_vars => TrimInv'
<1> SUFFICES ASSUME TrimInv, OneAtATime, [Next]_vars PROVE TrimInv'
  OBVIOUS
<1>1. Runner \in Actors /\ Callers \subseteq Actors
  BY DEF Actors
<1>2. ASSUME NEW a \in Actors, Checkpoint(a) PROVE TrimInv'
  <2>1. Goto(a, IF a = Runner THEN "due" ELSE "path") /\ UNCHANGED <<files, matches>>
    BY <1>2 DEF Checkpoint
  <2> QED
    BY <2>1, ElsewhereTrims DEF Cleaning
<1>3. ASSUME NEW a \in Actors, NextBackupPath(a) PROVE TrimInv'
  BY <1>3, ElsewhereTrims DEF NextBackupPath, Cleaning
<1>4. ASSUME NEW a \in Actors, Record(a) PROVE TrimInv'
  BY <1>4, EndTrims DEF Record
<1>5. ASSUME NEW c \in Callers, BackupNow(c) PROVE TrimInv'
  BY <1>1, <1>5, ElsewhereTrims DEF BackupNow, Cleaning
<1>6. CASE BackupDue
  <2>1. Goto(Runner, IF DueNow(BackupInterval, backupAge) THEN "path" ELSE "return")
        /\ UNCHANGED <<files, matches>>
    BY <1>6 DEF BackupDue
  <2> QED
    BY <1>1, <2>1, ElsewhereTrims DEF Cleaning
<1>7. CASE Return
  BY <1>1, <1>7, ElsewhereTrims DEF Return, Cleaning
<1>8. ASSUME UNCHANGED <<step, files, matches>> PROVE TrimInv'
  <2>1. ASSUME NEW a \in Actors PROVE Trimming(a)'
    BY <1>8 DEF TrimInv, Trimming
  <2> QED
    BY <1>8, <2>1 DEF TrimInv, DirectoryInv
<1>9. CASE Starts(TimerFires) \/ Starts(Close) \/ Starts(Stop)
  <2>1. UNCHANGED <<files, matches>> /\ (Goto(Runner, "checkpoint") \/ UNCHANGED step)
    BY <1>9 DEF Starts
  <2> QED
    BY <1>1, <1>8, <2>1, ElsewhereTrims DEF Cleaning
<1>10. CASE TimePasses
  BY <1>8, <1>10 DEF TimePasses
<1>11. CASE UNCHANGED vars
  BY <1>8, <1>11 DEF vars, maintVars
<1> QED
  BY <1>2, <1>3, <1>4, <1>5, <1>6, <1>7, <1>9, <1>10, <1>11,
     BackupIntoTrims, FailTrims, GlobTrims, SortTrims, RemoveTrims
  DEF Next, ActorStep

\* The invariant of trimming, for backups that are made one at a time.
THEOREM TrimInvariant == Spec /\ []OneAtATime => []TrimInv
BY InitTrims, NextTrims, PTL DEF Spec

\* A successful backup leaves at most backup_keep_latest files.
THEOREM LimitIsKept == Spec /\ []OneAtATime => []LimitAfterBackup
<1>1. TrimInv => LimitAfterBackup
  <2> SUFFICES ASSUME TrimInv, NEW a \in Actors, KeepLatest > 0, step[a] = "record"
               PROVE  Len(files) <= KeepLatest
    BY DEF LimitAfterBackup
  <2> QED
    BY MaintenanceAssumption DEF TrimInv, Trimming
<1> QED
  BY <1>1, TrimInvariant, PTL

-----------------------------------------------------------------------------
(* Maintenance is a runner                                                 *)

\* Time keeps what has happened apart from what has not.
LEMMA OlderType ==
    ASSUME NEW age \in Nat \cup {Never}
    PROVE  Older(age) \in Nat \cup {Never} /\ (Older(age) = Never <=> age = Never)
BY MaintenanceAssumption, RunnerAssumption DEF Older, Sooner, MaxAge

\* The runner's goroutine is in run while the runner runs, and the time run
\* has found so far lies at most MaxDelay from the present.
DueInv ==
    /\ step \in [Actors -> Steps] /\ pathAge \in [Actors -> Nat] /\ since \in Nat
    /\ checkpointAge \in Nat \cup {Never} /\ backupAge \in Nat \cup {Never}
    /\ phase = "running" <=> step[Runner] # "idle"
    /\ phase # "running" => nextDue = None
    /\ nextDue # None => nextDue \in Int /\ nextDue - since <= MaxDelay

\* nextCheckpointDue and nextBackupDue ask for nothing later.
LEMMA NextAfterBound ==
    ASSUME since \in Nat, NEW interval \in 0..MaxDelay, NEW age \in Nat \cup {Never}
    PROVE  LET d == NextAfter(interval, age) IN
           d # None => d \in Int /\ d - since <= MaxDelay
<1> USE RunnerAssumption, MaintenanceAssumption
<1>1. CASE interval = 0 \/ age = Never
  BY <1>1 DEF NextAfter, DueNow, DueAfter
<1>2. CASE interval # 0 /\ age # Never
  <2>1. age \in Nat /\ DueAfter(interval, age) = interval - (age - since)
    BY <1>2 DEF DueAfter
  <2>2. NextAfter(interval, age) \in {interval, interval - (age - since)}
    BY <2>1 DEF NextAfter
  <2> QED
    BY <2>1, <2>2
<1> QED
  BY <1>1, <1>2

\* A step that leaves the runner alone and moves its goroutine, if at all,
\* from one step of run to another.
LEMMA InsideRun ==
    ASSUME DueInv, NEW a \in Actors, step[a] # "idle", NEW s \in Steps,
           a = Runner => s # "idle", Goto(a, s),
           UNCHANGED <<phase, since>>, pathAge' \in [Actors -> Nat],
           checkpointAge' \in Nat \cup {Never}, backupAge' \in Nat \cup {Never},
           \/ nextDue' = nextDue
           \/ a = Runner /\ (nextDue' # None => nextDue' \in Int /\ nextDue' - since <= MaxDelay)
    PROVE  DueInv'
<1>1. step' \in [Actors -> Steps] /\ (step'[Runner] # "idle" <=> step[Runner] # "idle")
  BY DEF DueInv, Goto, Actors
<1>2. a = Runner => phase = "running"
  BY DEF DueInv
<1> QED
  BY <1>1, <1>2 DEF DueInv

LEMMA NextDueInv == DueInv /\ [Next]_vars => DueInv'
<1> SUFFICES ASSUME DueInv, [Next]_vars PROVE DueInv'
  OBVIOUS
<1>1. Runner \in Actors /\ Callers \subseteq Actors /\ Runner \notin Callers /\ Never \notin Nat
      /\ CheckpointInterval \in 0..MaxDelay /\ BackupInterval \in 0..MaxDelay
  BY MaintenanceAssumption, RunnerAssumption DEF Actors
<1>2. ASSUME NEW a \in Actors, Checkpoint(a) PROVE DueInv'
  <2> DEFINE d == NextAfter(CheckpointInterval, checkpointAge)
             s == IF a = Runner THEN "due" ELSE "path"
  <2>1. Goto(a, s) /\ step[a] = "checkpoint" /\ UNCHANGED <<phase, since, backupAge, pathAge>>
        /\ (checkpointAge' = 0 \/ checkpointAge' = checkpointAge)
        /\ nextDue' = IF a = Runner THEN Earliest(nextDue, d) ELSE nextDue
    BY <1>2 DEF Checkpoint, runnerVars
  <2>2. d # None => d \in Int /\ d - since <= MaxDelay
    BY <1>1, NextAfterBound DEF DueInv
  <2> HIDE DEF d
  <2>3. Earliest(nextDue, d) \in {nextDue, d}
    BY DEF Earliest
  <2>4. a = Runner => (nextDue' # None => nextDue' \in Int /\ nextDue' - since <= MaxDelay)
    BY <2>1, <2>2, <2>3 DEF DueInv
  <2>5. s \in Steps /\ (a = Runner => s # "idle") /\ step[a] # "idle"
    BY <2>1 DEF Steps
  <2>6. pathAge' \in [Actors -> Nat] /\ checkpointAge' \in Nat \cup {Never}
        /\ backupAge' \in Nat \cup {Never}
    BY <2>1 DEF DueInv
  <2> HIDE DEF s
  <2> QED
    BY <2>1, <2>4, <2>5, <2>6, InsideRun
<1>3. CASE BackupDue
  <2> DEFINE d == NextAfter(BackupInterval, backupAge)
             s == IF DueNow(BackupInterval, backupAge) THEN "path" ELSE "return"
  <2>1. Goto(Runner, s) /\ step[Runner] = "due" /\ nextDue' = Earliest(nextDue, d)
        /\ UNCHANGED <<phase, since, checkpointAge, backupAge, pathAge>>
    BY <1>3 DEF BackupDue, runnerVars
  <2>2. d # None => d \in Int /\ d - since <= MaxDelay
    BY <1>1, NextAfterBound DEF DueInv
  <2> HIDE DEF d
  <2>3. Earliest(nextDue, d) \in {nextDue, d}
    BY DEF Earliest
  <2>4. nextDue' # None => nextDue' \in Int /\ nextDue' - since <= MaxDelay
    BY <2>1, <2>2, <2>3 DEF DueInv
  <2>5. s \in Steps /\ s # "idle" /\ step[Runner] # "idle"
    BY <2>1 DEF Steps
  <2>6. pathAge' \in [Actors -> Nat] /\ checkpointAge' \in Nat \cup {Never}
        /\ backupAge' \in Nat \cup {Never}
    BY <2>1 DEF DueInv
  <2> HIDE DEF s
  <2> QED
    BY <1>1, <2>1, <2>4, <2>5, <2>6, InsideRun
<1>4. ASSUME NEW a \in Actors,
             NextBackupPath(a) \/ BackupInto(a) \/ Glob(a) \/ Sort(a) \/ Record(a) \/ Fail(a)
      PROVE  DueInv'
  <2>1. UNCHANGED <<phase, since, checkpointAge, nextDue>> /\ step[a] # "idle"
    BY <1>4 DEF NextBackupPath, BackupInto, Glob, Sort, Record, Fail, runnerVars
  <2>2. pathAge' \in [Actors -> Nat]
    BY <1>4 DEF NextBackupPath, BackupInto, Glob, Sort, Record, Fail, End, DueInv
  <2>3. backupAge' \in Nat \cup {Never}
    BY <1>4 DEF NextBackupPath, BackupInto, Glob, Sort, Record, Fail, DueInv
  <2>4. \E s \in Steps : Goto(a, s) /\ (a = Runner => s # "idle")
    BY <1>4 DEF NextBackupPath, BackupInto, Glob, Sort, Record, Fail, End, Steps
  <2>5. checkpointAge' \in Nat \cup {Never}
    BY <2>1 DEF DueInv
  <2> QED
    BY <2>1, <2>2, <2>3, <2>4, <2>5, InsideRun
<1>5. ASSUME UNCHANGED <<step, pathAge, since, checkpointAge, backupAge, phase, nextDue>>
      PROVE  DueInv'
  BY <1>5 DEF DueInv
<1>6. ASSUME NEW a \in Actors, RemoveNext(a) PROVE DueInv'
  <2>1. CASE matches[a] = << >>
    <3>1. Goto(a, "record") /\ step[a] # "idle" /\ "record" \in Steps /\ "record" # "idle"
          /\ UNCHANGED <<phase, since, checkpointAge, backupAge, pathAge, nextDue>>
      BY <1>6, <2>1 DEF RemoveNext, runnerVars, Steps
    <3>2. pathAge' \in [Actors -> Nat] /\ checkpointAge' \in Nat \cup {Never}
          /\ backupAge' \in Nat \cup {Never}
      BY <3>1 DEF DueInv
    <3> QED
      BY <3>1, <3>2, InsideRun
  <2>2. CASE matches[a] # << >>
    BY <1>5, <1>6, <2>2 DEF RemoveNext, runnerVars
  <2> QED
    BY <2>1, <2>2
<1>7. ASSUME NEW c \in Callers, BackupNow(c) PROVE DueInv'
  <2>1. step' \in [Actors -> Steps] /\ step'[Runner] = step[Runner]
        /\ UNCHANGED <<pathAge, since, checkpointAge, backupAge, phase, nextDue>>
    BY <1>1, <1>7 DEF BackupNow, Goto, DueInv, Steps, runnerVars
  <2> QED
    BY <2>1 DEF DueInv
<1>8. CASE Return
  <2>1. phase' = "select" /\ nextDue' = None /\ Goto(Runner, "idle")
        /\ UNCHANGED <<since, checkpointAge, backupAge, pathAge>>
    BY <1>8 DEF Return, Finish
  <2>2. step' \in [Actors -> Steps] /\ step'[Runner] = "idle"
    BY <1>1, <2>1 DEF Goto, DueInv, Steps
  <2> QED
    BY <2>1, <2>2 DEF DueInv
<1>9. CASE Starts(TimerFires)
  <2>1. phase' = "running" /\ nextDue' = None /\ Goto(Runner, "checkpoint")
        /\ UNCHANGED <<checkpointAge, backupAge, pathAge>> /\ since' \in Nat
    BY <1>9 DEF Starts, TimerFires, RunNow
  <2>2. step' \in [Actors -> Steps] /\ step'[Runner] = "checkpoint"
    BY <1>1, <2>1 DEF Goto, DueInv, Steps
  <2> QED
    BY <2>1, <2>2 DEF DueInv
<1>10. CASE Starts(Close)
  BY <1>5, <1>10 DEF Starts, Close
<1>11. CASE Starts(Stop)
  <2>1. phase = "select" /\ phase' = "stopped"
        /\ UNCHANGED <<step, since, checkpointAge, backupAge, pathAge, nextDue>>
    BY <1>11 DEF Starts, Stop
  <2> QED
    BY <2>1 DEF DueInv
<1>12. CASE TimePasses
  <2>1. UNCHANGED <<step, phase, nextDue>>
        /\ checkpointAge' = Older(checkpointAge) /\ backupAge' = Older(backupAge)
    BY <1>12 DEF TimePasses, Tick
  <2>2. checkpointAge' \in Nat \cup {Never} /\ backupAge' \in Nat \cup {Never}
    BY <2>1, OlderType DEF DueInv
  <2>3. pathAge' \in [Actors -> Nat]
    <3>1. \A a \in Actors : pathAge[a] \in Nat
      BY DEF DueInv
    <3>2. \A a \in Actors : Older(pathAge[a]) \in Nat
      BY <1>1, <3>1, OlderType
    <3> QED
      BY <1>12, <3>1, <3>2 DEF TimePasses
  <2>4. since' \in Nat /\ (phase = "running" => since' = since + 1)
    BY <1>12, RunnerAssumption DEF TimePasses, Tick, Sooner, DueInv
  <2>5. nextDue # None => nextDue \in Int /\ nextDue - since' <= MaxDelay
    BY <2>4, RunnerAssumption DEF DueInv
  <2> QED
    BY <2>1, <2>2, <2>3, <2>4, <2>5 DEF DueInv
<1>13. CASE UNCHANGED vars
  BY <1>5, <1>13 DEF vars, runnerVars, maintVars
<1> QED
  BY <1>2, <1>3, <1>4, <1>6, <1>7, <1>8, <1>9, <1>10, <1>11, <1>12, <1>13 DEF Next, ActorStep

\* Every step of the maintenance is a step of its runner, or none.
LEMMA StepIsRunners ==
    ASSUME DueInv, [Next]_vars
    PROVE  [RunnerNext]_runnerVars
<1>1. CASE Return
  <2> DEFINE d == IF nextDue = None THEN None ELSE nextDue - since
             at == IF d # None /\ d < 0 THEN 0 ELSE d
  <2>1. Finish(d)
    BY <1>1 DEF Return
  <2>2. at \in {None} \cup 0..MaxDelay
    BY RunnerAssumption DEF DueInv
  <2>3. ~(at # None /\ at < 0)
    BY <2>2, RunnerAssumption
  <2>4. Finish(at)
    BY <2>1, <2>3 DEF Finish
  <2> QED
    BY <2>2, <2>4 DEF RunnerNext
<1>2. CASE TimePasses \/ Starts(TimerFires) \/ Starts(Close) \/ Starts(Stop)
  BY <1>2 DEF TimePasses, Starts, RunnerNext
<1>3. CASE UNCHANGED runnerVars
  BY <1>3
<1> QED
  BY <1>1, <1>2, <1>3
  DEF Next, ActorStep, Checkpoint, NextBackupPath, BackupInto, Glob, Sort, RemoveNext, Record, Fail,
      BackupNow, BackupDue, vars

\* The maintenance runs as a runner does: what holds of every runner holds of
\* it, for any number of calls and of backups at a time.
THEOREM MaintenanceIsRunner == Spec => RunnerSpec
<1>1. Init => RunnerInit /\ DueInv
  <2> SUFFICES ASSUME Init PROVE RunnerInit /\ DueInv
    OBVIOUS
  <2>1. Runner \in Actors
    BY DEF Actors
  <2>2. RunnerInit /\ step = [a \in Actors |-> IF a = Runner THEN "checkpoint" ELSE "idle"]
        /\ pathAge = [a \in Actors |-> 0] /\ backupAge = Never /\ checkpointAge = Never /\ nextDue = None
    BY DEF Init
  <2> QED
    BY <2>1, <2>2 DEF RunnerInit, DueInv, Steps
<1>2. DueInv /\ [Next]_vars => DueInv'
  BY NextDueInv
<1>3. DueInv /\ [Next]_vars => [RunnerNext]_runnerVars
  BY StepIsRunners
<1> QED
  BY <1>1, <1>2, <1>3, PTL DEF Spec, RunnerSpec
=============================================================================
