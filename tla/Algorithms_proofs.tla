------------------------- MODULE Algorithms_proofs --------------------------
(***************************************************************************)
(* What the algorithms of MCAlgorithms compute, for all their inputs:      *)
(* edits of files, the bounded log of a build, the target of a build, the  *)
(* paths of requests, join bundles, configurations, and the snapshots of   *)
(* the recorder.                                                           *)
(*                                                                         *)
(* Sequences are compared element by element.  Recursive functions are     *)
(* dealt with by induction over sets of numbers: StepFunction shows that   *)
(* what such a definition describes exists, so that the function CHOOSEn   *)
(* is one that takes the steps of the definition; IndexInduction then goes *)
(* along the sequence.                                                     *)
(***************************************************************************)
EXTENDS MCAlgorithms, FiniteFacts, SequenceTheorems

-----------------------------------------------------------------------------
(* Induction *)

\* A set of indices that is not empty has a first one.
LEMMA FirstIndex ==
    ASSUME NEW n \in Nat, NEW T, T \subseteq 1..n, T # {}
    PROVE  \E j \in T : \A k \in 1..(j - 1) : k \in 1..n /\ k \notin T
<1>1. T \subseteq Nat
  OBVIOUS
<1>2. PICK j \in T : \A k \in T : j <= k
  BY <1>1, LeastNat
<1> QED
  BY <1>2

\* Induction over the natural numbers, for a set of numbers.
LEMMA SetInduction ==
    ASSUME NEW T, 0 \in T, \A n \in Nat : n \in T => n + 1 \in T
    PROVE  \A n \in Nat : n \in T
<1> SUFFICES ASSUME Nat \ T # {} PROVE FALSE
  OBVIOUS
<1>1. PICK x \in Nat \ T : \A y \in Nat \ T : x <= y
  BY LeastNat
<1>2. x # 0 /\ x - 1 \in Nat
  BY <1>1
<1>3. x - 1 \notin T
  BY <1>1, <1>2
<1> QED
  BY <1>1, <1>2, <1>3

\* f is given step by step, by what step makes of a value and an index.
IsSteps(S, n, c, step, f) == f \in [0..n -> S] /\ f[0] = c /\ \A i \in 1..n : f[i] = step[<<f[i - 1], i>>]

\* A function that is given step by step exists.
LEMMA StepFunction ==
    ASSUME NEW S, NEW n \in Nat, NEW c \in S, NEW step \in [S \X (1..n) -> S]
    PROVE  \E f : IsSteps(S, n, c, step, f)
<1> DEFINE Is(f, m) == f \in [0..m -> S] /\ f[0] = c /\ \A i \in 1..m : f[i] = step[<<f[i - 1], i>>]
           T == {m \in Nat : m <= n => \E f : Is(f, m)}
<1>1. 0 \in T
  <2>1. Is([i \in 0..0 |-> c], 0)
    OBVIOUS
  <2> QED
    BY <2>1
<1>2. ASSUME NEW m \in Nat, m \in T PROVE m + 1 \in T
  <2> SUFFICES ASSUME m + 1 <= n PROVE \E f : Is(f, m + 1)
    OBVIOUS
  <2>1. PICK f : Is(f, m)
    BY <1>2
  <2> DEFINE g == [i \in 0..(m + 1) |-> IF i = m + 1 THEN step[<<f[m], m + 1>>] ELSE f[i]]
  <2>2. <<f[m], m + 1>> \in S \X (1..n)
    BY <2>1
  <2>3. step[<<f[m], m + 1>>] \in S
    BY <2>2
  <2>4. g \in [0..(m + 1) -> S] /\ g[0] = c
    BY <2>1, <2>3
  <2>5. ASSUME NEW i \in 1..(m + 1) PROVE g[i] = step[<<g[i - 1], i>>]
    <3>1. CASE i = m + 1
      <4>1. i - 1 = m /\ m \in 0..(m + 1) /\ m # m + 1
        BY <3>1
      <4>2. g[i] = step[<<f[m], m + 1>>] /\ g[i - 1] = f[m]
        BY <3>1, <4>1
      <4> QED
        BY <3>1, <4>2
    <3>2. CASE i # m + 1
      <4>1. i \in 1..m /\ i - 1 \in 0..m
        BY <3>2
      <4>2. g[i] = f[i] /\ g[i - 1] = f[i - 1]
        BY <4>1
      <4> QED
        BY <2>1, <4>1, <4>2
    <3> QED
      BY <3>1, <3>2
  <2>6. Is(g, m + 1)
    BY <2>4, <2>5
  <2> QED
    BY <2>6
<1> HIDE DEF T
<1>3. n \in T
  BY <1>1, <1>2, SetInduction
<1> QED
  BY <1>3 DEF T, IsSteps

\* A function that goes from values in S to values in S stays in S.
LEMMA StepsStay ==
    ASSUME NEW S, NEW n \in Nat, NEW f, f = [i \in 0..n |-> f[i]], f[0] \in S,
           \A i \in 1..n : f[i - 1] \in S => f[i] \in S
    PROVE  f \in [0..n -> S]
<1> DEFINE T == {j \in Nat : j <= n => f[j] \in S}
<1>1. 0 \in T
  OBVIOUS
<1>2. ASSUME NEW i \in Nat, i \in T PROVE i + 1 \in T
  <2> SUFFICES ASSUME i + 1 <= n PROVE f[i + 1] \in S
    OBVIOUS
  <2>1. i + 1 \in 1..n /\ (i + 1) - 1 = i /\ f[i] \in S
    BY <1>2
  <2> QED
    BY <2>1
<1> HIDE DEF T
<1>3. \A i \in Nat : i \in T
  BY <1>1, <1>2, SetInduction
<1>4. \A i \in 0..n : f[i] \in S
  BY <1>3 DEF T
<1> QED
  BY <1>4

\* Induction over the indices of a sequence.
LEMMA IndexInduction ==
    ASSUME NEW n \in Nat, NEW T, 0 \in T, \A i \in 1..n : i - 1 \in T => i \in T
    PROVE  \A i \in 0..n : i \in T
<1> DEFINE U == {j \in Nat : j <= n => j \in T}
<1>1. 0 \in U
  OBVIOUS
<1>2. ASSUME NEW i \in Nat, i \in U PROVE i + 1 \in U
  <2> SUFFICES ASSUME i + 1 <= n PROVE i + 1 \in T
    OBVIOUS
  <2>1. i + 1 \in 1..n /\ (i + 1) - 1 = i /\ i \in T
    BY <1>2
  <2> QED
    BY <2>1
<1> HIDE DEF U
<1>3. \A i \in Nat : i \in U
  BY <1>1, <1>2, SetInduction
<1> QED
  BY <1>3 DEF U

\* A behaviour keeps the input it started with.
LEMMA InputStays == Spec => [](input \in Inputs(subject))
<1>1. Init => input \in Inputs(subject)
  BY DEF Init
<1>2. input \in Inputs(subject) /\ [Next]_vars => (input \in Inputs(subject))'
  <2> SUFFICES ASSUME input \in Inputs(subject), [Next]_vars PROVE (input \in Inputs(subject))'
    OBVIOUS
  <2>1. subject' = subject /\ input' = input
    BY DEF Next, vars, Edit, Record, AppendLog
  <2> QED
    BY <2>1
<1> QED
  BY <1>1, <1>2, PTL DEF Spec

-----------------------------------------------------------------------------
(* Edits of a file *)

\* What a byte of a file can be: a byte of a request, or a zero of a hole.
FileBytes == Bytes \cup {0}

\* A file of n bytes.
Sized(s, n) == s \in Seq(FileBytes) /\ Len(s) = n

\* A function on 1..n into bytes is a file of n bytes.
LEMMA MadeOf ==
    ASSUME NEW n \in Nat, NEW s, DOMAIN s = 1..n, s = [i \in 1..n |-> s[i]], \A i \in 1..n : s[i] \in FileBytes
    PROVE  Sized(s, n)
<1>1. s \in [1..n -> FileBytes]
  OBVIOUS
<1>2. s \in Seq(FileBytes) 
  BY <1>1
<1>3. Len(s) = n
  BY <1>1, <1>2, LenProperties
<1> QED
  BY <1>2, <1>3 DEF Sized

\* What Go's copy makes of the destination, byte by byte.
LEMMA CopyIntoIs ==
    ASSUME NEW n \in Nat, NEW dst, Sized(dst, n), NEW at \in Nat, NEW src \in Seq(FileBytes)
    PROVE  /\ Sized(CopyInto(dst, at, src), n)
           /\ \A i \in 1..n : CopyInto(dst, at, src)[i] =
                 IF i > at /\ i - at <= Len(src) THEN src[i - at] ELSE dst[i]
<1> DEFINE s == CopyInto(dst, at, src)
<1>1. s = [i \in 1..n |-> IF i > at /\ i - at <= Len(src) THEN src[i - at] ELSE dst[i]]
  BY DEF CopyInto, Sized
<1>2. Len(src) \in Nat /\ \A i \in 1..Len(src) : src[i] \in FileBytes
  BY LenProperties
<1>3. \A i \in 1..n : dst[i] \in FileBytes
  BY LenProperties DEF Sized
<1>4. \A i \in 1..n : s[i] = IF i > at /\ i - at <= Len(src) THEN src[i - at] ELSE dst[i]
  BY <1>1
<1> HIDE DEF s
<1>5. ASSUME NEW i \in 1..n PROVE s[i] \in FileBytes
  <2>1. CASE i > at /\ i - at <= Len(src)
    <3>1. i - at \in 1..Len(src)
      BY <1>2, <2>1
    <3> QED
      BY <1>2, <1>4, <2>1, <3>1
  <2>2. CASE ~(i > at /\ i - at <= Len(src))
    BY <1>3, <1>4, <2>2
  <2> QED
    BY <2>1, <2>2
<1>6. DOMAIN s = 1..n /\ s = [i \in 1..n |-> s[i]]
  BY <1>1
<1>7. Sized(s, n)
  BY <1>5, <1>6, MadeOf
<1> QED
  BY <1>4, <1>7 DEF s

\* A fresh buffer holds zeros.
LEMMA ZerosAre ==
    ASSUME NEW n \in Nat
    PROVE  Sized(Zeros(n), n) /\ \A i \in 1..n : Zeros(n)[i] = 0
<1>1. Zeros(n) = [i \in 1..n |-> 0]
  BY DEF Zeros
<1>2. DOMAIN Zeros(n) = 1..n /\ Zeros(n) = [i \in 1..n |-> Zeros(n)[i]] /\ \A i \in 1..n : Zeros(n)[i] = 0
  BY <1>1
<1>3. \A i \in 1..n : Zeros(n)[i] \in FileBytes
  BY <1>2 DEF FileBytes
<1> QED
  BY <1>2, <1>3, MadeOf

\* What Truncate makes of a file, byte by byte.
LEMMA TruncateIs ==
    ASSUME NEW c \in Seq(FileBytes), NEW n \in Nat
    PROVE  /\ Sized(FileTruncate(c, n), n)
           /\ \A i \in 1..n : FileTruncate(c, n)[i] = IF i <= Len(c) THEN c[i] ELSE 0
<1> DEFINE s == FileTruncate(c, n)
<1>1. s = [i \in 1..n |-> IF i <= Len(c) THEN c[i] ELSE 0]
  BY DEF FileTruncate
<1>2. Len(c) \in Nat /\ \A i \in 1..Len(c) : c[i] \in FileBytes
  BY LenProperties
<1>3. DOMAIN s = 1..n /\ s = [i \in 1..n |-> s[i]]
  BY <1>1
<1>4. \A i \in 1..n : s[i] = IF i <= Len(c) THEN c[i] ELSE 0
  BY <1>1
<1> HIDE DEF s
<1>5. \A i \in 1..n : s[i] \in FileBytes
  BY <1>2, <1>4 DEF FileBytes
<1>6. Sized(s, n)
  BY <1>3, <1>5, MadeOf
<1> QED
  BY <1>4, <1>6 DEF s

\* What WriteAt makes of a file, byte by byte.
LEMMA WriteAtIs ==
    ASSUME NEW c \in Seq(FileBytes), NEW off \in Nat, NEW data \in Seq(FileBytes), data # << >>
    PROVE  LET n == LongerLen(Len(c), off + Len(data))
               s == FileWriteAt(c, off, data)
           IN  /\ n \in Nat /\ Sized(s, n)
               /\ \A i \in 1..n : s[i] = IF i > off /\ i <= off + Len(data) THEN data[i - off]
                                         ELSE IF i <= Len(c) THEN c[i] ELSE 0
<1> DEFINE n == LongerLen(Len(c), off + Len(data))
           s == FileWriteAt(c, off, data)
<1>1. s = [i \in 1..n |-> IF i > off /\ i <= off + Len(data) THEN data[i - off]
                          ELSE IF i <= Len(c) THEN c[i] ELSE 0]
  BY DEF FileWriteAt
<1>2. Len(c) \in Nat /\ \A i \in 1..Len(c) : c[i] \in FileBytes
  BY LenProperties
<1>3. Len(data) \in Nat /\ \A i \in 1..Len(data) : data[i] \in FileBytes
  BY LenProperties
<1>4. n \in Nat
  BY <1>2, <1>3 DEF LongerLen
<1>5. DOMAIN s = 1..n /\ s = [i \in 1..n |-> s[i]]
  BY <1>1
<1>6. \A i \in 1..n : s[i] = IF i > off /\ i <= off + Len(data) THEN data[i - off]
                          ELSE IF i <= Len(c) THEN c[i] ELSE 0
  BY <1>1
<1> HIDE DEF s, n
<1>7. ASSUME NEW i \in 1..n PROVE s[i] \in FileBytes
  <2>0. i \in Nat \ {0}
    BY <1>4
  <2>1. CASE i > off /\ i <= off + Len(data)
    <3>1. i - off \in 1..Len(data)
      BY <1>3, <2>0, <2>1
    <3> QED
      BY <1>3, <1>6, <2>1, <3>1
  <2>2. CASE ~(i > off /\ i <= off + Len(data))
    BY <1>2, <1>6, <2>0, <2>2 DEF FileBytes
  <2> QED
    BY <2>1, <2>2
<1>8. Sized(s, n)
  BY <1>4, <1>5, <1>7, MadeOf
<1> QED
  BY <1>4, <1>6, <1>8 DEF s, n

\* What ReadAt returns, byte by byte.
LEMMA ReadAtIs ==
    ASSUME NEW c \in Seq(FileBytes), NEW off \in Nat, NEW length \in Nat
    PROVE  LET rest == Len(c) - off
               n == IF off >= Len(c) THEN 0 ELSE IF length > 0 /\ length < rest THEN length ELSE rest
               s == FileReadAt(c, off, length)
           IN  /\ n \in Nat /\ Sized(s, n)
               /\ \A i \in 1..n : s[i] = c[off + i]
<1> DEFINE rest == Len(c) - off
           n == IF off >= Len(c) THEN 0 ELSE IF length > 0 /\ length < rest THEN length ELSE rest
           s == FileReadAt(c, off, length)
<1>1. Len(c) \in Nat /\ \A i \in 1..Len(c) : c[i] \in FileBytes
  BY LenProperties
<1>2. n \in Nat
  BY <1>1
<1>3. CASE off >= Len(c)
  <2>1. n = 0 /\ s = << >>
    BY <1>3 DEF FileReadAt
  <2> QED
    BY <2>1, EmptySeq DEF Sized
<1>4. CASE off < Len(c)
  <2>1. s = SubSeq(c, off + 1, off + n)
    BY <1>1, <1>4 DEF FileReadAt
  <2>2. n > 0 /\ off + n <= Len(c)
    BY <1>1, <1>4
  <2> HIDE DEF n, s
  <2>3. \A i \in (off + 1)..(off + n) : c[i] \in FileBytes
    BY <1>1, <1>2, <2>2
  <2>4. off + 1 \in Int /\ off + n \in Int /\ off + 1 <= off + n
    BY <1>2, <2>2
  <2>5. s \in Seq(FileBytes) /\ Len(s) = (off + n) - (off + 1) + 1
    BY <2>1, <2>3, <2>4, SubSeqProperties
  <2>6. \A i \in 1..((off + n) - (off + 1) + 1) : s[i] = c[off + 1 + i - 1]
    BY <2>1, <2>3, <2>4, SubSeqProperties
  <2>7. Len(s) = n
    BY <1>2, <2>5
  <2>8. ASSUME NEW i \in 1..n PROVE s[i] = c[off + i]
    <3>1. i \in 1..((off + n) - (off + 1) + 1) /\ off + 1 + i - 1 = off + i
      BY <1>2
    <3> QED
      BY <2>6, <3>1
  <2>9. Sized(s, n)
    BY <2>5, <2>7 DEF Sized
  <2> QED
    BY <1>2, <2>8, <2>9 DEF n, s
<1> QED
  BY <1>1, <1>3, <1>4

\* The data of a request is a sequence of bytes no longer than MaxData.
LEMMA DataIs ==
    ASSUME NEW data \in Data
    PROVE  data \in Seq(FileBytes) /\ Len(data) \in 0..MaxInt
<1>1. PICK n \in 0..MaxData : data \in [1..n -> Bytes]
  BY DEF Data
<1>2. n \in Nat /\ MaxInt \in Nat /\ n <= MaxInt
  BY EditAssumption, MaxIntAssumption
<1>3. DOMAIN data = 1..n /\ data = [i \in 1..n |-> data[i]] /\ \A i \in 1..n : data[i] \in FileBytes
  BY <1>1 DEF FileBytes
<1>4. Sized(data, n)
  BY <1>2, <1>3, MadeOf
<1> QED
  BY <1>2, <1>4 DEF Sized

\* The sum wraps below the offset exactly when the end is past the largest offset.
LEMMA WrapIsOverflow ==
    ASSUME NEW off \in 0..MaxInt, NEW len \in 0..MaxInt
    PROVE  /\ WrappedSum(off, len) < off <=> off + len > MaxInt
           /\ off + len <= MaxInt => WrappedSum(off, len) = off + len
BY MaxIntAssumption DEF WrappedSum

\* Zeros with a file copied to the front: the file resized.
LEMMA ResizeIsTruncate ==
    ASSUME NEW c \in Seq(FileBytes), NEW n \in Nat
    PROVE  CopyInto(Zeros(n), 0, c) = FileTruncate(c, n)
<1> DEFINE s == CopyInto(Zeros(n), 0, c)
           t == FileTruncate(c, n)
<1>0. Len(c) \in Nat
  BY LenProperties
<1>1. Sized(Zeros(n), n) /\ \A i \in 1..n : Zeros(n)[i] = 0
  BY ZerosAre
<1>2. Sized(s, n) /\ \A i \in 1..n : s[i] = IF i > 0 /\ i - 0 <= Len(c) THEN c[i - 0] ELSE Zeros(n)[i]
  BY <1>1, CopyIntoIs
<1>3. Sized(t, n) /\ \A i \in 1..n : t[i] = IF i <= Len(c) THEN c[i] ELSE 0
  BY TruncateIs
<1> HIDE DEF s, t
<1>4. ASSUME NEW i \in 1..n PROVE s[i] = t[i]
  <2>1. i > 0 /\ i - 0 = i
    OBVIOUS
  <2> QED
    BY <1>1, <1>2, <1>3, <2>1
<1>5. s = t
  BY <1>2, <1>3, <1>4, SeqEqual DEF Sized
<1> QED
  BY <1>5 DEF s, t

\* The buffer of applyRangeMutation: what WriteAt makes of the file, or, with no
\* data, the file extended to the offset.
LEMMA ApplyIsWriteAt ==
    ASSUME NEW c \in Seq(FileBytes), NEW off \in Nat, NEW data \in Seq(FileBytes)
    PROVE  CopyInto(CopyInto(Zeros(LongerLen(Len(c), off + Len(data))), 0, c), off, data) =
             IF data = << >> THEN FileTruncate(c, LongerLen(Len(c), off)) ELSE FileWriteAt(c, off, data)
<1> DEFINE n == LongerLen(Len(c), off + Len(data))
           t == FileTruncate(c, n)
           s == CopyInto(t, off, data)
           w == FileWriteAt(c, off, data)
<1>0. Len(c) \in Nat /\ Len(data) \in Nat
  BY LenProperties
<1>1. n \in Nat /\ n >= off + Len(data)
  BY <1>0 DEF LongerLen
<1>2. CopyInto(CopyInto(Zeros(n), 0, c), off, data) = s
  BY <1>1, ResizeIsTruncate
<1>3. Sized(t, n) /\ \A i \in 1..n : t[i] = IF i <= Len(c) THEN c[i] ELSE 0
  BY <1>1, TruncateIs
<1>4. Sized(s, n) /\ \A i \in 1..n : s[i] = IF i > off /\ i - off <= Len(data) THEN data[i - off] ELSE t[i]
  BY <1>1, <1>3, CopyIntoIs
<1>5. CASE data = << >>
  <2>1. Len(data) = 0 /\ n = LongerLen(Len(c), off)
    BY <1>0, <1>5, EmptySeq
  <2> HIDE DEF n, t, s
  <2>2. ASSUME NEW i \in 1..n PROVE s[i] = t[i]
    <3>1. ~(i > off /\ i - off <= Len(data))
      BY <1>1, <2>1
    <3> QED
      BY <1>4, <3>1
  <2>3. s = t
    BY <1>3, <1>4, <2>2, SeqEqual DEF Sized
  <2>4. t = FileTruncate(c, LongerLen(Len(c), off))
    BY <2>1 DEF t
  <2> QED
    BY <1>2, <1>5, <2>3, <2>4 DEF n
<1>6. CASE data # << >>
  <2>1. Sized(w, n) /\ \A i \in 1..n : w[i] = IF i > off /\ i <= off + Len(data) THEN data[i - off]
                                              ELSE IF i <= Len(c) THEN c[i] ELSE 0
    BY <1>6, WriteAtIs
  <2> HIDE DEF n, t, s, w
  <2>2. ASSUME NEW i \in 1..n PROVE s[i] = w[i]
    <3>1. i - off <= Len(data) <=> i <= off + Len(data)
      BY <1>0, <1>1
    <3> QED
      BY <1>3, <1>4, <2>1, <3>1
  <2>3. s = w
    BY <1>4, <2>1, <2>2, SeqEqual DEF Sized
  <2> QED
    BY <1>2, <1>6, <2>3 DEF n, w
<1> QED
  BY <1>5, <1>6

\* The three reads after a write of some bytes.
LEMMA WriteReadsBack ==
    ASSUME NEW c \in Seq(FileBytes), NEW off \in Nat, NEW data \in Seq(FileBytes), data # << >>
    PROVE  LET w == FileWriteAt(c, off, data)
               end == off + Len(data)
           IN  /\ FileReadAt(w, off, Len(data)) = data
               /\ off > 0 => FileReadAt(w, 0, off) = FileTruncate(c, off)
               /\ FileReadAt(w, end, 0) = FileReadAt(c, end, 0)
<1> DEFINE w == FileWriteAt(c, off, data)
           end == off + Len(data)
           n == LongerLen(Len(c), end)
<1>0. Len(c) \in Nat /\ Len(data) \in Nat /\ Len(data) > 0
  BY LenProperties, EmptySeq
<1>1. end \in Nat /\ n \in Nat /\ n >= end /\ end > off /\ n >= Len(c) /\ (n = end \/ n = Len(c))
  BY <1>0 DEF LongerLen
<1>2. Sized(w, n) /\ \A i \in 1..n : w[i] = IF i > off /\ i <= end THEN data[i - off]
                                            ELSE IF i <= Len(c) THEN c[i] ELSE 0
  BY WriteAtIs
<1>3. w \in Seq(FileBytes) /\ Len(w) = n
  BY <1>2 DEF Sized
<1> HIDE DEF w, n
<1>4. FileReadAt(w, off, Len(data)) = data
  <2> DEFINE s == FileReadAt(w, off, Len(data))
             m == IF off >= Len(w) THEN 0 ELSE IF Len(data) > 0 /\ Len(data) < Len(w) - off THEN Len(data) ELSE Len(w) - off
  <2>1. Sized(s, m) /\ \A i \in 1..m : s[i] = w[off + i]
    BY <1>0, <1>3, ReadAtIs
  <2>2. m = Len(data)
    BY <1>0, <1>1, <1>3
  <2> HIDE DEF s, m
  <2>3. ASSUME NEW i \in 1..m PROVE s[i] = data[i]
    <3>1. off + i \in 1..n /\ off + i > off /\ off + i <= end /\ (off + i) - off = i
      BY <1>0, <1>1, <2>2
    <3> QED
      BY <1>2, <2>1, <3>1
  <2>4. s = data
    BY <2>1, <2>2, <2>3, SeqEqual DEF Sized
  <2> QED
    BY <2>4 DEF s
<1>5. ASSUME off > 0 PROVE FileReadAt(w, 0, off) = FileTruncate(c, off)
  <2> DEFINE s == FileReadAt(w, 0, off)
             t == FileTruncate(c, off)
             m == IF 0 >= Len(w) THEN 0 ELSE IF off > 0 /\ off < Len(w) - 0 THEN off ELSE Len(w) - 0
  <2>1. Sized(s, m) /\ \A i \in 1..m : s[i] = w[0 + i]
    BY <1>3, ReadAtIs
  <2>2. m = off
    BY <1>0, <1>1, <1>3, <1>5
  <2>3. Sized(t, off) /\ \A i \in 1..off : t[i] = IF i <= Len(c) THEN c[i] ELSE 0
    BY TruncateIs
  <2> HIDE DEF s, t, m
  <2>4. ASSUME NEW i \in 1..m PROVE s[i] = t[i]
    <3>1. i \in 1..off /\ i \in 1..n /\ ~(i > off) /\ 0 + i = i
      BY <1>1, <2>2
    <3> QED
      BY <1>2, <2>1, <2>3, <3>1
  <2>5. s = t
    BY <2>1, <2>2, <2>3, <2>4, SeqEqual DEF Sized
  <2> QED
    BY <2>5 DEF s, t
<1>6. FileReadAt(w, end, 0) = FileReadAt(c, end, 0)
  <2> DEFINE s == FileReadAt(w, end, 0)
             t == FileReadAt(c, end, 0)
             m == IF end >= Len(w) THEN 0 ELSE IF 0 > 0 /\ 0 < Len(w) - end THEN 0 ELSE Len(w) - end
             k == IF end >= Len(c) THEN 0 ELSE IF 0 > 0 /\ 0 < Len(c) - end THEN 0 ELSE Len(c) - end
  <2>1. Sized(s, m) /\ \A i \in 1..m : s[i] = w[end + i]
    BY <1>1, <1>3, ReadAtIs
  <2>2. Sized(t, k) /\ \A i \in 1..k : t[i] = c[end + i]
    BY <1>1, ReadAtIs
  <2>3. m = k /\ k \in Nat /\ (k > 0 => end + k <= Len(c))
    BY <1>0, <1>1, <1>3
  <2> HIDE DEF s, t, m, k
  <2>4. ASSUME NEW i \in 1..m PROVE s[i] = t[i]
    <3>1. k > 0 /\ i <= k /\ i \in Int /\ i > 0
      BY <2>3
    <3>2. end + i \in 1..n /\ ~(end + i <= end) /\ end + i <= Len(c)
      BY <1>0, <1>1, <2>3, <3>1
    <3>3. w[end + i] = c[end + i]
      BY <1>2, <3>2
    <3> QED
      BY <2>1, <2>2, <2>3, <3>3
  <2>5. s = t
    BY <2>1, <2>2, <2>3, <2>4, SeqEqual DEF Sized
  <2> QED
    BY <2>5 DEF s, t
<1> QED
  BY <1>4, <1>5, <1>6 DEF w

\* The file on disk holds bytes, and the last edit was shown right.
EditInv == file \in Seq(FileBytes) /\ CopyShowsTheEdit

\* An edit of a range keeps EditInv.
LEMMA RangeEditKeeps ==
    ASSUME EditInv, NEW off \in 0..MaxInt, NEW data \in Data, RangeEdit(off, data)
    PROVE  EditInv'
<1> DEFINE made == ApplyRangeMutation(file, off, data)
<1>1. off \in Nat /\ file \in Seq(FileBytes) /\ data \in Seq(FileBytes) /\ Len(data) \in 0..MaxInt
  BY DataIs, MaxIntAssumption DEF EditInv
<1>2. /\ file' = IF off + Len(data) > MaxInt THEN file ELSE FileWriteAt(file, off, data)
      /\ copy' = IF made.ok THEN made.data ELSE file
      /\ before' = file
      /\ edit' = [op |-> IF made.ok THEN "range" ELSE "rejected", off |-> off, data |-> data, size |-> 0]
  BY DEF RangeEdit
<1>3. CASE off + Len(data) > MaxInt
  <2>1. made = [ok |-> FALSE, data |-> << >>]
    BY <1>1, <1>3, WrapIsOverflow DEF ApplyRangeMutation
  <2>2. file' = file /\ copy' = file /\ edit'.op = "rejected"
    BY <1>2, <1>3, <2>1
  <2> QED
    BY <1>1, <2>2 DEF EditInv, CopyShowsTheEdit, ReadsBack
<1>4. CASE off + Len(data) <= MaxInt
  <2> DEFINE made2 == CopyInto(CopyInto(Zeros(LongerLen(Len(file), off + Len(data))), 0, file), off, data)
             w == FileWriteAt(file, off, data)
  <2>0. WrappedSum(off, Len(data)) = off + Len(data) /\ ~(off + Len(data) < off)
    BY <1>1, <1>4, WrapIsOverflow
  <2>1. made = [ok |-> TRUE, data |-> made2]
    BY <2>0 DEF ApplyRangeMutation
  <2>2. ~(off + Len(data) > MaxInt)
    BY <1>1, <1>4, MaxIntAssumption
  <2>3. file' = w /\ copy' = made2 /\ edit'.op = "range" /\ edit'.off = off /\ edit'.data = data
    BY <1>2, <2>1, <2>2
  <2>4. made2 = IF data = << >> THEN FileTruncate(file, LongerLen(Len(file), off)) ELSE w
    BY <1>1, ApplyIsWriteAt
  <2>5. w = IF data = << >> THEN file ELSE w
    BY DEF FileWriteAt
  <2>6. data # << >> => w \in Seq(FileBytes)
    BY <1>1, WriteAtIs DEF Sized
  <2>7. data # << >> =>
           /\ FileReadAt(w, off, Len(data)) = data
           /\ off > 0 => FileReadAt(w, 0, off) = FileTruncate(file, off)
           /\ FileReadAt(w, off + Len(data), 0) = FileReadAt(file, off + Len(data), 0)
    BY <1>1, WriteReadsBack
  <2> HIDE DEF made2, w, made
  <2>8. file' \in Seq(FileBytes)
    BY <1>1, <2>3, <2>5, <2>6
  <2>9. ReadsBack'
    BY <1>2, <2>3, <2>7 DEF ReadsBack
  <2>10. copy' = IF data = << >> THEN FileTruncate(file', LongerLen(Len(file'), off)) ELSE file'
    BY <2>3, <2>4, <2>5
  <2> QED
    BY <2>3, <2>8, <2>9, <2>10 DEF EditInv, CopyShowsTheEdit
<1> QED
  BY <1>1, <1>3, <1>4, MaxIntAssumption

\* The conflict copy of an edit shows what the edit makes of the file on disk,
\* and the edit reads back, for files and edits of any length and for every
\* largest offset that can index the data of a request.
THEOREM CopiesShowEdits == EditSpec => []CopyShowsTheEdit
<1>1. EditInit => EditInv
  BY EmptySeq DEF EditInit, EditInv, CopyShowsTheEdit, ReadsBack, NoEdit
<1>2. EditInv /\ [EditNext]_<<file, before, copy, edit>> => EditInv'
  <2> SUFFICES ASSUME EditInv, [EditNext]_<<file, before, copy, edit>> PROVE EditInv'
    OBVIOUS
  <2>1. ASSUME NEW off \in 0..MaxInt, NEW data \in Data, RangeEdit(off, data) PROVE EditInv'
    BY <2>1, RangeEditKeeps
  <2>2. ASSUME NEW size \in 0..MaxInt, SizeEdit(size) PROVE EditInv'
    <3>1. size \in Nat /\ file \in Seq(FileBytes)
      BY MaxIntAssumption DEF EditInv
    <3>2. file' = FileTruncate(file, size) /\ copy' = FileTruncate(file, size) /\ edit'.op = "resize"
      BY <2>2, <3>1, ResizeIsTruncate DEF SizeEdit, ResizeFileData
    <3>3. file' \in Seq(FileBytes)
      BY <3>1, <3>2, TruncateIs DEF Sized
    <3> QED
      BY <3>2, <3>3 DEF EditInv, CopyShowsTheEdit, ReadsBack
  <2>3. CASE UNCHANGED <<file, before, copy, edit>>
    BY <2>3 DEF EditInv, CopyShowsTheEdit, ReadsBack
  <2> QED
    BY <2>1, <2>2, <2>3 DEF EditNext
<1>3. EditInv => CopyShowsTheEdit
  BY DEF EditInv
<1> QED
  BY <1>1, <1>2, <1>3, PTL DEF EditSpec

-----------------------------------------------------------------------------
(* The log of a build *)

\* The last n elements of a sequence, element by element.
LEMMA LastBytesIs ==
    ASSUME NEW S, NEW s \in Seq(S), NEW n \in 0..Len(s)
    PROVE  /\ LastBytes(s, n) \in Seq(S) /\ Len(LastBytes(s, n)) = n
           /\ \A i \in 1..n : LastBytes(s, n)[i] = s[Len(s) - n + i]
<1>1. Len(s) \in Nat /\ \A i \in 1..Len(s) : s[i] \in S
  BY LenProperties
<1> DEFINE m == Len(s) - n + 1
<1>2. m \in Int /\ Len(s) \in Int /\ \A i \in m..Len(s) : s[i] \in S
  BY <1>1
<1>3. LastBytes(s, n) = SubSeq(s, m, Len(s))
  BY DEF LastBytes
<1> HIDE DEF m
<1>4. /\ SubSeq(s, m, Len(s)) \in Seq(S)
      /\ Len(SubSeq(s, m, Len(s))) = IF m <= Len(s) THEN Len(s) - m + 1 ELSE 0
      /\ \A i \in 1..(Len(s) - m + 1) : SubSeq(s, m, Len(s))[i] = s[m + i - 1]
  BY <1>2, SubSeqProperties
<1>5. m = Len(s) - n + 1
  BY DEF m
<1>6. Len(LastBytes(s, n)) = n /\ Len(s) - m + 1 = n
  BY <1>1, <1>3, <1>4, <1>5
<1>7. ASSUME NEW i \in 1..n PROVE LastBytes(s, n)[i] = s[Len(s) - n + i]
  <2>1. i \in 1..(Len(s) - m + 1) /\ m + i - 1 = Len(s) - n + i
    BY <1>1, <1>5, <1>6
  <2> QED
    BY <1>3, <1>4, <2>1
<1> QED
  BY <1>3, <1>4, <1>6, <1>7

\* LogShowsTheEnd, element by element: the log is what was written, or the marker
\* and then the end of what was written.
Shown == IF LogLimit <= Len(Marker) THEN 0 ELSE Len(Marker)
LogIs(l, h) ==
    /\ l \in Seq(Nat) /\ h \in Seq(Nat)
    /\ IF Len(h) <= LogLimit THEN l = h
       ELSE /\ Len(l) = LogLimit
            /\ \A i \in 1..LogLimit :
                 l[i] = IF i <= Shown THEN Marker[i] ELSE h[Len(h) - LogLimit + i]

\* The marker that is shown leaves room for something else.
LEMMA ShownType ==
    /\ LogLimit \in Nat /\ Len(Marker) \in Nat
    /\ Shown \in 0..(LogLimit - 1) /\ Shown <= Len(Marker)
BY BuildCommandsAssumption, LenProperties DEF Shown

\* An entry keeps the log right.
LEMMA AppendKeepsLog ==
    ASSUME NEW l, NEW h, LogIs(l, h), NEW e \in Seq(Nat)
    PROVE  LogIs(AppendLogWithLimit(l, e), h \o e)
<1> DEFINE buf == l \o e
           all == h \o e
           new == AppendLogWithLimit(l, e)
<1>0. l \in Seq(Nat) /\ h \in Seq(Nat) /\ Len(l) \in Nat /\ Len(h) \in Nat /\ Len(e) \in Nat
  BY LenProperties DEF LogIs
<1>1. buf \in Seq(Nat) /\ Len(buf) = Len(l) + Len(e)
      /\ \A i \in 1..(Len(l) + Len(e)) : buf[i] = IF i <= Len(l) THEN l[i] ELSE e[i - Len(l)]
  BY <1>0, ConcatProperties
<1>2. all \in Seq(Nat) /\ Len(all) = Len(h) + Len(e)
      /\ \A i \in 1..(Len(h) + Len(e)) : all[i] = IF i <= Len(h) THEN h[i] ELSE e[i - Len(h)]
  BY <1>0, ConcatProperties
<1>3. Len(h) <= LogLimit => Len(l) = Len(h) /\ l = h
  BY DEF LogIs
<1>4. Len(h) > LogLimit => Len(l) = LogLimit
  BY <1>0, ShownType DEF LogIs
<1>5. Len(l) <= Len(h) /\ Len(l) <= LogLimit /\ (Len(l) < LogLimit => l = h)
  BY <1>0, <1>3, <1>4, ShownType
<1> HIDE DEF buf, all
<1>6. CASE Len(buf) <= LogLimit
  <2>1. new = buf
    BY <1>6 DEF AppendLogWithLimit, buf
  <2>2. CASE Len(h) <= LogLimit
    <3>1. buf = all /\ Len(all) <= LogLimit
      BY <1>3, <1>6, <2>2 DEF buf, all
    <3> QED
      BY <1>1, <1>2, <2>1, <3>1 DEF LogIs, all
  <2>3. CASE Len(h) > LogLimit
    <3>1. Len(e) = 0
      BY <1>0, <1>1, <1>4, <1>6, <2>3, ShownType
    <3>2. e = << >>
      BY <3>1, <1>0, EmptySeq
    <3>3. buf = l /\ all = h
      BY <1>0, <3>2, ConcatEmptySeq DEF buf, all
    <3> QED
      BY <2>1, <3>3 DEF all
  <2> QED
    BY <1>0, <2>2, <2>3, ShownType
<1>7. CASE Len(buf) > LogLimit
  <2>0. Len(all) > LogLimit /\ Len(all) >= Len(buf)
    BY <1>0, <1>1, <1>2, <1>5, <1>7, ShownType
  <2> DEFINE n == LogLimit - Shown
             tail == LastBytes(buf, n)
  <2>1. n \in 1..LogLimit /\ n \in 0..Len(buf)
    BY <1>0, <1>1, <1>7, ShownType
  <2>2. tail \in Seq(Nat) /\ Len(tail) = n /\ \A i \in 1..n : tail[i] = buf[Len(buf) - n + i]
    <3> HIDE DEF n
    <3>1. buf \in Seq(Nat) /\ n \in 0..Len(buf)
      BY <1>1, <2>1
    <3> QED
      BY <3>1, LastBytesIs
  \* The end of the buffer is the end of everything written.
  <2>3. ASSUME NEW i \in 1..n PROVE tail[i] = all[Len(all) - n + i]
    <3> DEFINE j == Len(buf) - n + i
               k == Len(all) - n + i
    <3>n. n \in Nat /\ i \in Nat /\ 1 <= i /\ i <= n /\ n + Shown = LogLimit
      BY <2>1, ShownType
    <3>2. tail[i] = buf[j]
      BY <2>2
    <3>l. Len(l) + Len(e) > LogLimit /\ Len(l) <= Len(h) /\ LogLimit \in Nat /\ Shown \in Nat
      BY <1>0, <1>1, <1>5, <1>7, ShownType
    <3>e. j = Len(l) + Len(e) - n + i /\ k = Len(h) + Len(e) - n + i
      BY <1>0, <1>1, <1>2, <3>n
    <3> HIDE DEF tail, n, j, k
    <3>1. j \in 1..(Len(l) + Len(e)) /\ k \in 1..(Len(h) + Len(e)) /\ k - Len(h) = j - Len(l) /\ (j <= Len(l) <=> k <= Len(h))
      BY <1>0, <3>n, <3>e, <3>l
    <3>3. ASSUME j > Len(l) PROVE tail[i] = all[k]
      <4>1. ~(j <= Len(l)) /\ ~(k <= Len(h))
        BY <1>0, <3>1, <3>3
      <4>2. buf[j] = e[j - Len(l)] /\ all[k] = e[k - Len(h)]
        BY <1>1, <1>2, <3>1, <4>1
      <4> QED
        BY <3>1, <3>2, <4>2
    <3>4. ASSUME j <= Len(l) PROVE tail[i] = all[k]
      <4>1. buf[j] = l[j] /\ all[k] = h[k]
        BY <1>1, <1>2, <3>1, <3>4
      <4>2. CASE Len(h) <= LogLimit
        <5>1. l = h /\ j = k
          BY <1>0, <1>3, <3>n, <3>e, <4>2
        <5> QED
          BY <3>2, <4>1, <5>1
      <4>3. CASE Len(h) > LogLimit
        <5>1. Len(l) = LogLimit /\ j \in 1..LogLimit /\ j > Shown
          <6>1. Len(l) = LogLimit
            BY <1>4, <4>3
          <6>2. LogLimit \in Int /\ n \in Int /\ Shown \in Int /\ i \in Int /\ Len(e) \in Int
            BY <1>0, <3>n, <3>l
          <6>3. LogLimit - n = Shown
            BY <3>n, <6>2
          <6>4. j = LogLimit + Len(e) - n + i
            BY <3>e, <6>1
          <6>5. j = Len(e) + Shown + i
            BY <6>2, <6>3, <6>4
          <6>6. j <= LogLimit
            BY <3>4, <6>1
          <6>7. Len(e) \in Nat /\ Shown \in Nat /\ i \in Nat /\ 1 <= i /\ LogLimit \in Nat
            BY <1>0, <3>n, <3>l
          <6> QED
            BY <6>1, <6>5, <6>6, <6>7
        <5>2. ~(Len(h) <= LogLimit) /\ ~(j <= Shown)
          BY <1>0, <3>l, <4>3, <5>1
        <5>3. l[j] = h[Len(h) - LogLimit + j]
          BY <5>1, <5>2 DEF LogIs
        <5>4. Len(h) - LogLimit + j = k
          BY <1>0, <3>n, <3>e, <3>l, <5>1
        <5> QED
          BY <3>2, <4>1, <5>3, <5>4
      <4> QED
        BY <1>0, <3>l, <4>2, <4>3
    <3>5. tail[i] = all[k]
      BY <1>0, <3>1, <3>3, <3>4
    <3> QED
      BY <3>5 DEF k
  <2>4. CASE LogLimit <= Len(Marker)
    <3>1. Shown = 0 /\ n = LogLimit
      BY <2>4, ShownType DEF Shown
    <3>2. new = tail
      BY <1>7, <2>4, <3>1, <1>1, ShownType DEF AppendLogWithLimit, buf
    <3> HIDE DEF tail, n, new
    <3>3. new \in Seq(Nat) /\ Len(new) = LogLimit
      BY <2>2, <3>1, <3>2
    <3>4. \A i \in 1..LogLimit : new[i] = IF i <= Shown THEN Marker[i] ELSE all[Len(all) - LogLimit + i]
      BY <2>3, <3>1, <3>2, ShownType
    <3>5. ~(Len(all) <= LogLimit)
      BY <1>0, <1>2, <2>0, ShownType
    <3> QED
      BY <1>2, <3>3, <3>4, <3>5 DEF LogIs, new, all
  <2>5. CASE LogLimit > Len(Marker)
    <3>1. Shown = Len(Marker) /\ n = LogLimit - Len(Marker)
      BY <2>5, ShownType DEF Shown
    <3>2. new = Marker \o tail
      BY <1>7, <2>5, <3>1, <1>1, ShownType DEF AppendLogWithLimit, buf
    <3> HIDE DEF tail, n, new
    <3>3. Marker \in Seq(Nat)
      BY BuildCommandsAssumption
    <3>4. /\ new \in Seq(Nat) /\ Len(new) = Len(Marker) + n
          /\ \A i \in 1..(Len(Marker) + n) : new[i] = IF i <= Len(Marker) THEN Marker[i] ELSE tail[i - Len(Marker)]
      BY <2>2, <3>2, <3>3, ConcatProperties
    <3>5. Len(Marker) + n = LogLimit
      BY <3>1, ShownType
    <3>6. ASSUME NEW i \in 1..LogLimit
          PROVE  new[i] = IF i <= Shown THEN Marker[i] ELSE all[Len(all) - LogLimit + i]
      <4>1. CASE i <= Shown
        BY <3>1, <3>4, <3>5, <4>1
      <4>2. CASE ~(i <= Shown)
        <5>1. i - Len(Marker) \in 1..n /\ Len(all) - n + (i - Len(Marker)) = Len(all) - LogLimit + i
          BY <1>0, <1>2, <3>1, <4>2, ShownType
        <5>2. new[i] = tail[i - Len(Marker)]
          BY <3>1, <3>4, <3>5, <4>2
        <5> QED
          BY <2>3, <4>2, <5>1, <5>2
      <4> QED
        BY <4>1, <4>2
    <3>7. ~(Len(all) <= LogLimit)
      BY <1>0, <1>2, <2>0, ShownType
    <3> QED
      BY <1>2, <3>4, <3>5, <3>6, <3>7 DEF LogIs, new, all
  <2> QED
    BY <2>4, <2>5, ShownType
<1> QED
  BY <1>0, <1>1, <1>6, <1>7, ShownType

\* What is so element by element is so for the parts of the log.
LEMMA LogIsShown ==
    ASSUME NEW l, NEW h, LogIs(l, h)
    PROVE  LogShowsTheEnd(l, h)
<1>0. l \in Seq(Nat) /\ h \in Seq(Nat) /\ Len(l) \in Nat /\ Len(h) \in Nat
  BY LenProperties DEF LogIs
<1>1. CASE Len(h) <= LogLimit
  BY <1>1 DEF LogIs, LogShowsTheEnd
<1>2. CASE ~(Len(h) <= LogLimit)
  <2>1. /\ Len(l) = LogLimit
        /\ \A i \in 1..LogLimit : l[i] = IF i <= Shown THEN Marker[i] ELSE h[Len(h) - LogLimit + i]
    BY <1>2 DEF LogIs
  <2>2. \A i \in 1..LogLimit : l[i] \in Nat
    BY <1>0, <2>1, LenProperties
  <2>3. Marker \in Seq(Nat) /\ \A i \in 1..Len(Marker) : Marker[i] \in Nat
    BY BuildCommandsAssumption, LenProperties
  <2>4. SubSeq(l, 1, Shown) = SubSeq(Marker, 1, Shown)
    <3>0. Shown \in Int /\ 1 \in Int /\ (\A i \in 1..Shown : l[i] \in Nat) /\ (\A i \in 1..Shown : Marker[i] \in Nat)
      BY <2>2, <2>3, ShownType
    <3> DEFINE s == SubSeq(l, 1, Shown)
               t == SubSeq(Marker, 1, Shown)
    <3>1. s \in Seq(Nat) /\ Len(s) = (IF 1 <= Shown THEN Shown - 1 + 1 ELSE 0) /\ \A i \in 1..(Shown - 1 + 1) : s[i] = l[1 + i - 1]
      BY <3>0, SubSeqProperties
    <3>2. t \in Seq(Nat) /\ Len(t) = (IF 1 <= Shown THEN Shown - 1 + 1 ELSE 0) /\ \A i \in 1..(Shown - 1 + 1) : t[i] = Marker[1 + i - 1]
      BY <3>0, SubSeqProperties
    <3> HIDE DEF s, t
    <3>3. Len(s) = Shown /\ Len(t) = Shown
      BY <3>1, <3>2, ShownType
    <3>4. ASSUME NEW i \in 1..Shown PROVE s[i] = t[i]
      <4>1. i \in 1..(Shown - 1 + 1) /\ 1 + i - 1 = i /\ i \in 1..LogLimit /\ i <= Shown
        BY ShownType
      <4>2. s[i] = l[i] /\ t[i] = Marker[i]
        BY <3>1, <3>2, <4>1
      <4> QED
        BY <2>1, <4>1, <4>2
    <3>5. s = t
      BY <3>1, <3>2, <3>3, <3>4, SeqEqual
    <3> QED
      BY <3>5 DEF s, t
  <2>5. SubSeq(l, Shown + 1, LogLimit) = LastBytes(h, LogLimit - Shown)
    <3> DEFINE n == LogLimit - Shown
               m == Shown + 1
               s == SubSeq(l, m, LogLimit)
               t == LastBytes(h, n)
    <3>1. m \in Int /\ LogLimit \in Int /\ \A i \in m..LogLimit : l[i] \in Nat
      BY <2>2, ShownType
    <3>2. n \in 0..Len(h) /\ LogLimit - m + 1 = n /\ m <= LogLimit
      BY <1>0, <1>2, ShownType
    <3>3. t \in Seq(Nat) /\ Len(t) = n /\ \A i \in 1..n : t[i] = h[Len(h) - n + i]
      BY <1>0, <3>2, LastBytesIs
    <3>m. m = Shown + 1 /\ n = LogLimit - Shown
      OBVIOUS
    <3> HIDE DEF m, n
    <3>4. s \in Seq(Nat) /\ Len(s) = (IF m <= LogLimit THEN LogLimit - m + 1 ELSE 0) /\ \A i \in 1..(LogLimit - m + 1) : s[i] = l[m + i - 1]
      BY <3>1, SubSeqProperties
    <3> HIDE DEF s, t
    <3>5. Len(s) = n
      BY <3>2, <3>4
    <3>6. ASSUME NEW i \in 1..n PROVE s[i] = t[i]
      <4>1. i \in 1..(LogLimit - m + 1) /\ m + i - 1 \in 1..LogLimit /\ ~(m + i - 1 <= Shown)
            /\ Len(h) - LogLimit + (m + i - 1) = Len(h) - n + i
        BY <1>0, <3>2, <3>m, ShownType
      <4>2. s[i] = l[m + i - 1] /\ l[m + i - 1] = h[Len(h) - LogLimit + (m + i - 1)]
        BY <2>1, <3>4, <4>1
      <4> QED
        BY <3>3, <4>1, <4>2
    <3>7. s = t
      BY <3>3, <3>4, <3>5, <3>6, SeqEqual
    <3> QED
      BY <3>7 DEF s, t, m, n
  <2> QED
    BY <1>2, <2>1, <2>4, <2>5 DEF LogShowsTheEnd, Shown
<1> QED
  BY <1>1, <1>2

\* The log shows the end of what was written, for every limit, marker and
\* sequence of entries.
THEOREM LogsEndRight == Spec => []LogEndsRight
<1>1. Init => LogIs(log, history)
  BY EmptySeq, ShownType DEF Init, LogIs
<1>2. LogIs(log, history) /\ [Next]_vars => LogIs(log, history)'
  <2> SUFFICES ASSUME LogIs(log, history), [Next]_vars PROVE LogIs(log, history)'
    OBVIOUS
  <2>1. ASSUME NEW entry \in Seqs({1, 2}, 3), AppendLog(entry) PROVE LogIs(log, history)'
    <3>1. PICK k \in 0..3 : entry \in [1..k -> {1, 2}]
      BY DEF Seqs
    <3>2. entry \in [1..k -> Nat] /\ k \in Nat
      BY <3>1
    <3>3. entry \in Seq(Nat)
      BY <3>2
    <3>4. log' = AppendLogWithLimit(log, entry) /\ history' = history \o entry
      BY <2>1 DEF AppendLog
    <3> QED
      BY <3>3, <3>4, AppendKeepsLog
  <2>2. CASE UNCHANGED <<log, history>>
    BY <2>2 DEF LogIs
  <2>3. CASE Edit
    BY <2>2, <2>3 DEF Edit
  <2>4. CASE Record
    BY <2>2, <2>4 DEF Record
  <2>5. CASE UNCHANGED vars
    BY <2>2, <2>5 DEF vars
  <2> QED
    BY <2>1, <2>3, <2>4, <2>5 DEF Next
<1>3. LogIs(log, history) => LogEndsRight
  BY LogIsShown DEF LogEndsRight
<1> QED
  BY <1>1, <1>2, <1>3, PTL DEF Spec

-----------------------------------------------------------------------------
(* The target of a build *)

\* Whatever name is listed, its first spelling is kept.
LEMMA FirstIsKept ==
    ASSUME NEW ts, Len(ts) \in Nat, NEW i \in 1..Len(ts), ts[i].key # ""
    PROVE  \E t \in DedupeTargets(ts) : t.key = ts[i].key
<1> DEFINE T == {j \in 1..Len(ts) : ts[j].key = ts[i].key}
<1>1. T \subseteq 1..Len(ts) /\ i \in T
  BY Zenon
<1>2. \A j \in 1..Len(ts) : j \in T <=> ts[j].key = ts[i].key
  BY Zenon
<1> HIDE DEF T
<1>3. PICK j \in T : \A k \in 1..(j - 1) : k \in 1..Len(ts) /\ k \notin T
  BY <1>1, FirstIndex
<1>4. j \in 1..Len(ts) /\ ts[j].key = ts[i].key
  BY <1>1, <1>2, <1>3, Zenon
<1>5. ASSUME NEW k \in 1..(j - 1) PROVE ts[k].key # ts[j].key
  BY <1>2, <1>3, <1>4, <1>5, Zenon
<1>6. ts[j] \in DedupeTargets(ts)
  BY <1>4, <1>5 DEF DedupeTargets
<1> QED
  BY <1>4, <1>6

\* What is kept is listed, and has a name.
LEMMA KeptIsListed ==
    ASSUME NEW ts, NEW t \in DedupeTargets(ts)
    PROVE  t.key # "" /\ \E i \in 1..Len(ts) : ts[i] = t
BY DEF DedupeTargets

\* A target is kept in the spelling that comes first.
LEMMA FirstSpellingKept ==
    ASSUME NEW ts, NEW t, t.key # "",
           \E i \in 1..Len(ts) : ts[i] = t /\ \A j \in 1..(i - 1) : ts[j].key # t.key
    PROVE  t \in DedupeTargets(ts)
BY DEF DedupeTargets

\* A build builds what was asked for, for every list of targets that the file
\* API or the project files can give and every request.
THEOREM BuildsAsAsked ==
    ASSUME NEW Names, NEW files, NEW requested \in Names,
           NEW reply \in [ok : BOOLEAN, targets : Seq(Names)], NEW projects \in Seq(Names)
    PROVE  BuildsWhatWasAsked(files, requested, reply, projects)
<1> DEFINE made == RunBuildCommands(files, requested, reply, projects)
           HasName(ts) == \E i \in 1..Len(ts) : ts[i].key # ""
           listed == IF reply.ok /\ HasName(reply.targets) THEN reply.targets ELSE projects
           available == ListCMakeTargets(reply, projects)
           cmake == ResolveCMakeBuildTarget(requested, available)
           folded == {t \in available : t.key = requested.key}
           Named == requested.key \notin {"", "all", "default"}
           Cmake == "CMakeLists.txt" \in files
           Listed(t) == \E i \in 1..Len(listed) : listed[i] = t
           First(t) == \E i \in 1..Len(listed) : listed[i] = t /\ \A j \in 1..(i - 1) : listed[j].key # t.key
<1>1. reply.targets \in Seq(Names) /\ listed \in Seq(Names)
  OBVIOUS
<1>l. Len(listed) \in Nat
  BY <1>1, LenProperties
<1>2. ASSUME NEW ts \in Seq(Names) PROVE DedupeTargets(ts) # {} <=> HasName(ts)
  <2>1. ASSUME HasName(ts) PROVE DedupeTargets(ts) # {}
    <3>1. Len(ts) \in Nat
      BY LenProperties
    <3> QED
      BY <2>1, <3>1, FirstIsKept, Zenon
  <2>2. ASSUME NEW t \in DedupeTargets(ts) PROVE HasName(ts)
    <3>1. t.key # ""
      BY KeptIsListed, Zenon
    <3>2. PICK i \in 1..Len(ts) : ts[i] = t
      BY KeptIsListed, Zenon
    <3> QED
      BY <3>1, <3>2, Zenon
  <2> QED
    BY <2>1, <2>2
<1>3. available = DedupeTargets(listed)
  BY <1>1, <1>2 DEF ListCMakeTargets
<1>4. available # {} <=> HasName(listed)
  BY <1>1, <1>2, <1>3
<1>5. ASSUME NEW t \in available PROVE t.key # "" /\ Listed(t)
  <2>1. t \in DedupeTargets(listed)
    BY <1>3
  <2> HIDE DEF listed
  <2> QED
    BY <2>1, KeptIsListed, Zenon
<1>6. ASSUME NEW i \in 1..Len(listed), listed[i].key # "" PROVE \E t \in available : t.key = listed[i].key
  <2> HIDE DEF listed, available
  <2>1. \E t \in DedupeTargets(listed) : t.key = listed[i].key
    BY <1>l, <1>6, FirstIsKept, Zenon
  <2> QED
    BY <1>3, <2>1, Zenon
<1>7. ASSUME Named, First(requested) PROVE requested \in available
  <2> HIDE DEF listed, available
  <2>1. requested.key # ""
    BY <1>7, Zenon
  <2>2. requested \in DedupeTargets(listed)
    BY <1>7, <2>1, FirstSpellingKept, Zenon
  <2> QED
    BY <1>3, <2>2, Zenon
<1>8. Cmake => made = [ok |-> cmake.ok, writes |-> "build", target |-> cmake.target]
  <2>1. Cmake => DetectBuildKind(files) = "cmake"
    BY DEF DetectBuildKind
  <2> QED
    BY <2>1 DEF RunBuildCommands
<1>9. ~Cmake => made.writes \in {"workspace", "none"}
  <2>1. DetectBuildKind(files) \in {"cmake", "make", "msbuild", "unsupported"} /\ (~Cmake => DetectBuildKind(files) # "cmake")
    BY DEF DetectBuildKind
  <2> QED
    BY <2>1 DEF RunBuildCommands
<1>10. made.writes # "unit"
  BY <1>8, <1>9
<1>11. CASE ~Named
  <2>1. cmake = [ok |-> TRUE, target |-> NoName]
    BY <1>11 DEF ResolveCMakeBuildTarget
  <2> HIDE DEF made, cmake, available, listed
  <2>2. Cmake => made.ok /\ made.target = NoName
    BY <1>8, <2>1
  <2> QED
    BY <1>10, <1>11, <2>2 DEF BuildsWhatWasAsked, made
<1>12. CASE Named
  <2>1. CASE available = {} \/ requested \in available
    <3>1. cmake = [ok |-> TRUE, target |-> requested]
      BY <1>12, <2>1 DEF ResolveCMakeBuildTarget
    <3>2. Cmake => made.ok /\ made.target = requested
      <4> HIDE DEF made, cmake
      <4> QED
        BY <1>8, <3>1
    <3>3. HasName(listed) => Listed(requested)
      BY <1>4, <1>5, <2>1
    <3> HIDE DEF cmake, available
    <3> QED
      BY <1>10, <1>12, <3>2, <3>3 DEF BuildsWhatWasAsked
  <2>2. CASE available # {} /\ requested \notin available /\ folded # {}
    <3> DEFINE t == CHOOSE t \in folded : TRUE
    <3>1. t \in folded
      BY <2>2
    <3>2. cmake = [ok |-> TRUE, target |-> t]
      BY <1>12, <2>2 DEF ResolveCMakeBuildTarget
    <3> HIDE DEF t
    <3>3. Cmake => made.ok /\ made.target = t
      <4> HIDE DEF made, cmake
      <4> QED
        BY <1>8, <3>2
    <3>4. t.key = requested.key /\ Listed(t) /\ HasName(listed) /\ ~First(requested)
      BY <1>4, <1>5, <1>7, <1>12, <2>2, <3>1
    <3> HIDE DEF cmake, available
    <3> QED
      BY <1>10, <1>12, <3>3, <3>4 DEF BuildsWhatWasAsked
  <2>3. CASE available # {} /\ requested \notin available /\ folded = {}
    <3>1. cmake = [ok |-> FALSE, target |-> NoName]
      BY <1>12, <2>3 DEF ResolveCMakeBuildTarget
    <3>2. Cmake => ~made.ok
      <4> HIDE DEF made, cmake
      <4> QED
        BY <1>8, <3>1
    <3>3. ~\E i \in 1..Len(listed) : listed[i].key = requested.key
      BY <1>6, <1>12, <2>3
    <3> HIDE DEF cmake, available
    <3> QED
      BY <1>10, <1>12, <3>2, <3>3 DEF BuildsWhatWasAsked
  <2> QED
    BY <2>1, <2>2, <2>3
<1> QED
  BY <1>11, <1>12

\* The inputs that the run enumerates are such lists and requests.
THEOREM TargetsAreAsAsked == Spec => []TargetsAsAsked
<1> DEFINE Names == Targets \cup {Name("all", 1), Name("lib", 2)}
<1>1. ASSUME input \in Inputs(subject), subject = "target"
      PROVE  BuildsWhatWasAsked(input.files, input.requested, input.reply, input.projects)
  <2>1. input \in TargetInputs
    BY <1>1 DEF Inputs
  <2>2. /\ input.requested \in Names
        /\ input.reply \in [ok : BOOLEAN, targets : Seqs(Targets, 2)] /\ input.projects \in Seqs(Targets, 2)
    BY <2>1 DEF TargetInputs
  <2>3. Targets \subseteq Names
    OBVIOUS
  <2> HIDE DEF Names
  <2>4. \A s : s \in Seqs(Targets, 2) => s \in Seq(Names)
    <3> SUFFICES ASSUME NEW s \in Seqs(Targets, 2) PROVE s \in Seq(Names)
      OBVIOUS
    <3>1. PICK k \in 0..2 : s \in [1..k -> Targets]
      BY DEF Seqs
    <3>2. k \in Nat /\ s \in [1..k -> Names]
      BY <2>3, <3>1
    <3> QED
      BY <3>2
  <2>5. input.reply \in [ok : BOOLEAN, targets : Seq(Names)] /\ input.projects \in Seq(Names)
    BY <2>2, <2>4
  <2> QED
    BY <2>2, <2>5, BuildsAsAsked
<1>2. input \in Inputs(subject) => TargetsAsAsked
  BY <1>1 DEF TargetsAsAsked
<1> QED
  BY <1>2, InputStays, PTL

-----------------------------------------------------------------------------
(* Paths *)

\* One component of filepath.Clean, and of a walk.
CleanStep(abs, done, c) ==
    CASE c \in {"", "."} -> done
      [] c = ".." /\ (done = << >> \/ done[Len(done)] = "..") ->
            IF abs THEN done ELSE Append(done, c)
      [] c = ".." /\ done # << >> /\ done[Len(done)] # ".." -> SubSeq(done, 1, Len(done) - 1)
      [] OTHER -> Append(done, c)
WalkStep(done, c) ==
    IF c \in {"", "."} THEN done
    ELSE IF c = ".." THEN SubSeq(done, 1, Len(done) - 1)
    ELSE Append(done, c)

\* f is where cleaning and walking the path stand after every component.
CleanRun(abs, N, path, f) ==
    /\ f \in [0..Len(path) -> Seq(N)] /\ f[0] = << >>
    /\ \A i \in 1..Len(path) : f[i] = CleanStep(abs, f[i - 1], path[i])
WalkRun(N, path, f) ==
    /\ f \in [0..Len(path) -> Seq(N)] /\ f[0] = << >>
    /\ \A i \in 1..Len(path) : f[i] = WalkStep(f[i - 1], path[i])

\* A sequence without its last element.
LEMMA FrontIs ==
    ASSUME NEW N, NEW s \in Seq(N), s # << >>
    PROVE  /\ SubSeq(s, 1, Len(s) - 1) \in Seq(N)
           /\ Len(SubSeq(s, 1, Len(s) - 1)) = Len(s) - 1
           /\ \A i \in 1..(Len(s) - 1) : SubSeq(s, 1, Len(s) - 1)[i] = s[i]
<1>1. Len(s) \in Nat \ {0} /\ \A i \in 1..Len(s) : s[i] \in N
  BY EmptySeq, LenProperties
<1> DEFINE m == Len(s) - 1
<1>2. m \in Int /\ m \in Nat /\ \A i \in 1..m : s[i] \in N
  BY <1>1
<1> HIDE DEF m
<1>3. SubSeq(s, 1, m) \in Seq(N) /\ Len(SubSeq(s, 1, m)) = (IF 1 <= m THEN m - 1 + 1 ELSE 0)
      /\ \A i \in 1..(m - 1 + 1) : SubSeq(s, 1, m)[i] = s[1 + i - 1]
  BY <1>2, SubSeqProperties
<1>4. Len(SubSeq(s, 1, m)) = m /\ \A i \in 1..m : SubSeq(s, 1, m)[i] = s[i]
  <2>1. Len(SubSeq(s, 1, m)) = m /\ m - 1 + 1 = m
    BY <1>2, <1>3
  <2>2. ASSUME NEW i \in 1..m PROVE SubSeq(s, 1, m)[i] = s[i]
    <3>1. 1 + i - 1 = i
      BY <1>2
    <3> QED
      BY <1>3, <2>1, <3>1
  <2> QED
    BY <2>1, <2>2
<1> QED
  BY <1>3, <1>4 DEF m

\* It is a sequence in any case.
LEMMA FrontType ==
    ASSUME NEW N, NEW s \in Seq(N)
    PROVE  SubSeq(s, 1, Len(s) - 1) \in Seq(N)
<1>1. CASE s = << >>
  <2>1. SubSeq(s, 1, Len(s) - 1) = << >>
    BY <1>1, EmptySeq, SubSeqEmpty
  <2> QED
    BY <2>1, EmptySeq
<1>2. CASE s # << >>
  BY <1>2, FrontIs
<1> QED
  BY <1>1, <1>2

\* The steps lead from sequences of names to sequences of names.
LEMMA CleanStepType ==
    ASSUME NEW N, NEW done \in Seq(N), NEW c \in N, NEW abs
    PROVE  CleanStep(abs, done, c) \in Seq(N)
<1>1. Append(done, c) \in Seq(N) /\ SubSeq(done, 1, Len(done) - 1) \in Seq(N)
  BY FrontType, AppendProperties
<1>2. CASE c \in {"", "."}
  BY <1>2 DEF CleanStep
<1>3. CASE c \notin {"", "."}
  <2>1. CASE c = ".." /\ (done = << >> \/ done[Len(done)] = "..")
    BY <1>1, <1>3, <2>1 DEF CleanStep
  <2>2. CASE c = ".." /\ done # << >> /\ done[Len(done)] # ".."
    BY <1>1, <1>3, <2>2 DEF CleanStep
  <2>3. CASE c # ".."
    BY <1>1, <1>3, <2>3 DEF CleanStep
  <2> QED
    BY <2>1, <2>2, <2>3
<1> QED
  BY <1>2, <1>3

\* The same of a walk.
LEMMA WalkStepType ==
    ASSUME NEW N, NEW done \in Seq(N), NEW c \in N
    PROVE  WalkStep(done, c) \in Seq(N)
BY FrontType, AppendProperties DEF WalkStep

\* Clean ends where its run ends.
LEMMA CleanRuns ==
    ASSUME NEW N, NEW path \in Seq(N), NEW abs
    PROVE  \E f : CleanRun(abs, N, path, f) /\ Clean(abs, path) = f[Len(path)]
<1> DEFINE n == Len(path)
           Rec(f) == f = [i \in 0..n |-> IF i = 0 THEN << >> ELSE CleanStep(abs, f[i - 1], path[i])]
           f == CHOOSE f : Rec(f)
           step == [x \in Seq(N) \X (1..n) |-> CleanStep(abs, x[1], path[x[2]])]
<1>1. n \in Nat /\ \A i \in 1..n : path[i] \in N
  BY LenProperties
<1>2. Clean(abs, path) = f[n]
  BY DEF Clean, CleanStep
<1> HIDE DEF n
<1>3. step \in [Seq(N) \X (1..n) -> Seq(N)]
  <2>1. ASSUME NEW x \in Seq(N) \X (1..n) PROVE CleanStep(abs, x[1], path[x[2]]) \in Seq(N)
    <3>1. x[1] \in Seq(N) /\ path[x[2]] \in N
      BY <1>1
    <3> QED
      BY <3>1, CleanStepType
  <2> QED
    BY <2>1
<1>4. << >> \in Seq(N)
  BY EmptySeq
<1>5. \A y \in Seq(N), i \in 1..n : step[<<y, i>>] = CleanStep(abs, y, path[i])
  OBVIOUS
<1> HIDE DEF step
<1>5a. n \in Nat
  BY <1>1
<1>5b. \E g : IsSteps(Seq(N), n, << >>, step, g)
  BY <1>5a, <1>3, <1>4, StepFunction
<1>6. PICK g \in [0..n -> Seq(N)] : g[0] = << >> /\ \A i \in 1..n : g[i] = step[<<g[i - 1], i>>]
  BY <1>5b DEF IsSteps
<1>7. \A i \in 1..n : g[i - 1] \in Seq(N) /\ g[i] = CleanStep(abs, g[i - 1], path[i])
  <2> TAKE i \in 1..n
  <2>1. i - 1 \in 0..n
    BY <1>1
  <2> QED
    BY <1>5, <1>6, <2>1
<1>8. Rec(g)
  <2> DEFINE e == [i \in 0..n |-> IF i = 0 THEN << >> ELSE CleanStep(abs, g[i - 1], path[i])]
  <2>1. ASSUME NEW i \in 0..n PROVE g[i] = e[i]
    <3>1. CASE i = 0
      BY <1>6, <3>1
    <3>2. CASE i # 0
      <4>1. i \in 1..n
        BY <1>1, <3>2
      <4> QED
        BY <1>7, <3>2, <4>1
    <3> QED
      BY <3>1, <3>2
  <2>2. g = [i \in 0..n |-> g[i]]
    BY <1>6
  <2>3. [i \in 0..n |-> g[i]] = [i \in 0..n |-> e[i]]
    BY <2>1
  <2> QED
    BY <2>2, <2>3
<1> HIDE DEF Rec
<1>9. Rec(f)
  BY <1>8
<1> HIDE DEF f
<1>10. /\ f = [i \in 0..n |-> f[i]] /\ f[0] = << >>
       /\ \A i \in 1..n : f[i] = CleanStep(abs, f[i - 1], path[i])
  <2> DEFINE Value(i) == IF i = 0 THEN << >> ELSE CleanStep(abs, f[i - 1], path[i])
  <2>1. f = [i \in 0..n |-> Value(i)]
    BY <1>9 DEF Rec
  <2>2. 0 \in 0..n /\ Value(0) = << >> /\ \A i \in 1..n : i \in 0..n /\ Value(i) = CleanStep(abs, f[i - 1], path[i])
    BY <1>1
  <2> HIDE DEF Value
  <2>3. \A i \in 0..n : f[i] = Value(i)
    BY <2>1
  <2>4. f = [i \in 0..n |-> f[i]]
    BY <2>1
  <2> QED
    BY <2>2, <2>3, <2>4
<1>11. \A i \in 1..n : f[i - 1] \in Seq(N) => f[i] \in Seq(N)
  BY <1>1, <1>10, CleanStepType
<1>12. f \in [0..n -> Seq(N)]
  <2>1. f[0] \in Seq(N)
    BY <1>4, <1>10
  <2> QED
    BY <1>5a, <1>10, <1>11, <2>1, StepsStay
<1>13. CleanRun(abs, N, path, f)
  BY <1>10, <1>12 DEF CleanRun, n
<1> QED
  BY <1>2, <1>13 DEF n

\* A walk is where its run is.
LEMMA WalkRuns ==
    ASSUME NEW N, NEW path \in Seq(N)
    PROVE  \E f : WalkRun(N, path, f) /\ \A i \in 0..Len(path) : Walk(path, i) = f[i]
<1> DEFINE n == Len(path)
           Rec(f) == f = [i \in 0..n |-> IF i = 0 THEN << >> ELSE WalkStep(f[i - 1], path[i])]
           f == CHOOSE f : Rec(f)
           step == [x \in Seq(N) \X (1..n) |-> WalkStep(x[1], path[x[2]])]
<1>1. n \in Nat /\ \A i \in 1..n : path[i] \in N
  BY LenProperties
<1>2. \A i \in 0..n : Walk(path, i) = f[i]
  BY DEF Walk, WalkStep
<1> HIDE DEF n
<1>3. step \in [Seq(N) \X (1..n) -> Seq(N)]
  <2>1. ASSUME NEW x \in Seq(N) \X (1..n) PROVE WalkStep(x[1], path[x[2]]) \in Seq(N)
    <3>1. x[1] \in Seq(N) /\ path[x[2]] \in N
      BY <1>1
    <3> QED
      BY <3>1, WalkStepType
  <2> QED
    BY <2>1
<1>4. << >> \in Seq(N)
  BY EmptySeq
<1>5. \A y \in Seq(N), i \in 1..n : step[<<y, i>>] = WalkStep(y, path[i])
  OBVIOUS
<1> HIDE DEF step
<1>5a. n \in Nat
  BY <1>1
<1>5b. \E g : IsSteps(Seq(N), n, << >>, step, g)
  BY <1>5a, <1>3, <1>4, StepFunction
<1>6. PICK g \in [0..n -> Seq(N)] : g[0] = << >> /\ \A i \in 1..n : g[i] = step[<<g[i - 1], i>>]
  BY <1>5b DEF IsSteps
<1>7. \A i \in 1..n : g[i - 1] \in Seq(N) /\ g[i] = WalkStep(g[i - 1], path[i])
  <2> TAKE i \in 1..n
  <2>1. i - 1 \in 0..n
    BY <1>1
  <2> QED
    BY <1>5, <1>6, <2>1
<1>8. Rec(g)
  <2> DEFINE e == [i \in 0..n |-> IF i = 0 THEN << >> ELSE WalkStep(g[i - 1], path[i])]
  <2>1. ASSUME NEW i \in 0..n PROVE g[i] = e[i]
    <3>1. CASE i = 0
      BY <1>6, <3>1
    <3>2. CASE i # 0
      <4>1. i \in 1..n
        BY <1>1, <3>2
      <4> QED
        BY <1>7, <3>2, <4>1
    <3> QED
      BY <3>1, <3>2
  <2>2. g = [i \in 0..n |-> g[i]]
    BY <1>6
  <2>3. [i \in 0..n |-> g[i]] = [i \in 0..n |-> e[i]]
    BY <2>1
  <2> QED
    BY <2>2, <2>3
<1> HIDE DEF Rec
<1>9. Rec(f)
  BY <1>8
<1> HIDE DEF f
<1>10. /\ f = [i \in 0..n |-> f[i]] /\ f[0] = << >>
       /\ \A i \in 1..n : f[i] = WalkStep(f[i - 1], path[i])
  <2> DEFINE Value(i) == IF i = 0 THEN << >> ELSE WalkStep(f[i - 1], path[i])
  <2>1. f = [i \in 0..n |-> Value(i)]
    BY <1>9 DEF Rec
  <2>2. 0 \in 0..n /\ Value(0) = << >> /\ \A i \in 1..n : i \in 0..n /\ Value(i) = WalkStep(f[i - 1], path[i])
    BY <1>1
  <2> HIDE DEF Value
  <2>3. \A i \in 0..n : f[i] = Value(i)
    BY <2>1
  <2>4. f = [i \in 0..n |-> f[i]]
    BY <2>1
  <2> QED
    BY <2>2, <2>3, <2>4
<1>11. \A i \in 1..n : f[i - 1] \in Seq(N) => f[i] \in Seq(N)
  BY <1>1, <1>10, WalkStepType
<1>12. f \in [0..n -> Seq(N)]
  <2>1. f[0] \in Seq(N)
    BY <1>4, <1>10
  <2> QED
    BY <1>5a, <1>10, <1>11, <2>1, StepsStay
<1>13. WalkRun(N, path, f)
  BY <1>10, <1>12 DEF WalkRun, n
<1> QED
  BY <1>2, <1>13 DEF n

\* A path of names only.
Plain(s) == \A i \in 1..Len(s) : s[i] \notin {"", ".", ".."}

\* The root itself.
LEMMA EmptyIsPlain == Plain(<< >>)
<1> DEFINE e == << >>
<1>1. Len(e) = 0
  OBVIOUS
<1> HIDE DEF e
<1>2. 1..Len(e) = {}
  BY <1>1
<1>3. Plain(e)
  BY <1>2, Zenon DEF Plain
<1> QED
  BY <1>3 DEF e

\* A step of a walk leads to names only.
LEMMA WalkStepPlain ==
    ASSUME NEW N, NEW done \in Seq(N), Plain(done), NEW c \in N
    PROVE  Plain(WalkStep(done, c))
<1>1. CASE c \in {"", "."}
  BY <1>1 DEF WalkStep
<1>2. CASE c = ".."
  <2>1. WalkStep(done, c) = SubSeq(done, 1, Len(done) - 1)
    BY <1>2 DEF WalkStep
  <2>2. CASE done = << >>
    <3>1. SubSeq(done, 1, Len(done) - 1) = << >>
      BY <2>2, EmptySeq, SubSeqEmpty
    <3> QED
      BY <2>1, <3>1, EmptyIsPlain
  <2>3. CASE done # << >>
    <3> DEFINE s == SubSeq(done, 1, Len(done) - 1)
    <3>1. Len(s) = Len(done) - 1 /\ \A i \in 1..(Len(done) - 1) : s[i] = done[i]
      BY <2>3, FrontIs
    <3>2. Len(done) \in Nat
      BY LenProperties
    <3> HIDE DEF s
    <3>3. \A i \in 1..Len(s) : i \in 1..Len(done) /\ s[i] = done[i]
      BY <3>1, <3>2
    <3>4. Plain(s)
      BY <3>3 DEF Plain
    <3> QED
      BY <2>1, <3>4 DEF s
  <2> QED
    BY <2>2, <2>3
<1>3. CASE c \notin {"", ".", ".."}
  <2>1. WalkStep(done, c) = Append(done, c)
    BY <1>3 DEF WalkStep
  <2>2. /\ Len(Append(done, c)) = Len(done) + 1 /\ Len(done) \in Nat
        /\ \A i \in 1..Len(done) : Append(done, c)[i] = done[i]
        /\ Append(done, c)[Len(done) + 1] = c
    BY AppendProperties, LenProperties
  <2>3. ASSUME NEW i \in 1..Len(Append(done, c)) PROVE Append(done, c)[i] \notin {"", ".", ".."}
    <3>1. i \in 1..Len(done) \/ i = Len(done) + 1
      BY <2>2
    <3>2. CASE i \in 1..Len(done)
      BY <2>2, <3>2 DEF Plain
    <3>3. CASE i = Len(done) + 1
      BY <1>3, <2>2, <3>3
    <3> QED
      BY <3>1, <3>2, <3>3
  <2> QED
    BY <2>1, <2>3 DEF Plain
<1> QED
  BY <1>1, <1>2, <1>3

\* So does every walk from its beginning.
LEMMA WalkIsPlain ==
    ASSUME NEW N, NEW path \in Seq(N), NEW w, WalkRun(N, path, w)
    PROVE  \A i \in 0..Len(path) : w[i] \in Seq(N) /\ Plain(w[i])
<1> DEFINE n == Len(path)
           S == {s \in Seq(N) : Plain(s)}
<1>1. n \in Nat /\ \A i \in 1..n : path[i] \in N
  BY LenProperties
<1>2. /\ w \in [0..n -> Seq(N)] /\ w[0] = << >>
      /\ \A i \in 1..n : w[i] = WalkStep(w[i - 1], path[i])
  BY DEF WalkRun
<1> HIDE DEF n
<1>3. w[0] \in S
  BY <1>2, EmptySeq, EmptyIsPlain
<1>4. ASSUME NEW i \in 1..n, w[i - 1] \in S PROVE w[i] \in S
  <2>1. w[i - 1] \in Seq(N) /\ Plain(w[i - 1]) /\ path[i] \in N /\ w[i] = WalkStep(w[i - 1], path[i])
    BY <1>1, <1>2, <1>4
  <2> QED
    BY <2>1, WalkStepType, WalkStepPlain
<1>5. w = [i \in 0..n |-> w[i]] /\ n \in Nat
  BY <1>1, <1>2
<1> HIDE DEF S
<1>6. w \in [0..n -> S]
  BY <1>3, <1>4, <1>5, StepsStay
<1> QED
  BY <1>6 DEF S, n

\* Cleaning is walking, as long as the walk does not leave the root.
LEMMA StepsAgree ==
    ASSUME NEW N, NEW done \in Seq(N), Plain(done), NEW c \in N, NEW abs \in BOOLEAN,
           abs \/ (c = ".." => done # << >>)
    PROVE  CleanStep(abs, done, c) = WalkStep(done, c)
<1>1. CASE c \in {"", "."}
  BY <1>1 DEF CleanStep, WalkStep
<1>2. CASE c = ".."
  <2>1. CASE done = << >>
    <3>1. abs = TRUE
      BY <1>2, <2>1
    <3>2. SubSeq(done, 1, Len(done) - 1) = << >>
      BY <2>1, EmptySeq, SubSeqEmpty
    <3>3. WalkStep(done, c) = << >>
      BY <1>2, <3>2 DEF WalkStep
    <3>4. CleanStep(abs, done, c) = done
      BY <1>2, <2>1, <3>1 DEF CleanStep
    <3> QED
      BY <2>1, <3>3, <3>4
  <2>2. CASE done # << >>
    <3>1. Len(done) \in 1..Len(done)
      BY <2>2, EmptySeq
    <3>2. done[Len(done)] # ".."
      BY <3>1 DEF Plain
    <3> QED
      BY <1>2, <2>2, <3>2 DEF CleanStep, WalkStep
  <2> QED
    BY <2>1, <2>2
<1>3. CASE c \notin {"", ".", ".."}
  BY <1>3 DEF CleanStep, WalkStep
<1> QED
  BY <1>1, <1>2, <1>3

\* A relative path that has left the root does not come back.
LEMMA EscapesStays ==
    ASSUME NEW N, NEW done \in Seq(N), Escapes(done), NEW c \in N
    PROVE  Escapes(CleanStep(FALSE, done, c))
<1>1. Len(done) \in Nat \ {0} /\ done[1] = ".." /\ done # << >>
  BY EmptySeq DEF Escapes
<1>2. Append(done, c) # << >> /\ Append(done, c)[1] = ".."
  <2>1. Len(Append(done, c)) = Len(done) + 1 /\ Append(done, c) \in Seq(N)
        /\ \A i \in 1..Len(done) : Append(done, c)[i] = done[i]
    BY AppendProperties
  <2>2. Len(Append(done, c)) # 0 /\ 1 \in 1..Len(done)
    BY <1>1, <2>1
  <2> QED
    BY <1>1, <2>1, <2>2, EmptySeq
<1>3. CASE c \in {"", "."}
  BY <1>3 DEF CleanStep
<1>4. CASE c = ".." /\ done[Len(done)] = ".."
  BY <1>1, <1>2, <1>4 DEF CleanStep, Escapes
<1>5. CASE c = ".." /\ done[Len(done)] # ".."
  <2> DEFINE s == SubSeq(done, 1, Len(done) - 1)
  <2>1. CleanStep(FALSE, done, c) = s
    BY <1>1, <1>5 DEF CleanStep
  <2>2. s \in Seq(N) /\ Len(s) = Len(done) - 1 /\ \A i \in 1..(Len(done) - 1) : s[i] = done[i]
    BY <1>1, FrontIs
  <2>3. Len(done) # 1
    BY <1>1, <1>5
  <2> HIDE DEF s
  <2>4. s[1] = ".." /\ Len(s) # 0
    BY <1>1, <2>2, <2>3
  <2>5. s # << >>
    BY <2>4, EmptySeq
  <2> QED
    BY <2>1, <2>4, <2>5 DEF Escapes
<1>6. CASE c \notin {"", ".", ".."}
  BY <1>2, <1>6 DEF CleanStep, Escapes
<1> QED
  BY <1>3, <1>4, <1>5, <1>6

\* A climb above the root is kept in a relative path.
LEMMA EscapesBegins ==
    ASSUME NEW N, NEW c \in N, c = ".."
    PROVE  Escapes(CleanStep(FALSE, << >>, c))
<1>1. CleanStep(FALSE, << >>, c) = Append(<< >>, c)
  BY DEF CleanStep
<1>2. Append(<< >>, c) = <<c>> /\ <<c>> # << >> /\ <<c>>[1] = c
  OBVIOUS
<1> HIDE DEF CleanStep
<1> QED
  BY <1>1, <1>2 DEF Escapes

\* Cleaning an absolute path is walking it.
LEMMA CleanAbsolute ==
    ASSUME NEW N, NEW path \in Seq(N)
    PROVE  Clean(TRUE, path) = Walk(path, Len(path))
<1> DEFINE n == Len(path)
<1>1. n \in Nat /\ \A i \in 1..n : path[i] \in N
  BY LenProperties
<1>2. PICK f : CleanRun(TRUE, N, path, f) /\ Clean(TRUE, path) = f[n]
  BY CleanRuns
<1>3. PICK w : WalkRun(N, path, w) /\ \A i \in 0..n : Walk(path, i) = w[i]
  BY WalkRuns
<1>4. \A i \in 0..n : w[i] \in Seq(N) /\ Plain(w[i])
  BY <1>3, WalkIsPlain
<1>5. f[0] = w[0] /\ \A i \in 1..n : f[i] = CleanStep(TRUE, f[i - 1], path[i]) /\ w[i] = WalkStep(w[i - 1], path[i])
  BY <1>2, <1>3 DEF CleanRun, WalkRun
<1> HIDE DEF n
<1> DEFINE T == {i \in 0..n : f[i] = w[i]}
<1>6. 0 \in T
  BY <1>1, <1>5
<1>7. ASSUME NEW i \in 1..n, i - 1 \in T PROVE i \in T
  <2>1. i \in 0..n /\ i - 1 \in 0..n /\ path[i] \in N /\ f[i - 1] = w[i - 1]
    BY <1>1, <1>7
  <2>2. w[i - 1] \in Seq(N) /\ Plain(w[i - 1])
    BY <1>4, <2>1
  <2>3. CleanStep(TRUE, w[i - 1], path[i]) = WalkStep(w[i - 1], path[i])
    BY <2>1, <2>2, StepsAgree
  <2> QED
    BY <1>5, <2>1, <2>3
<1> HIDE DEF T
<1>8. n \in T
  <2>1. n \in Nat /\ \A i \in 1..n : i - 1 \in T => i \in T
    BY <1>1, <1>7
  <2>2. \A i \in 0..n : i \in T
    BY <1>6, <2>1, IndexInduction
  <2> QED
    BY <1>1, <2>2
<1> QED
  BY <1>1, <1>2, <1>3, <1>8 DEF T, n

\* The walk along a path never climbs above the root.
Stays(path) == \A i \in 1..Len(path) : path[i] = ".." => Walk(path, i - 1) # << >>

\* Cleaning a relative path is walking it, or shows that it leaves the root.
LEMMA CleanRelative ==
    ASSUME NEW N, NEW path \in Seq(N)
    PROVE  /\ Stays(path) => Clean(FALSE, path) = Walk(path, Len(path))
           /\ ~Stays(path) => Escapes(Clean(FALSE, path))
<1> DEFINE n == Len(path)
<1>1. n \in Nat /\ \A i \in 1..n : path[i] \in N
  BY LenProperties
<1>2. PICK f : CleanRun(FALSE, N, path, f) /\ Clean(FALSE, path) = f[n]
  BY CleanRuns
<1>3. PICK w : WalkRun(N, path, w) /\ \A i \in 0..n : Walk(path, i) = w[i]
  BY WalkRuns
<1>4. \A i \in 0..n : w[i] \in Seq(N) /\ Plain(w[i])
  BY <1>3, WalkIsPlain
<1>5. /\ f[0] = w[0] /\ f \in [0..n -> Seq(N)]
      /\ \A i \in 1..n : f[i] = CleanStep(FALSE, f[i - 1], path[i]) /\ w[i] = WalkStep(w[i - 1], path[i])
  BY <1>2, <1>3 DEF CleanRun, WalkRun
<1> DEFINE To(i) == \A j \in 1..i : path[j] = ".." => w[j - 1] # << >>
<1>6. Stays(path) <=> To(n)
  <2>1. \A j \in 1..n : Walk(path, j - 1) = w[j - 1]
    BY <1>1, <1>3
  <2> QED
    BY <2>1 DEF Stays
<1> HIDE DEF n
<1> DEFINE T == {i \in 0..n : (To(i) /\ f[i] = w[i]) \/ (~To(i) /\ Escapes(f[i]))}
<1>7. 0 \in T
  BY <1>1, <1>5
<1>8. ASSUME NEW i \in 1..n, i - 1 \in T PROVE i \in T
  <2>1. i \in 0..n /\ i - 1 \in 0..n /\ path[i] \in N
    BY <1>1
  <2>2. w[i - 1] \in Seq(N) /\ Plain(w[i - 1]) /\ f[i - 1] \in Seq(N)
    BY <1>4, <1>5, <2>1
  <2>3. f[i] = CleanStep(FALSE, f[i - 1], path[i]) /\ w[i] = WalkStep(w[i - 1], path[i])
    BY <1>5
  <2>4. To(i) <=> To(i - 1) /\ (path[i] = ".." => w[i - 1] # << >>)
    <3>1. 1..i = (1..(i - 1)) \cup {i}
      BY <1>1
    <3> QED
      BY <3>1
  <2>5. (To(i - 1) /\ f[i - 1] = w[i - 1]) \/ (~To(i - 1) /\ Escapes(f[i - 1]))
    BY <1>8
  <2> HIDE DEF To
  <2>6. CASE ~To(i - 1) /\ Escapes(f[i - 1])
    <3>1. Escapes(f[i]) /\ ~To(i)
      BY <2>1, <2>2, <2>3, <2>4, <2>6, EscapesStays
    <3> QED
      BY <2>1, <3>1
  <2>7. CASE To(i - 1) /\ f[i - 1] = w[i - 1] /\ (path[i] = ".." => w[i - 1] # << >>)
    <3>1. CleanStep(FALSE, w[i - 1], path[i]) = WalkStep(w[i - 1], path[i])
      BY <2>1, <2>2, <2>7, StepsAgree
    <3>2. f[i] = w[i] /\ To(i)
      BY <2>3, <2>4, <2>7, <3>1
    <3> QED
      BY <2>1, <3>2
  <2>8. CASE To(i - 1) /\ f[i - 1] = w[i - 1] /\ path[i] = ".." /\ w[i - 1] = << >>
    <3>1. Escapes(f[i]) /\ ~To(i)
      BY <2>1, <2>3, <2>4, <2>8, EscapesBegins
    <3> QED
      BY <2>1, <3>1
  <2> QED
    BY <2>5, <2>6, <2>7, <2>8
<1> HIDE DEF T
<1>9. n \in T
  <2>1. n \in Nat /\ \A i \in 1..n : i - 1 \in T => i \in T
    BY <1>1, <1>8
  <2>2. \A i \in 0..n : i \in T
    BY <1>7, <2>1, IndexInduction
  <2> QED
    BY <1>1, <2>2
<1>10. (To(n) /\ f[n] = w[n]) \/ (~To(n) /\ Escapes(f[n]))
  BY <1>9 DEF T
<1>11. Walk(path, n) = w[n]
  BY <1>1, <1>3
<1> HIDE DEF To
<1> QED
  BY <1>2, <1>6, <1>10, <1>11 DEF n

\* The beginning of a sequence, element by element.
LEMMA PrefixIs ==
    ASSUME NEW N, NEW p \in Seq(N), NEW k \in 0..Len(p)
    PROVE  /\ SubSeq(p, 1, k) \in Seq(N) /\ Len(SubSeq(p, 1, k)) = k
           /\ \A i \in 1..k : SubSeq(p, 1, k)[i] = p[i]
<1>1. Len(p) \in Nat /\ \A i \in 1..Len(p) : p[i] \in N
  BY LenProperties
<1>2. k \in Int /\ k \in Nat /\ \A i \in 1..k : p[i] \in N
  BY <1>1
<1>3. SubSeq(p, 1, k) \in Seq(N) /\ Len(SubSeq(p, 1, k)) = (IF 1 <= k THEN k - 1 + 1 ELSE 0)
      /\ \A i \in 1..(k - 1 + 1) : SubSeq(p, 1, k)[i] = p[1 + i - 1]
  BY <1>2, SubSeqProperties
<1>4. Len(SubSeq(p, 1, k)) = k /\ k - 1 + 1 = k
  BY <1>2, <1>3
<1>5. ASSUME NEW i \in 1..k PROVE SubSeq(p, 1, k)[i] = p[i]
  <2>1. 1 + i - 1 = i
    BY <1>2
  <2> QED
    BY <1>3, <1>4, <2>1
<1> QED
  BY <1>3, <1>4, <1>5

\* One more name of p behind base.
LEMMA OneMore ==
    ASSUME NEW N, NEW base \in Seq(N), NEW p \in Seq(N), NEW k \in 1..Len(p)
    PROVE  Append(base \o SubSeq(p, 1, k - 1), p[k]) = base \o SubSeq(p, 1, k)
<1> DEFINE a == SubSeq(p, 1, k - 1)
           b == SubSeq(p, 1, k)
           s == Append(base \o a, p[k])
           t == base \o b
           m == Len(base)
<1>1. Len(p) \in Nat /\ p[k] \in N /\ k \in Nat /\ k - 1 \in 0..Len(p) /\ k \in 0..Len(p)
  BY LenProperties
<1>2. m \in Nat
  BY LenProperties
<1>3. a \in Seq(N) /\ Len(a) = k - 1 /\ \A i \in 1..(k - 1) : a[i] = p[i]
  BY <1>1, PrefixIs
<1>4. b \in Seq(N) /\ Len(b) = k /\ \A i \in 1..k : b[i] = p[i]
  BY <1>1, PrefixIs
<1> HIDE DEF a, b
<1>5. /\ base \o a \in Seq(N) /\ Len(base \o a) = m + Len(a)
      /\ \A i \in 1..(m + Len(a)) : (base \o a)[i] = IF i <= m THEN base[i] ELSE a[i - m]
  BY <1>3, ConcatProperties
<1>6. /\ t \in Seq(N) /\ Len(t) = m + Len(b)
      /\ \A i \in 1..(m + Len(b)) : t[i] = IF i <= m THEN base[i] ELSE b[i - m]
  BY <1>4, ConcatProperties
<1>7. /\ s \in Seq(N) /\ Len(s) = Len(base \o a) + 1
      /\ \A i \in 1..Len(base \o a) : s[i] = (base \o a)[i]
      /\ s[Len(base \o a) + 1] = p[k]
  BY <1>1, <1>5, AppendProperties
<1> HIDE DEF s, t, m
<1>8. Len(s) = m + k /\ Len(t) = m + k /\ Len(base \o a) = m + k - 1
  BY <1>1, <1>2, <1>3, <1>4, <1>5, <1>6, <1>7
<1>9. ASSUME NEW i \in 1..(m + k) PROVE s[i] = t[i]
  <2>0. i \in Nat /\ i >= 1 /\ i <= m + k
    BY <1>1, <1>2
  <2>1. CASE i <= m
    <3>1. i \in 1..(m + Len(a)) /\ i \in 1..(m + Len(b)) /\ i \in 1..Len(base \o a)
      BY <1>1, <1>2, <1>3, <1>4, <1>8, <2>0, <2>1
    <3> QED
      BY <1>5, <1>6, <1>7, <2>1, <3>1
  <2>2. CASE i > m /\ i < m + k
    <3>1. i \in 1..(m + Len(a)) /\ i \in 1..(m + Len(b)) /\ i \in 1..Len(base \o a) /\ ~(i <= m)
          /\ i - m \in 1..(k - 1) /\ i - m \in 1..k
      BY <1>1, <1>2, <1>3, <1>4, <1>8, <2>0, <2>2
    <3>2. s[i] = a[i - m] /\ t[i] = b[i - m]
      BY <1>5, <1>6, <1>7, <3>1
    <3> QED
      BY <1>3, <1>4, <3>1, <3>2
  <2>3. CASE i = m + k
    <3>1. i = Len(base \o a) + 1 /\ i \in 1..(m + Len(b)) /\ ~(i <= m) /\ i - m = k /\ k \in 1..k
      BY <1>1, <1>2, <1>4, <1>8, <2>0, <2>3
    <3> QED
      BY <1>4, <1>6, <1>7, <3>1
  <2> QED
    BY <1>1, <1>2, <2>0, <2>1, <2>2, <2>3
<1>10. s = t
  BY <1>6, <1>7, <1>8, <1>9, SeqEqual
<1> QED
  BY <1>10 DEF s, t, a, b

\* A walk goes on with the names of a path of names.
LEMMA WalkOn ==
    ASSUME NEW N, NEW root \in Seq(N), NEW p \in Seq(N), Plain(p)
    PROVE  Walk(root \o p, Len(root \o p)) = Walk(root, Len(root)) \o p
<1> DEFINE path == root \o p
           m == Len(root)
           k == Len(p)
<1>1. m \in Nat /\ k \in Nat /\ \A i \in 1..k : p[i] \in N
  BY LenProperties
<1>2. /\ path \in Seq(N) /\ Len(path) = m + k
      /\ \A i \in 1..(m + k) : path[i] = IF i <= m THEN root[i] ELSE p[i - m]
  BY ConcatProperties
<1> HIDE DEF path
<1>3. PICK w : WalkRun(N, path, w) /\ \A i \in 0..Len(path) : Walk(path, i) = w[i]
  BY <1>2, WalkRuns
<1>4. PICK v : WalkRun(N, root, v) /\ \A i \in 0..m : Walk(root, i) = v[i]
  BY WalkRuns
<1>5. w[0] = << >> /\ \A i \in 1..(m + k) : w[i] = WalkStep(w[i - 1], path[i])
  BY <1>2, <1>3 DEF WalkRun
<1>6. v \in [0..m -> Seq(N)] /\ v[0] = << >> /\ \A i \in 1..m : v[i] = WalkStep(v[i - 1], root[i])
  BY <1>4 DEF WalkRun
<1>7. Walk(path, Len(path)) = w[m + k] /\ Walk(root, m) = v[m] /\ v[m] \in Seq(N)
  BY <1>1, <1>2, <1>3, <1>4, <1>6
<1>k. m = Len(root) /\ k = Len(p)
  OBVIOUS
<1> HIDE DEF m, k
<1> DEFINE T == {i \in 0..m : w[i] = v[i]}
<1>8. m \in T
  <2>1. 0 \in T
    BY <1>1, <1>5, <1>6
  <2>2. ASSUME NEW i \in 1..m, i - 1 \in T PROVE i \in T
    <3>1. i \in 0..m /\ i \in 1..(m + k) /\ w[i - 1] = v[i - 1] /\ i <= m
      BY <1>1, <2>2
    <3>2. path[i] = root[i]
      BY <1>2, <3>1
    <3> QED
      BY <1>5, <1>6, <3>1, <3>2
  <2> HIDE DEF T
  <2>3. m \in Nat /\ \A i \in 1..m : i - 1 \in T => i \in T
    BY <1>1, <2>2
  <2>4. \A i \in 0..m : i \in T
    BY <2>1, <2>3, IndexInduction
  <2> QED
    BY <1>1, <2>4
<1>9. w[m] = v[m]
  BY <1>8
<1> DEFINE U == {i \in 0..k : w[m + i] = v[m] \o SubSeq(p, 1, i)}
<1>10. k \in U
  <2>1. 0 \in U
    <3>1. SubSeq(p, 1, 0) = << >>
      BY SubSeqEmpty
    <3>2. v[m] \o << >> = v[m]
      BY <1>7, ConcatEmptySeq
    <3>3. m + 0 = m /\ 0 \in 0..k
      BY <1>1
    <3>4. w[m + 0] = v[m] \o SubSeq(p, 1, 0)
      BY <1>9, <3>1, <3>2, <3>3
    <3> QED
      BY <3>3, <3>4
  <2>2. ASSUME NEW i \in 1..k, i - 1 \in U PROVE i \in U
    <3>1. i \in 0..k /\ m + i \in 1..(m + k) /\ ~(m + i <= m) /\ (m + i) - m = i /\ (m + i) - 1 = m + (i - 1)
      BY <1>1
    <3>2. path[m + i] = p[i] /\ p[i] \in N /\ p[i] \notin {"", ".", ".."}
      BY <1>1, <1>2, <1>k, <3>1 DEF Plain
    <3>3. w[m + i] = WalkStep(w[m + (i - 1)], p[i])
      BY <1>5, <3>1, <3>2
    <3>4. w[m + (i - 1)] = v[m] \o SubSeq(p, 1, i - 1)
      BY <2>2
    <3>5. w[m + i] = Append(v[m] \o SubSeq(p, 1, i - 1), p[i])
      BY <3>2, <3>3, <3>4 DEF WalkStep
    <3>6. Append(v[m] \o SubSeq(p, 1, i - 1), p[i]) = v[m] \o SubSeq(p, 1, i)
      BY <1>7, <1>k, OneMore
    <3> QED
      BY <3>1, <3>5, <3>6
  <2> HIDE DEF U
  <2>3. k \in Nat /\ \A i \in 1..k : i - 1 \in U => i \in U
    BY <1>1, <2>2
  <2>4. \A i \in 0..k : i \in U
    BY <2>1, <2>3, IndexInduction
  <2> QED
    BY <1>1, <2>4
<1>11. SubSeq(p, 1, k) = p
  <2>1. k \in 0..Len(p) /\ Len(p) = k
    BY <1>1, <1>k
  <2>2. SubSeq(p, 1, k) \in Seq(N) /\ Len(SubSeq(p, 1, k)) = Len(p) /\ \A i \in 1..Len(p) : SubSeq(p, 1, k)[i] = p[i]
    BY <2>1, PrefixIs
  <2> QED
    BY <2>2, SeqEqual
<1> QED
  BY <1>7, <1>10, <1>11 DEF path, m

\* What lies below a path, relative to it.
LEMMA RelOf ==
    ASSUME NEW N, NEW base \in Seq(N), NEW p \in Seq(N)
    PROVE  Rel(base, base \o p) = p
<1> DEFINE t == base \o p
           m == Len(base)
           n == Len(p)
           Common(k) == /\ k <= Len(t) /\ SubSeq(base, 1, k) = SubSeq(t, 1, k)
                        /\ k = m \/ k = Len(t) \/ base[k + 1] # t[k + 1]
           common == CHOOSE k \in 0..m : Common(k)
<1>1. m \in Nat /\ n \in Nat /\ \A i \in 1..n : p[i] \in N
  BY LenProperties
<1>2. /\ t \in Seq(N) /\ Len(t) = m + n
      /\ \A i \in 1..(m + n) : t[i] = IF i <= m THEN base[i] ELSE p[i - m]
  BY ConcatProperties
<1>3. Rel(base, t) = [i \in 1..(m - common) |-> ".."] \o SubSeq(t, common + 1, Len(t))
  BY DEF Rel
<1>k. m = Len(base) /\ n = Len(p)
  OBVIOUS
<1> HIDE DEF t, m, n
<1>4. Common(m)
  <2>1. m \in 0..Len(base) /\ m \in 0..Len(t)
    BY <1>1, <1>2, <1>k
  <2>2. SubSeq(base, 1, m) \in Seq(N) /\ Len(SubSeq(base, 1, m)) = m /\ \A i \in 1..m : SubSeq(base, 1, m)[i] = base[i]
    BY <2>1, PrefixIs
  <2>3. SubSeq(t, 1, m) \in Seq(N) /\ Len(SubSeq(t, 1, m)) = m /\ \A i \in 1..m : SubSeq(t, 1, m)[i] = t[i]
    BY <1>2, <2>1, PrefixIs
  <2>4. \A i \in 1..m : t[i] = base[i]
    BY <1>1, <1>2
  <2>5. SubSeq(base, 1, m) = SubSeq(t, 1, m)
    BY <2>2, <2>3, <2>4, SeqEqual
  <2> QED
    BY <1>1, <1>2, <2>5
<1>5. ASSUME NEW k \in 0..m, Common(k) PROVE k = m
  <2> SUFFICES ASSUME k # m PROVE FALSE
    OBVIOUS
  <2>1. k # Len(t) /\ k + 1 \in 1..(m + n) /\ k + 1 <= m
    BY <1>1, <1>2
  <2>2. base[k + 1] = t[k + 1]
    BY <1>2, <2>1
  <2> QED
    BY <1>5, <2>1, <2>2
<1> HIDE DEF Common
<1>6. common = m
  <2>1. m \in 0..m
    BY <1>1
  <2>2. common \in 0..m /\ Common(common)
    BY <1>4, <2>1
  <2> HIDE DEF common
  <2> QED
    BY <1>5, <2>2
<1> DEFINE dots == [i \in 1..(m - common) |-> ".."]
           rest == SubSeq(t, common + 1, Len(t))
<1>7. dots = << >>
  <2>1. m - common = 0
    <3> HIDE DEF common
    <3> QED
      BY <1>1, <1>6
  <2>2. dots = [i \in 1..0 |-> ".."]
    BY <2>1
  <2> HIDE DEF dots
  <2>3. [i \in 1..0 |-> ".."] = << >>
    OBVIOUS
  <2> QED
    BY <2>2, <2>3
<1>8. rest = SubSeq(t, m + 1, m + n)
  BY <1>2, <1>6
<1> HIDE DEF dots, rest, common
<1>9. rest = p
  <2> DEFINE a == m + 1
             b == m + n
  <2>1. a \in Int /\ b \in Int /\ b - a + 1 = n /\ (a <= b <=> n > 0)
    BY <1>1
  <2>2. \A i \in a..b : t[i] \in N
    <3>1. \A i \in 1..Len(t) : t[i] \in N
      BY <1>2, LenProperties
    <3> QED
      BY <1>1, <1>2, <3>1
  <2>3. a = m + 1 /\ b = m + n
    OBVIOUS
  <2> HIDE DEF a, b
  <2>4. SubSeq(t, a, b) \in Seq(N) /\ Len(SubSeq(t, a, b)) = (IF a <= b THEN b - a + 1 ELSE 0)
        /\ \A i \in 1..(b - a + 1) : SubSeq(t, a, b)[i] = t[a + i - 1]
    BY <2>1, <2>2, SubSeqProperties
  <2>5. Len(SubSeq(t, a, b)) = n
    BY <1>1, <2>1, <2>4
  <2>6. ASSUME NEW i \in 1..n PROVE SubSeq(t, a, b)[i] = p[i]
    <3>1. a + i - 1 = m + i /\ m + i \in 1..(m + n) /\ ~(m + i <= m) /\ (m + i) - m = i
      BY <1>1, <2>3
    <3>2. SubSeq(t, a, b)[i] = t[m + i]
      BY <2>1, <2>4, <3>1
    <3> QED
      BY <1>2, <3>1, <3>2
  <2>7. SubSeq(t, a, b) = p
    BY <1>k, <2>4, <2>5, <2>6, SeqEqual
  <2> QED
    BY <1>8, <2>3, <2>7
<1>10. << >> \o p = p
  BY ConcatEmptySeq
<1> QED
  BY <1>3, <1>7, <1>9, <1>10 DEF t, dots, rest

\* Where a walk ends is a path of names.
LEMMA PlaceIs ==
    ASSUME NEW N, NEW path \in Seq(N)
    PROVE  Walk(path, Len(path)) \in Seq(N) /\ Plain(Walk(path, Len(path)))
<1>1. Len(path) \in 0..Len(path)
  BY LenProperties
<1>2. PICK w : WalkRun(N, path, w) /\ \A i \in 0..Len(path) : Walk(path, i) = w[i]
  BY WalkRuns
<1>3. \A i \in 0..Len(path) : w[i] \in Seq(N) /\ Plain(w[i])
  BY <1>2, WalkIsPlain
<1> QED
  BY <1>1, <1>2, <1>3

\* A path of names is a place.
LEMMA PlainIsPlace ==
    ASSUME NEW N, NEW p \in Seq(N), Plain(p)
    PROVE  Walk(p, Len(p)) = p /\ Stays(p) /\ ~Escapes(p)
<1>1. PICK w : WalkRun(N, << >>, w) /\ \A i \in 0..Len(<< >>) : Walk(<< >>, i) = w[i]
  <2> DEFINE e == << >>
  <2>1. e \in Seq(N)
    BY EmptySeq
  <2> HIDE DEF e
  <2>2. \E w : WalkRun(N, e, w) /\ \A i \in 0..Len(e) : Walk(e, i) = w[i]
    BY <2>1, WalkRuns
  <2> QED
    BY <2>2 DEF e
<1>2. Walk(<< >>, Len(<< >>)) = << >>
  <2>1. Len(<< >>) = 0
    OBVIOUS
  <2>2. 0 \in 0..Len(<< >>)
    BY <2>1
  <2> QED
    BY <1>1, <2>1, <2>2 DEF WalkRun
<1>3. << >> \in Seq(N)
  BY EmptySeq
<1>4. Walk(<< >> \o p, Len(<< >> \o p)) = Walk(<< >>, Len(<< >>)) \o p
  BY <1>3, WalkOn
<1>5. << >> \o p = p
  BY ConcatEmptySeq
<1>6. Walk(p, Len(p)) = p
  BY <1>2, <1>4, <1>5
<1>7. Stays(p)
  BY DEF Stays, Plain
<1>8. ~Escapes(p)
  <2> SUFFICES ASSUME p # << >>, p[1] = ".." PROVE FALSE
    BY DEF Escapes
  <2>1. 1 \in 1..Len(p)
    BY EmptySeq
  <2> QED
    BY <2>1 DEF Plain
<1> QED
  BY <1>6, <1>7, <1>8

\* A path that stays below the root has its place for a result.
LEMMA StayingIsAccepted ==
    ASSUME NEW N, NEW root \in Seq(N), NEW path \in Seq(N), NEW abs \in BOOLEAN,
           abs => path = << >>, Stays(path)
    PROVE  /\ NormalizeProjectPath(root, abs, path) = Accepted(Walk(path, Len(path)))
           /\ ResolvePath(root, abs, path) = Accepted(Clean(TRUE, root) \o Walk(path, Len(path)))
<1> DEFINE base == Walk(root, Len(root))
           q == Walk(path, Len(path))
<1>1. base \in Seq(N) /\ Plain(base) /\ q \in Seq(N) /\ Plain(q)
  BY PlaceIs
<1>2. Clean(TRUE, root) = base
  BY CleanAbsolute
<1>3. Clean(FALSE, path) = q
  BY CleanRelative
<1> HIDE DEF base, q
<1>4. ~Escapes(q) /\ Stays(q) /\ Walk(q, Len(q)) = q /\ Walk(base, Len(base)) = base
  BY <1>1, PlainIsPlace
<1>5. NormalizeRelativePath(abs, path) = Accepted(q)
  BY <1>3, <1>4 DEF NormalizeRelativePath
<1>6. Clean(TRUE, root \o q) = base \o q
  <2>1. root \o q \in Seq(N)
    BY <1>1, ConcatProperties
  <2>2. Walk(root \o q, Len(root \o q)) = base \o q
    BY <1>1, WalkOn DEF base
  <2> QED
    BY <2>1, <2>2, CleanAbsolute
<1>7. Clean(TRUE, base \o q) = base \o q
  <2>1. base \o q \in Seq(N)
    BY <1>1, ConcatProperties
  <2>2. Walk(base \o q, Len(base \o q)) = base \o q
    BY <1>1, <1>4, WalkOn
  <2> QED
    BY <2>1, <2>2, CleanAbsolute
<1>8. Rel(base, base \o q) = q
  BY <1>1, RelOf
<1>9. IsWithinRoot(root, base \o q)
  BY <1>2, <1>4, <1>7, <1>8 DEF IsWithinRoot
<1>10. ResolvePath(root, abs, path) = Accepted(base \o q)
  <2>1. Accepted(q).ok = TRUE /\ Accepted(q).path = q
    BY DEF Accepted
  <2> QED
    BY <1>5, <1>6, <1>9, <2>1 DEF ResolvePath
<1>11. Clean(FALSE, q) = q
  BY <1>1, <1>4, CleanRelative
<1>12. NormalizeRelativePath(FALSE, q) = Accepted(q)
  BY <1>4, <1>11 DEF NormalizeRelativePath
<1>13. NormalizeProjectPath(root, abs, path) = Accepted(q)
  <2>1. Accepted(base \o q).ok = TRUE /\ Accepted(base \o q).path = base \o q
    BY DEF Accepted
  <2> QED
    BY <1>2, <1>8, <1>10, <1>12, <2>1 DEF NormalizeProjectPath
<1> QED
  BY <1>2, <1>10, <1>13 DEF q

\* Every spelling of a place below the root has one form, and no other path is
\* accepted, for every root and every path.
THEOREM PathsAreNormalized ==
    ASSUME NEW N, NEW root \in Seq(N), NEW path \in Seq(N), NEW abs \in BOOLEAN
    PROVE  OneFormPerPlace(root, abs, path)
<1> DEFINE result == NormalizeProjectPath(root, abs, path)
           q == Walk(path, Len(path))
<1>1. CASE (abs => path = << >>) /\ Stays(path)
  <2>1. result = Accepted(q) /\ ResolvePath(root, abs, path) = Accepted(Clean(TRUE, root) \o q)
    BY <1>1, StayingIsAccepted
  <2>2. q \in Seq(N) /\ Plain(q)
    BY PlaceIs
  <2> HIDE DEF result, q
  <2>3. Stays(q) /\ Walk(q, Len(q)) = q
    BY <2>2, PlainIsPlace
  <2>4. NormalizeProjectPath(root, FALSE, q) = Accepted(q)
    BY <2>2, <2>3, StayingIsAccepted
  <2>5. \A r : Accepted(r).ok = TRUE /\ Accepted(r).path = r
    BY DEF Accepted
  <2>6. result.ok /\ result.path = q /\ NormalizeProjectPath(root, FALSE, result.path) = result
        /\ ResolvePath(root, abs, path).path = Clean(TRUE, root) \o result.path
    BY <2>1, <2>4, <2>5
  <2> QED
    BY <1>1, <2>6 DEF OneFormPerPlace, Stays, result, q
<1>2. CASE ~((abs => path = << >>) /\ Stays(path))
  <2>1. NormalizeRelativePath(abs, path) = Rejected
    <3>1. CASE abs /\ path # << >>
      BY <3>1 DEF NormalizeRelativePath
    <3>2. CASE ~(abs /\ path # << >>) /\ ~Stays(path)
      <4>1. Escapes(Clean(FALSE, path))
        BY <3>2, CleanRelative
      <4> QED
        BY <3>2, <4>1 DEF NormalizeRelativePath
    <3> QED
      BY <1>2, <3>1, <3>2
  <2>2. Rejected.ok = FALSE
    BY DEF Rejected
  <2>3. ResolvePath(root, abs, path) = Rejected
    BY <2>1, <2>2 DEF ResolvePath
  <2>4. result = Rejected
    BY <2>2, <2>3 DEF NormalizeProjectPath
  <2> HIDE DEF result, q
  <2> QED
    BY <1>2, <2>2, <2>4 DEF OneFormPerPlace, Stays, result
<1> QED
  BY <1>1, <1>2

\* The paths that the run enumerates are among them.
THEOREM PathsNormalized == Spec => []PathsHaveOneForm
<1> DEFINE N == {"r", "", ".", "..", "s", "x"}
<1>1. ASSUME input \in Inputs(subject), subject = "path" PROVE OneFormPerPlace(Root, input.abs, input.path)
  <2>1. input \in PathInputs
    BY <1>1 DEF Inputs
  <2>2. input.abs \in BOOLEAN /\ input.path \in Seqs({"", ".", "..", "s", "x"}, MaxComponents)
    BY <2>1 DEF PathInputs
  <2>3. PICK k \in 0..MaxComponents : input.path \in [1..k -> {"", ".", "..", "s", "x"}]
    BY <2>2 DEF Seqs
  <2>4. input.path \in [1..k -> N]
    BY <2>3
  <2>5. Root \in Seq(N)
    BY DEF Root
  <2> HIDE DEF N
  <2>6. k \in Nat
    OBVIOUS
  <2>7. input.path \in Seq(N)
    BY <2>4, <2>6
  <2> QED
    BY <2>2, <2>5, <2>7, PathsAreNormalized
<1>2. input \in Inputs(subject) => PathsHaveOneForm
  BY <1>1 DEF PathsHaveOneForm
<1> QED
  BY <1>2, InputStays, PTL

-----------------------------------------------------------------------------
(* Join bundles *)

\* Normalising a bundle twice is normalising it once.
LEMMA NormalizedStays ==
    ASSUME NEW b
    PROVE  Normalized(Normalized(b)) = Normalized(b) /\ (Valid(Normalized(b)) <=> Valid(b))
<1> DEFINE n == Normalized(b)
           mode == IF Blank(NormalizeSlug(b.mode)) THEN StaticMode ELSE NormalizeSlug(b.mode)
<1>1. /\ n.serverID = TrimSpace(b.serverID) /\ n.group = TrimSpace(b.group)
      /\ n.host = TrimSpace(b.host) /\ n.port = b.port /\ n.useTLS = b.useTLS
      /\ n.secret = TrimSpace(b.secret) /\ n.provider = NormalizeSlug(b.provider) /\ n.mode = mode
      /\ n.tlsName = TrimSpace(b.tlsName)
  BY DEF Normalized
<1>2. \A t : TrimSpace(TrimSpace(t)) = TrimSpace(t) /\ NormalizeSlug(NormalizeSlug(t)) = NormalizeSlug(t)
  BY DEF TrimSpace, NormalizeSlug, Text
<1>3. NormalizeSlug(StaticMode) = StaticMode /\ ~Blank(StaticMode)
  BY DEF NormalizeSlug, StaticMode, Text, Blank
<1>4. NormalizeSlug(mode) = mode /\ ~Blank(mode)
  BY <1>2, <1>3
<1> HIDE DEF mode
<1>5. Normalized(n) =
        [serverID |-> TrimSpace(b.serverID), group |-> TrimSpace(b.group), host |-> TrimSpace(b.host),
         port |-> b.port, useTLS |-> b.useTLS, secret |-> TrimSpace(b.secret),
         provider |-> NormalizeSlug(b.provider), mode |-> mode, tlsName |-> TrimSpace(b.tlsName)]
  <2> HIDE DEF n
  <2> QED
    BY <1>1, <1>2, <1>4 DEF Normalized
<1>6. Normalized(n) = n
  BY <1>5 DEF Normalized, mode
<1> QED
  BY <1>6 DEF Valid

\* An issued bundle is normalised and valid, and the import reads it as it is.
LEMMA IssuedIs ==
    ASSUME NEW x, NEW cp, cp = NormalizeControlPlaneConfig(x), IssueJoinBundle(x).ok
    PROVE  LET b == Normalized(cp) IN
           /\ IssueJoinBundle(x) = [ok |-> TRUE, bundle |-> b]
           /\ MarshalJSONFile(b) = [ok |-> TRUE, bundle |-> b]
           /\ ~Blank(cp.host)
<1> DEFINE b == Normalized(cp)
<1>1. Normalized(b) = b /\ (Valid(b) <=> Valid(cp))
  BY NormalizedStays
<1>2. IssueJoinBundle(x) = IF Blank(cp.provider) \/ Blank(cp.host) \/ cp.port = 0 THEN NoBundle
                           ELSE MarshalJSONFile(b)
  BY DEF IssueJoinBundle
<1> HIDE DEF b
<1>3. ~NoBundle.ok
  BY DEF NoBundle
<1>4. ~Blank(cp.host) /\ IssueJoinBundle(x) = MarshalJSONFile(b)
  BY <1>2, <1>3
<1>5. MarshalJSONFile(b) = [ok |-> TRUE, bundle |-> b]
  BY <1>1, <1>3, <1>4 DEF MarshalJSONFile
<1> QED
  BY <1>4, <1>5 DEF b

\* A text of a configuration, which may be blank or padded.
Texts(W) == [says : W, padded : BOOLEAN]
BundleConfigs(W) ==
    [addr : [ok : BOOLEAN, host : W, port : Nat], host : Texts(W), port : Nat,
     tls : BOOLEAN, hasCert : BOOLEAN, useTLS : BOOLEAN, auth : BOOLEAN, secret : Texts(W),
     serverID : Texts(W), group : Texts(W), provider : Texts(W), mode : Texts(W), tlsName : Texts(W)]

\* The name in a bundle of the command line is the certificate's, unless the
\* server listens on a name that is not.
LEMMA LocalNameIs ==
    ASSUME NEW W, NEW cfg \in BundleConfigs(W), cfg.addr.ok \/ cfg.addr.host = ""
    PROVE  /\ ~Blank(LocalTLSServerName(cfg))
           /\ LocalTLSServerName(cfg).says \in CertificateNames
                <=> cfg.addr.host \in CertificateNames \cup {"", "any", "ip"}
BY DEF LocalTLSServerName, CertificateNames, Text, Blank, BundleConfigs

\* A device that imports what a server issues gets in exactly if the operator has
\* seen to TLS and to the names of the certificate, for all texts, addresses and
\* ports (IssueJoinBundle, decodeConnectionCode, probeServer, Bundle.Normalize).
THEOREM IssuedBundlesConnect ==
    ASSUME NEW W, NEW cfg \in BundleConfigs(W), cfg.addr.ok \/ (cfg.addr.host = "" /\ cfg.addr.port = 0),
           NEW local \in BOOLEAN
    PROVE  IssuedBundleConnects(cfg, local)
<1> DEFINE cp0 == BuildControlPlaneConfig(cfg)
           x == IF local THEN [cp0 EXCEPT !.tlsName = IF cp0.useTLS /\ Blank(@) THEN LocalTLSServerName(cfg) ELSE @]
                ELSE cp0
           cp == NormalizeControlPlaneConfig(x)
           b == Normalized(cp)
           issued == IF local THEN IssueLocalJoinBundle(cfg) ELSE IssueJoinBundle(BuildControlPlaneConfig(cfg))
           imported == DecodeConnectionCode(issued, "ca")
           dial == ProbeServer(imported.bundle, "ca")
           useTLS == cfg.useTLS \/ cfg.tls
           secret == IF cfg.auth THEN cfg.secret.says ELSE ""
           listen == ParseServiceDiscoveryAddress(cfg.addr)
           host == IF Blank(cfg.host) THEN listen.host ELSE cfg.host
           port == IF cfg.port = 0 THEN listen.port ELSE cfg.port
           name == IF local /\ useTLS /\ Blank(cfg.tlsName) THEN LocalTLSServerName(cfg) ELSE cfg.tlsName
<1>0. cfg.tls \in BOOLEAN /\ cfg.useTLS \in BOOLEAN /\ cfg.auth \in BOOLEAN /\ cfg.addr.ok \in BOOLEAN
  BY DEF BundleConfigs
<1>1. issued = IssueJoinBundle(x)
  BY DEF IssueLocalJoinBundle
<1>2. /\ x.host = host /\ x.port = port /\ x.useTLS = useTLS /\ x.tlsName = name
      /\ x.secret = IF cfg.auth THEN TrimSpace(cfg.secret) ELSE Text("")
  <2>1. /\ cp0.host = host /\ cp0.port = port /\ cp0.useTLS = useTLS /\ cp0.tlsName = cfg.tlsName
        /\ cp0.secret = IF cfg.auth THEN TrimSpace(cfg.secret) ELSE Text("")
    BY DEF BuildControlPlaneConfig
  <2>2. /\ x.host = cp0.host /\ x.port = cp0.port /\ x.useTLS = cp0.useTLS /\ x.secret = cp0.secret
        /\ x.tlsName = IF local /\ cp0.useTLS /\ Blank(cp0.tlsName) THEN LocalTLSServerName(cfg) ELSE cp0.tlsName
    BY DEF BuildControlPlaneConfig
  <2> HIDE DEF x, cp0, useTLS, host, port
  <2> QED
    BY <2>1, <2>2
<1>3. /\ cp.host = TrimSpace(x.host) /\ cp.port = x.port /\ cp.useTLS = x.useTLS
      /\ cp.secret = TrimSpace(x.secret) /\ cp.tlsName = TrimSpace(x.tlsName)
  BY DEF NormalizeControlPlaneConfig, BuildControlPlaneConfig
<1> HIDE DEF x, cp0
<1>4. \A t : TrimSpace(t) = Text(t.says) /\ TrimSpace(t).says = t.says
  BY DEF TrimSpace, Text
<1>5. /\ b.host = Text(host.says) /\ b.port = port /\ b.useTLS = useTLS
      /\ b.secret = Text(secret) /\ b.tlsName = Text(name.says)
  <2>1. /\ b.host = TrimSpace(cp.host) /\ b.port = cp.port /\ b.useTLS = cp.useTLS
        /\ b.secret = TrimSpace(cp.secret) /\ b.tlsName = TrimSpace(cp.tlsName)
    BY DEF Normalized
  <2>2. x.secret.says = secret
    BY <1>2, <1>4 DEF Text
  <2> HIDE DEF b, cp, host, port, useTLS, secret, name
  <2> QED
    BY <1>2, <1>3, <1>4, <2>1, <2>2
<1>6. name.says = IF local /\ useTLS /\ Blank(cfg.tlsName) THEN LocalTLSServerName(cfg).says ELSE cfg.tlsName.says
  OBVIOUS
<1> SUFFICES ASSUME CanServe(cfg), issued.ok
             PROVE  /\ imported = issued /\ dial.ok
                    /\ dial.host = Text(IF Blank(cfg.host) THEN cfg.addr.host ELSE cfg.host.says)
                    /\ dial.port = IF cfg.port = 0 THEN cfg.addr.port ELSE cfg.port
                    /\ Admits(cfg, dial) <=> ServerSpeaksTLS(cfg) /\ (cfg.tls => CertificateCovers(cfg, local))
                    /\ ~dial.options.tls /\ ~Blank(dial.options.secret) =>
                          ~Blank(cfg.host) \/ dial.host.says \in LoopbackHosts
                    /\ dial.options.tls => ~DecodeConnectionCode(issued, "").ok
  BY DEF IssuedBundleConnects
<1>7. /\ issued = [ok |-> TRUE, bundle |-> b] /\ MarshalJSONFile(b) = [ok |-> TRUE, bundle |-> b]
      /\ ~Blank(cp.host)
  <2>1. cp = NormalizeControlPlaneConfig(x)
    OBVIOUS
  <2>2. IssueJoinBundle(x).ok
    BY <1>1
  <2> HIDE DEF cp, issued
  <2> QED
    BY <1>1, <2>1, <2>2, IssuedIs
<1>8. host.says # ""
  <2> HIDE DEF host, cp
  <2> QED
    BY <1>2, <1>3, <1>4, <1>7 DEF Blank
<1>9. host.says = (IF Blank(cfg.host) THEN cfg.addr.host ELSE cfg.host.says)
      /\ port = (IF cfg.port = 0 THEN cfg.addr.port ELSE cfg.port)
  <2>1. listen.host.says \in {"", cfg.addr.host} /\ listen.port = cfg.addr.port
    BY <1>0 DEF ParseServiceDiscoveryAddress, Text
  <2> HIDE DEF listen
  <2> QED
    BY <1>8, <2>1
<1> HIDE DEF b, cp, issued, host, port, listen
<1>10. issued.ok /\ issued.bundle = b
  BY <1>7
<1>11. \A ca : DecodeConnectionCode(issued, ca) = IF b.useTLS /\ ca = "" THEN NoBundle ELSE [ok |-> TRUE, bundle |-> b]
  BY <1>7, <1>10 DEF DecodeConnectionCode
<1>12. imported = issued /\ imported.bundle = b
  BY <1>7, <1>10, <1>11
<1>13. useTLS => ~DecodeConnectionCode(issued, "").ok
  <2>1. useTLS => DecodeConnectionCode(issued, "") = NoBundle
    BY <1>5, <1>11
  <2>2. ~NoBundle.ok
    BY DEF NoBundle
  <2> QED
    BY <2>1, <2>2
<1> HIDE DEF imported, name, secret
<1>14. /\ dial.ok /\ dial.host = Text(host.says) /\ dial.port = port
       /\ dial.options.tls = useTLS /\ dial.options.secret = Text(secret)
       /\ useTLS => dial.options.root = "ca" /\ dial.options.serverName = Text(name.says)
  <2>1. Text(name.says).says = name.says /\ Text(secret).says = secret /\ Text(host.says).says = host.says
    BY DEF Text
  <2> DEFINE opts == [tls |-> b.useTLS, root |-> IF b.useTLS THEN "ca" ELSE "",
                      serverName |-> IF b.useTLS THEN TrimSpace(b.tlsName) ELSE Text(""),
                      secret |-> TrimSpace(b.secret)]
  <2>2. ~(opts.tls /\ opts.root = "")
    OBVIOUS
  <2>3. BuildDialOptions(opts) = [ok |-> TRUE, tls |-> opts.tls, root |-> opts.root,
                                  serverName |-> opts.serverName, secret |-> opts.secret]
    BY <2>2 DEF BuildDialOptions
  <2>4. dial = [ok |-> ~(b.useTLS /\ "ca" = "") /\ BuildDialOptions(opts).ok,
                host |-> TrimSpace(b.host), port |-> b.port, options |-> BuildDialOptions(opts)]
    BY <1>12 DEF ProbeServer
  <2>5. /\ opts.tls = b.useTLS /\ opts.secret = TrimSpace(b.secret)
        /\ b.useTLS => opts.root = "ca" /\ opts.serverName = TrimSpace(b.tlsName)
    OBVIOUS
  <2> DEFINE options == BuildDialOptions(opts)
  <2>7. ~(b.useTLS /\ "ca" = "")
    OBVIOUS
  <2> HIDE DEF dial, opts
  <2>8. /\ options.ok = TRUE /\ options.tls = opts.tls /\ options.root = opts.root
        /\ options.serverName = opts.serverName /\ options.secret = opts.secret
    <3> DEFINE tls == opts.tls
               root == opts.root
               serverName == opts.serverName
               sent == opts.secret
    <3>1. options = [ok |-> TRUE, tls |-> tls, root |-> root, serverName |-> serverName, secret |-> sent]
      BY <2>3
    <3> HIDE DEF options, tls, root, serverName, sent
    <3>2. /\ options.ok = TRUE /\ options.tls = tls /\ options.root = root
          /\ options.serverName = serverName /\ options.secret = sent
      BY <3>1
    <3> QED
      BY <3>2 DEF tls, root, serverName, sent
  <2> HIDE DEF options
  <2>9. dial.ok = (~(b.useTLS /\ "ca" = "") /\ options.ok)
    BY <2>4 DEF options
  <2>10. dial.host = TrimSpace(b.host) /\ dial.port = b.port /\ dial.options = options
    BY <2>4 DEF options
  <2>6. /\ dial.ok /\ dial.host = TrimSpace(b.host) /\ dial.port = b.port /\ dial.options.tls = b.useTLS
        /\ dial.options.secret = TrimSpace(b.secret)
        /\ b.useTLS => dial.options.root = "ca" /\ dial.options.serverName = TrimSpace(b.tlsName)
    BY <2>5, <2>7, <2>8, <2>9, <2>10
  <2> QED
    BY <1>4, <1>5, <2>1, <2>6
<1> HIDE DEF dial
<1>15. cfg.auth => dial.options.secret = TrimSpace(cfg.secret)
  BY <1>4, <1>14 DEF secret
<1>16. \A t : (\E n \in CertificateNames : Text(t) = Text(n)) <=> t \in CertificateNames
  <2>1. \A t : Text(t).says = t
    BY DEF Text
  <2> QED
    BY <2>1
<1>17. ASSUME cfg.tls
       PROVE  (\E n \in CertificateNames : VerifiedName(dial) = Text(n)) <=> CertificateCovers(cfg, local)
  <2>1. useTLS /\ dial.options.serverName = Text(name.says) /\ Text(name.says).says = name.says
    BY <1>14, <1>17 DEF Text
  <2>2. VerifiedName(dial) = Text(IF name.says = "" THEN host.says ELSE name.says)
    BY <1>14, <2>1 DEF VerifiedName, Blank
  <2> DEFINE verified == IF name.says = "" THEN host.says ELSE name.says
  <2>3. (\E n \in CertificateNames : VerifiedName(dial) = Text(n)) <=> verified \in CertificateNames
    BY <1>16, <2>2
  <2>4. name.says = IF local /\ cfg.tlsName.says = "" THEN LocalTLSServerName(cfg).says ELSE cfg.tlsName.says
    BY <1>6, <2>1 DEF Blank
  <2>5. /\ LocalTLSServerName(cfg).says # ""
        /\ LocalTLSServerName(cfg).says \in CertificateNames
              <=> cfg.addr.host \in CertificateNames \cup {"", "any", "ip"}
    BY LocalNameIs DEF Blank
  <2>6. verified \in CertificateNames <=> CertificateCovers(cfg, local)
    BY <1>9, <2>4, <2>5 DEF CertificateCovers, Blank
  <2> QED
    BY <2>3, <2>6
<1>18. Admits(cfg, dial) <=> ServerSpeaksTLS(cfg) /\ (cfg.tls => CertificateCovers(cfg, local))
  BY <1>0, <1>14, <1>15, <1>17 DEF Admits, ServerSpeaksTLS
<1>19. ~useTLS /\ secret # "" => ~Blank(cfg.host) \/ host.says \in LoopbackHosts
  BY <1>9 DEF CanServe, BindingAllowed, secret
<1>20. ~dial.options.tls /\ ~Blank(dial.options.secret) => ~Blank(cfg.host) \/ dial.host.says \in LoopbackHosts
  <2>1. \A t : Text(t).says = t
    BY DEF Text
  <2>2. dial.options.secret.says = secret /\ dial.host.says = host.says
    BY <1>14, <2>1
  <2> QED
    BY <1>14, <1>19, <2>2 DEF Blank
<1> QED
  BY <1>9, <1>12, <1>13, <1>14, <1>18, <1>20

\* The configurations that MCAlgorithms enumerates are among them.
LEMMA EnumeratedConfigs ==
    \E W : \A cfg \in BundleInputs :
        cfg \in BundleConfigs(W) /\ (cfg.addr.ok \/ (cfg.addr.host = "" /\ cfg.addr.port = 0))
<1> DEFINE W == Hosts \cup {"", "secret", "team", "id", "p", "dns"}
<1>1. Hosts \subseteq W /\ "" \in W /\ "secret" \in W /\ "team" \in W /\ "id" \in W /\ "p" \in W /\ "dns" \in W
      /\ "name" \in W /\ "loopback" \in W /\ "host" \in W
  BY DEF Hosts
<1> HIDE DEF W
<1>2. ASSUME NEW a \in Addresses
      PROVE  a \in [ok : BOOLEAN, host : W, port : Nat] /\ (a.ok \/ (a.host = "" /\ a.port = 0))
  <2>1. CASE a = [ok |-> FALSE, host |-> "", port |-> 0]
    BY <1>1, <2>1
  <2>2. CASE a \in [ok : {TRUE}, host : Hosts \cup {""}, port : {1}]
    <3> DEFINE H == Hosts
    <3>h. H \subseteq W
      BY <1>1
    <3> HIDE DEF H
    <3>a. {TRUE} \subseteq BOOLEAN
      OBVIOUS
    <3>b. {1} \subseteq Nat
      OBVIOUS
    <3>c. H \cup {""} \subseteq W
      BY <1>1, <3>h
    <3>1. {TRUE} \subseteq BOOLEAN /\ {1} \subseteq Nat /\ H \cup {""} \subseteq W
      BY <3>a, <3>b, <3>c
    <3> QED
      BY <2>2, <3>1 DEF H
  <2> QED
    BY <2>1, <2>2 DEF Addresses
<1>3. ASSUME NEW S, S \subseteq W PROVE Words(S) \subseteq Texts(W)
  <2>1. \A w \in W, f \in BOOLEAN : [says |-> w, padded |-> f] \in Texts(W)
    BY DEF Texts
  <2>2. Text("") \in Texts(W)
    BY <1>1, <2>1 DEF Text
  <2>3. [says : S, padded : {TRUE}] \subseteq Texts(W)
    BY <1>3 DEF Texts
  <2> HIDE DEF Texts, Text
  <2> QED
    BY <2>2, <2>3 DEF Words
<1>4. ASSUME NEW cfg \in BundleInputs
      PROVE  cfg \in BundleConfigs(W) /\ (cfg.addr.ok \/ (cfg.addr.host = "" /\ cfg.addr.port = 0))
  <2> DEFINE A == Addresses
             H == Words({"", "name", "loopback"})
             S == Words({"secret"})
             I == Words({"id"})
             G == Words({"team"})
             V == Words({"p"})
             D == Words({"dns"})
             E == Words({"name", "host"})
             P == {0, 2}
             B == BOOLEAN
             N == Nat
             A2 == [ok : BOOLEAN, host : W, port : Nat]
             T2 == Texts(W)
  <2>1. cfg \in [addr : A, host : H, port : P, tls : B, hasCert : B, useTLS : B, auth : B,
                 secret : S, serverID : I, group : G, provider : V, mode : D, tlsName : E]
    BY DEF BundleInputs
  <2>2. A \subseteq A2 /\ H \subseteq T2 /\ S \subseteq T2 /\ I \subseteq T2 /\ G \subseteq T2
        /\ V \subseteq T2 /\ D \subseteq T2 /\ E \subseteq T2
    <3>1. {"", "name", "loopback"} \subseteq W /\ {"secret"} \subseteq W /\ {"id"} \subseteq W /\ {"team"} \subseteq W
          /\ {"p"} \subseteq W /\ {"dns"} \subseteq W /\ {"name", "host"} \subseteq W
      BY <1>1
    <3>2. A \subseteq A2
      BY <1>2
    <3> QED
      BY <1>3, <3>1, <3>2
  <2>3. P \subseteq N
    OBVIOUS
  <2> HIDE DEF A, H, S, I, G, V, D, E, P, B, N, A2, T2
  <2>4. cfg \in [addr : A2, host : T2, port : N, tls : B, hasCert : B, useTLS : B, auth : B,
                 secret : T2, serverID : T2, group : T2, provider : T2, mode : T2, tlsName : T2]
    BY <2>1, <2>2, <2>3
  <2>5. cfg.addr \in A
    BY <2>1
  <2> QED
    BY <1>2, <2>4, <2>5 DEF BundleConfigs, A2, T2, B, N, A
<1> QED
  BY <1>4

\* The same of the configurations that the run enumerates.
THEOREM BundlesReach == Spec => []BundlesConnect
<1>1. ASSUME input \in Inputs(subject), subject = "bundle" PROVE IssuedBundleConnects(input.cfg, input.local)
  <2>1. input \in [cfg : BundleInputs, local : BOOLEAN]
    BY <1>1 DEF Inputs
  <2>2. input.cfg \in BundleInputs /\ input.local \in BOOLEAN
    BY <2>1
  <2>3. PICK W : \A cfg \in BundleInputs :
           cfg \in BundleConfigs(W) /\ (cfg.addr.ok \/ (cfg.addr.host = "" /\ cfg.addr.port = 0))
    BY EnumeratedConfigs
  <2> QED
    BY <2>2, <2>3, IssuedBundlesConnect
<1>2. input \in Inputs(subject) => BundlesConnect
  BY <1>1 DEF BundlesConnect
<1> QED
  BY <1>2, InputStays, PTL

-----------------------------------------------------------------------------
(* Configurations                                                          *)

\* normalizeList: a value is added if it is not blank and no value before it
\* has its key.
ListStep(l, out, i) ==
    IF l[i].key # "" /\ \A j \in 1..(i - 1) : l[j].key # l[i].key THEN Append(out, l[i]) ELSE out

\* The list as it grows.
ListRun(S, l, f) ==
    f \in [0..Len(l) -> S] /\ f[0] = << >> /\ \A i \in 1..Len(l) : f[i] = ListStep(l, f[i - 1], i)

LEMMA ListRuns ==
    ASSUME NEW I, NEW l \in Seq(I)
    PROVE  \E f : ListRun(Seq(I), l, f) /\ NormalizeList(l) = f[Len(l)]
<1> DEFINE n == Len(l)
           Rec(f) == f = [i \in 0..n |-> IF i = 0 THEN << >> ELSE ListStep(l, f[i - 1], i)]
           f == CHOOSE f : Rec(f)
           S == Seq(I)
           step == [x \in S \X (1..n) |-> ListStep(l, x[1], x[2])]
<1>1. n \in Nat
  BY LenProperties
<1>2. NormalizeList(l) = f[n]
  BY DEF NormalizeList, ListStep
<1>a. \A i \in 1..n : l[i] \in I
  BY ElementOfSeq
<1> HIDE DEF n
<1>3. \A y \in S, i \in 1..n : ListStep(l, y, i) \in S
  BY <1>a, AppendProperties DEF ListStep
<1> HIDE DEF S
<1>4. << >> \in S
  BY EmptySeq DEF S
<1>5. step \in [S \X (1..n) -> S] /\ \A y \in S, i \in 1..n : step[<<y, i>>] = ListStep(l, y, i)
  BY <1>3
<1> HIDE DEF step
<1>6. \E g : IsSteps(S, n, << >>, step, g)
  BY <1>1, <1>4, <1>5, StepFunction
<1>7. PICK g \in [0..n -> S] : g[0] = << >> /\ \A i \in 1..n : g[i] = step[<<g[i - 1], i>>]
  BY <1>6 DEF IsSteps
<1>8. \A i \in 1..n : g[i - 1] \in S /\ g[i] = ListStep(l, g[i - 1], i)
  <2> TAKE i \in 1..n
  <2>1. i - 1 \in 0..n
    BY <1>1
  <2> QED
    BY <1>5, <1>7, <2>1
<1>9. Rec(g)
  <2> DEFINE e == [i \in 0..n |-> IF i = 0 THEN << >> ELSE ListStep(l, g[i - 1], i)]
  <2>1. ASSUME NEW i \in 0..n PROVE g[i] = e[i]
    <3>1. CASE i = 0
      BY <1>7, <3>1
    <3>2. CASE i # 0
      <4>1. i \in 1..n
        BY <1>1, <3>2
      <4> QED
        BY <1>8, <3>2, <4>1
    <3> QED
      BY <3>1, <3>2
  <2>2. g = [i \in 0..n |-> g[i]]
    BY <1>7
  <2>3. [i \in 0..n |-> g[i]] = [i \in 0..n |-> e[i]]
    BY <2>1
  <2> QED
    BY <2>2, <2>3
<1> HIDE DEF Rec
<1>10. Rec(f)
  BY <1>9
<1> HIDE DEF f
<1>11. /\ f = [i \in 0..n |-> f[i]] /\ f[0] = << >>
       /\ \A i \in 1..n : f[i] = ListStep(l, f[i - 1], i)
  <2> DEFINE Value(i) == IF i = 0 THEN << >> ELSE ListStep(l, f[i - 1], i)
  <2>1. f = [i \in 0..n |-> Value(i)]
    BY <1>10 DEF Rec
  <2>2. 0 \in 0..n /\ Value(0) = << >> /\ \A i \in 1..n : i \in 0..n /\ Value(i) = ListStep(l, f[i - 1], i)
    BY <1>1
  <2> HIDE DEF Value
  <2>3. \A i \in 0..n : f[i] = Value(i)
    BY <2>1
  <2>4. f = [i \in 0..n |-> f[i]]
    BY <2>1
  <2> QED
    BY <2>2, <2>3, <2>4
<1>12. \A i \in 1..n : f[i - 1] \in S => f[i] \in S
  BY <1>3, <1>11 DEF S
<1>13. f[0] \in S
  BY <1>4, <1>11
<1>14. f \in [0..n -> S]
  BY <1>1, <1>11, <1>12, <1>13, StepsStay
<1>15. ListRun(Seq(I), l, f)
  BY <1>11, <1>14 DEF ListRun, n, S
<1> QED
  BY <1>2, <1>15 DEF n

\* A list without blank and double values.
PlainList(l) ==
    \A i \in 1..Len(l) : l[i].key # "" /\ \A j \in 1..(i - 1) : l[j].key # l[i].key

\* Such a list of the keys that are among the first i of l.
PlainPart(l, s, i) ==
    PlainList(s) /\ \A a \in 1..Len(s) : \E j \in 1..i : s[a].key = l[j].key

LEMMA ListStepPlain ==
    ASSUME NEW I, NEW l \in Seq(I), NEW i \in 1..Len(l), NEW g \in Seq(I), PlainPart(l, g, i - 1)
    PROVE  PlainPart(l, ListStep(l, g, i), i)
<1>1. Len(l) \in Nat /\ i \in Nat /\ i - 1 \in Nat /\ l[i] \in I /\ Len(g) \in Nat
  BY LenProperties, ElementOfSeq
<1>2. /\ \A a \in 1..Len(g) : g[a].key # ""
      /\ \A a \in 1..Len(g) : \A b \in 1..(a - 1) : g[b].key # g[a].key
  BY DEF PlainPart, PlainList
<1>3. \A a \in 1..Len(g) : \E j \in 1..(i - 1) : g[a].key = l[j].key
  BY DEF PlainPart
<1>4. \A j \in 1..(i - 1) : j \in 1..i
  BY <1>1
<1>5. \A a \in 1..Len(g) : \E j \in 1..i : g[a].key = l[j].key
  BY <1>3, <1>4
<1>6. CASE ~(l[i].key # "" /\ \A j \in 1..(i - 1) : l[j].key # l[i].key)
  <2>1. ListStep(l, g, i) = g
    BY <1>6 DEF ListStep
  <2> QED
    BY <1>5, <2>1 DEF PlainPart
<1>7. CASE l[i].key # "" /\ \A j \in 1..(i - 1) : l[j].key # l[i].key
  <2> DEFINE h == Append(g, l[i])
  <2>1. ListStep(l, g, i) = h
    BY <1>7 DEF ListStep
  <2>2. Len(h) = Len(g) + 1 /\ h[Len(g) + 1] = l[i] /\ \A a \in 1..Len(g) : h[a] = g[a]
    BY <1>1, AppendProperties
  <2> HIDE DEF h
  <2>3. \A a \in 1..Len(g) : g[a].key # l[i].key
    <3> TAKE a \in 1..Len(g)
    <3>1. PICK j \in 1..(i - 1) : g[a].key = l[j].key
      BY <1>3
    <3> QED
      BY <1>7, <3>1
  <2>4. ASSUME NEW a \in 1..Len(h), NEW b \in 1..(a - 1) PROVE h[b].key # h[a].key
    <3>1. b \in 1..Len(g) /\ h[b] = g[b]
      BY <1>1, <2>2
    <3>2. CASE a \in 1..Len(g)
      BY <1>2, <2>2, <3>1, <3>2
    <3>3. CASE a = Len(g) + 1
      BY <2>2, <2>3, <3>1, <3>3
    <3> QED
      BY <1>1, <2>2, <3>2, <3>3
  <2>5. ASSUME NEW a \in 1..Len(h) PROVE h[a].key # "" /\ \E j \in 1..i : h[a].key = l[j].key
    <3>1. CASE a \in 1..Len(g)
      <4>1. h[a] = g[a]
        BY <2>2, <3>1
      <4>2. PICK j \in 1..i : g[a].key = l[j].key
        BY <1>5, <3>1
      <4>3. g[a].key # ""
        BY <1>2, <3>1
      <4> QED
        BY <4>1, <4>2, <4>3
    <3>2. CASE a = Len(g) + 1
      <4>1. h[a] = l[i] /\ i \in 1..i
        BY <1>1, <2>2, <3>2
      <4> QED
        BY <1>7, <4>1
    <3>3. a \in 1..Len(g) \/ a = Len(g) + 1
      BY <1>1, <2>2
    <3> QED
      BY <3>1, <3>2, <3>3
  <2>6. PlainList(h)
    BY <2>4, <2>5 DEF PlainList
  <2> QED
    BY <2>1, <2>5, <2>6 DEF PlainPart
<1> QED
  BY <1>6, <1>7

\* normalizeList makes a list without blank and double values,
LEMMA ListIsPlain ==
    ASSUME NEW I, NEW l \in Seq(I)
    PROVE  NormalizeList(l) \in Seq(I) /\ PlainList(NormalizeList(l))
<1>1. PICK f : ListRun(Seq(I), l, f) /\ NormalizeList(l) = f[Len(l)]
  BY ListRuns
<1> DEFINE n == Len(l)
           T == {i \in 0..n : PlainPart(l, f[i], i)}
<1>2. n \in Nat
  BY LenProperties
<1>3. f \in [0..n -> Seq(I)] /\ f[0] = << >> /\ \A i \in 1..n : f[i] = ListStep(l, f[i - 1], i)
  BY <1>1 DEF ListRun
<1>4. PlainPart(l, << >>, 0)
  <2>1. 1..Len(<< >>) = {}
    BY EmptySeq
  <2> QED
    BY <2>1 DEF PlainPart, PlainList
<1>5. ASSUME NEW i \in 1..n, PlainPart(l, f[i - 1], i - 1) PROVE PlainPart(l, f[i], i)
  <2>1. i - 1 \in 0..n
    BY <1>2
  <2>2. f[i - 1] \in Seq(I) /\ f[i] = ListStep(l, f[i - 1], i)
    BY <1>3, <2>1
  <2> QED
    BY <1>5, <2>2, ListStepPlain
<1> HIDE DEF n
<1>6. 0 \in T /\ \A i \in 1..n : i - 1 \in T => i \in T
  BY <1>2, <1>3, <1>4, <1>5
<1> HIDE DEF T
<1>7. \A i \in 0..n : i \in T
  BY <1>2, <1>6, IndexInduction
<1>8. n \in 0..n /\ PlainPart(l, f[n], n)
  BY <1>2, <1>7 DEF T
<1>9. NormalizeList(l) = f[n]
  BY <1>1 DEF n
<1> QED
  BY <1>3, <1>8, <1>9 DEF PlainPart

\* and leaves such a list as it is.
LEMMA PlainListStays ==
    ASSUME NEW I, NEW l \in Seq(I), PlainList(l)
    PROVE  NormalizeList(l) = l
<1>1. PICK f : ListRun(Seq(I), l, f) /\ NormalizeList(l) = f[Len(l)]
  BY ListRuns
<1> DEFINE n == Len(l)
           T == {i \in 0..n : Len(f[i]) = i /\ \A a \in 1..i : f[i][a] = l[a]}
<1>2. n \in Nat /\ \A i \in 1..n : l[i] \in I
  BY LenProperties, ElementOfSeq
<1>3. f \in [0..n -> Seq(I)] /\ f[0] = << >> /\ \A i \in 1..n : f[i] = ListStep(l, f[i - 1], i)
  BY <1>1 DEF ListRun
<1>4. \A i \in 1..n : f[i] = Append(f[i - 1], l[i])
  BY <1>3 DEF PlainList, ListStep
<1> HIDE DEF n
<1>5. 0 \in T
  BY <1>2, <1>3, EmptySeq
<1>6. ASSUME NEW i \in 1..n, i - 1 \in T PROVE i \in T
  <2> DEFINE g == f[i - 1]
             h == Append(g, l[i])
  <2>1. i \in 0..n /\ i - 1 \in 0..n /\ i \in Nat
    BY <1>2
  <2>2. g \in Seq(I) /\ l[i] \in I /\ Len(g) = i - 1 /\ \A a \in 1..(i - 1) : g[a] = l[a]
    BY <1>2, <1>3, <1>6, <2>1
  <2> HIDE DEF g
  <2>3. Len(h) = Len(g) + 1 /\ h[Len(g) + 1] = l[i] /\ \A a \in 1..Len(g) : h[a] = g[a]
    BY <2>2, AppendProperties
  <2>4. f[i] = h
    BY <1>4 DEF g
  <2> HIDE DEF h
  <2>5. ASSUME NEW a \in 1..i PROVE h[a] = l[a]
    <3>1. a \in 1..(i - 1) \/ a = i
      BY <2>1
    <3> QED
      BY <2>1, <2>2, <2>3, <3>1
  <2> QED
    BY <2>1, <2>2, <2>3, <2>4, <2>5
<1> HIDE DEF T
<1>7. \A i \in 0..n : i \in T
  BY <1>2, <1>5, <1>6, IndexInduction
<1>8. f[n] \in Seq(I) /\ Len(f[n]) = n /\ \A a \in 1..n : f[n][a] = l[a]
  BY <1>2, <1>3, <1>7 DEF T
<1>9. f[n] = l
  BY <1>8, SeqEqual DEF n
<1> QED
  BY <1>1, <1>9 DEF n

\* Sequences whose values are in S.
LEMMA MoreValues ==
    ASSUME NEW S, NEW R, S \subseteq R, NEW l \in Seq(S)
    PROVE  l \in Seq(R)
BY LenProperties, ElementOfSeq, SeqDef

\* The list of a configuration.
ListOf(l) == IF NormalizeList(l) = << >> THEN DefaultList ELSE NormalizeList(l)

LEMMA ListOfTwice ==
    ASSUME NEW I, DefaultList \in Seq(I), NEW l \in Seq(I)
    PROVE  ListOf(l) \in Seq(I) /\ ListOf(ListOf(l)) = ListOf(l)
<1>1. NormalizeList(l) \in Seq(I) /\ PlainList(NormalizeList(l))
  BY ListIsPlain
<1>2. PlainList(DefaultList)
  BY ListAssumption DEF PlainList
<1>3. NormalizeList(NormalizeList(l)) = NormalizeList(l) /\ NormalizeList(DefaultList) = DefaultList
  BY <1>1, <1>2, PlainListStays
<1> QED
  BY <1>1, <1>3 DEF ListOf

\* Components of paths, those of the default ones among them.
DefaultNames == {"", ".", "runtime", "pid", "logs", "db", "certs", "cert", "key", "backups"}

\* Every path has a default, and it is not blank.
LEMMA DefaultPaths ==
    ASSUME NEW N, DefaultNames \subseteq N
    PROVE  /\ DefaultPath \in [PathFields -> Seq(N)]
           /\ \A f \in PathFields : DefaultPath[f] # << >>
<1>1. ASSUME NEW x \in N PROVE <<x>> \in Seq(N) /\ <<x>> # << >>
  OBVIOUS
<1>2. ASSUME NEW x \in N, NEW y \in N PROVE <<x, y>> \in Seq(N) /\ <<x, y>> # << >>
  OBVIOUS
<1>3. /\ "runtime" \in N /\ "pid" \in N /\ "logs" \in N /\ "db" \in N
      /\ "certs" \in N /\ "cert" \in N /\ "key" \in N /\ "backups" \in N
  BY DEF DefaultNames
<1>4. /\ DefaultPath["stateDir"] = <<"runtime">> /\ DefaultPath["pidFile"] = <<"runtime", "pid">>
      /\ DefaultPath["logDir"] = <<"runtime", "logs">> /\ DefaultPath["dbPath"] = <<"db">>
      /\ DefaultPath["certPath"] = <<"certs", "cert">> /\ DefaultPath["keyPath"] = <<"certs", "key">>
      /\ DefaultPath["backupDir"] = <<"backups">> /\ DefaultPath["logFilesDir"] = <<"runtime", "logs">>
  BY DEF DefaultPath
<1>5. ASSUME NEW f \in PathFields
      PROVE  (\E x \in N : DefaultPath[f] = <<x>>) \/ (\E x \in N, y \in N : DefaultPath[f] = <<x, y>>)
  BY <1>3, <1>4, Zenon DEF PathFields
<1>6. \A f \in PathFields : DefaultPath[f] \in Seq(N) /\ DefaultPath[f] # << >>
  BY <1>1, <1>2, <1>5
<1>7. DefaultPath = [f \in PathFields |-> DefaultPath[f]]
  BY DEF DefaultPath, PathFields
<1> QED
  BY <1>6, <1>7

\* What path.Clean returns is a path.
LEMMA CleanPathType ==
    ASSUME NEW N, DefaultNames \subseteq N, NEW path \in Seq(N)
    PROVE  CleanPath(path) \in Seq(N)
<1> DEFINE absolute == path[1] = ""
           names == Clean(absolute, path)
<1>1. names \in Seq(N)
  <2>1. PICK f : CleanRun(absolute, N, path, f) /\ names = f[Len(path)]
    BY CleanRuns
  <2> HIDE DEF absolute, names
  <2>2. f \in [0..Len(path) -> Seq(N)]
    BY <2>1 DEF CleanRun
  <2>3. Len(path) \in 0..Len(path)
    BY LenProperties
  <2> QED
    BY <2>1, <2>2, <2>3
<1>2. CleanPath(path) \in {<<"", "">>, <<"">> \o names, <<".">>, names}
  BY DEF CleanPath
<1> HIDE DEF names
<1>3. "" \in N /\ "." \in N
  BY DEF DefaultNames
<1>4. ASSUME NEW a \in N, NEW b \in N PROVE <<a>> \in Seq(N) /\ <<a, b>> \in Seq(N)
  OBVIOUS
<1>5. <<"">> \o names \in Seq(N)
  BY <1>1, <1>3, <1>4, ConcatProperties
<1> QED
  BY <1>1, <1>2, <1>3, <1>4, <1>5

LEMMA TrimType ==
    ASSUME NEW N, NEW path \in Seq(N), path # << >>
    PROVE  TrimDotSlash(path) \in Seq(N) /\ TrimDotSlash(path) # << >>
<1>1. CASE Len(path) > 1 /\ path[1] = "."
  <2> DEFINE t == Tail(path)
  <2>1. t \in Seq(N) /\ Len(t) = Len(path) - 1 /\ Len(path) \in Nat
    BY HeadTailProperties, LenProperties
  <2>2. TrimDotSlash(path) = t
    BY <1>1 DEF TrimDotSlash
  <2> HIDE DEF t
  <2>3. Len(t) # 0
    BY <1>1, <2>1
  <2> QED
    BY <2>1, <2>2, <2>3, EmptySeq
<1>2. CASE ~(Len(path) > 1 /\ path[1] = ".")
  BY <1>2 DEF TrimDotSlash
<1> QED
  BY <1>1, <1>2

LEMMA JoinType ==
    ASSUME NEW N, DefaultNames \subseteq N, NEW base \in Seq(N), NEW name \in Seq(N), name # << >>
    PROVE  JoinConfigPath(base, name) \in Seq(N)
<1>1. CASE base = << >>
  BY <1>1 DEF JoinConfigPath
<1>2. CASE base # << >>
  <2>1. TrimDotSlash(base) \in Seq(N) /\ TrimDotSlash(name) \in Seq(N)
    BY <1>2, TrimType
  <2>2. TrimDotSlash(base) \o TrimDotSlash(name) \in Seq(N)
    BY <2>1, ConcatProperties
  <2> QED
    BY <1>2, <2>2, CleanPathType DEF JoinConfigPath
<1> QED
  BY <1>1, <1>2

\* A path that was moved below the data root is not moved again.
LEMMA RelocateTwice ==
    ASSUME NEW N, DefaultNames \subseteq N, NEW root \in Seq(N), NEW f \in PathFields, NEW v \in Seq(N)
    PROVE  Relocate(root, f, v) \in Seq(N) /\ Relocate(root, f, Relocate(root, f, v)) = Relocate(root, f, v)
<1> DEFINE r == JoinConfigPath(root, DefaultPath[f])
<1>1. r \in Seq(N)
  BY DefaultPaths, JoinType
<1>2. \A w : Relocate(root, f, w) =
                IF w = << >> \/ (root # << >> /\ SameConfigPath(w, DefaultPath[f])) THEN r ELSE w
  BY DEF Relocate
<1> HIDE DEF r
<1> QED
  BY <1>1, <1>2

-----------------------------------------------------------------------------
(* The settings of a configuration, one by one                             *)

Configs(N, I) ==
    [paths : [PathFields -> Seq(N)], dataRoot : Seq(N), number : Int, limit : Int,
     enabled : BOOLEAN, copies : Int, list : Seq(I)]

DataPaths == {"dbPath", "certPath", "keyPath", "backupDir"}

\* Two configurations with the same settings are the same.
LEMMA SameConfig ==
    ASSUME NEW N, NEW I, NEW c \in Configs(N, I), NEW d \in Configs(N, I),
           \A p \in PathFields : c.paths[p] = d.paths[p],
           c.dataRoot = d.dataRoot, c.number = d.number, c.limit = d.limit,
           c.enabled = d.enabled, c.copies = d.copies, c.list = d.list
    PROVE  c = d
<1>1. c.paths = d.paths
  BY DEF Configs
<1> QED
  BY <1>1 DEF Configs

\* What normalize makes of the paths.
NormalPaths(c, n) ==
    /\ n["stateDir"] = Relocate(c.dataRoot, "stateDir", c.paths["stateDir"])
    /\ n["pidFile"] = Follow("pidFile", c.paths["pidFile"], JoinConfigPath(n["stateDir"], <<"pid">>))
    /\ n["logDir"] = Follow("logDir", c.paths["logDir"], JoinConfigPath(n["stateDir"], <<"logs">>))
    /\ \A f \in DataPaths : n[f] = Relocate(c.dataRoot, f, c.paths[f])
    /\ n["logFilesDir"] = Follow("logFilesDir", c.paths["logFilesDir"], n["logDir"])

\* What it makes of the rest.
NormalSettings(c, n) ==
    /\ n.dataRoot = c.dataRoot /\ n.enabled = c.enabled
    /\ n.number = IF c.number <= 0 THEN DefaultNumber ELSE c.number
    /\ n.limit = IF c.limit < 0 THEN 0 ELSE c.limit
    /\ n.copies = IF c.copies > 0 THEN c.copies ELSE IF c.enabled THEN DefaultCopies ELSE 0
    /\ n.list = ListOf(c.list)

LEMMA NormalizeIs ==
    ASSUME NEW N, NEW I, DefaultNames \subseteq N, DefaultList \in Seq(I), NEW c \in Configs(N, I)
    PROVE  /\ Normalize(c) \in Configs(N, I)
           /\ NormalPaths(c, Normalize(c).paths) /\ NormalSettings(c, Normalize(c))
<1> DEFINE a == NormalizeRuntime(c)
           b == NormalizeStoragePaths(a)
           n == NormalizeSettings(b)
           state == Relocate(c.dataRoot, "stateDir", c.paths["stateDir"])
           pid == Follow("pidFile", c.paths["pidFile"], JoinConfigPath(state, <<"pid">>))
           logs == Follow("logDir", c.paths["logDir"], JoinConfigPath(state, <<"logs">>))
<1>1. /\ c.paths \in [PathFields -> Seq(N)] /\ c.dataRoot \in Seq(N)
      /\ DOMAIN c = {"paths", "dataRoot", "number", "limit", "enabled", "copies", "list"}
  BY DEF Configs
<1>2. DefaultPath \in [PathFields -> Seq(N)]
  BY DefaultPaths
<1>a. \A f \in PathFields : c.paths[f] \in Seq(N)
  BY <1>1
<1>b. \A f \in PathFields : Relocate(c.dataRoot, f, c.paths[f]) \in Seq(N)
  BY <1>1, <1>a, RelocateTwice
<1>3. state \in Seq(N)
  BY <1>b DEF PathFields
<1>4. JoinConfigPath(state, <<"pid">>) \in Seq(N) /\ JoinConfigPath(state, <<"logs">>) \in Seq(N)
  <2>1. "pid" \in N /\ "logs" \in N
    BY DEF DefaultNames
  <2>2. ASSUME NEW e \in N PROVE <<e>> \in Seq(N) /\ <<e>> # << >>
    OBVIOUS
  <2> HIDE DEF state
  <2>3. ASSUME NEW e \in N PROVE JoinConfigPath(state, <<e>>) \in Seq(N)
    BY <1>3, <2>2, JoinType
  <2> QED
    BY <2>1, <2>3
<1> HIDE DEF state
<1>5. pid \in Seq(N) /\ logs \in Seq(N)
  BY <1>1, <1>4 DEF Follow, PathFields
<1>6. a = [c EXCEPT !.paths = [[[c.paths EXCEPT !["stateDir"] = state] EXCEPT !["pidFile"] = pid] EXCEPT !["logDir"] = logs]]
  BY <1>1 DEF NormalizeRuntime, PathFields, state
<1> HIDE DEF a, pid, logs
<1>7. /\ a \in Configs(N, I) /\ a.dataRoot = c.dataRoot /\ a.number = c.number /\ a.limit = c.limit
      /\ a.enabled = c.enabled /\ a.copies = c.copies /\ a.list = c.list
      /\ a.paths = [[[c.paths EXCEPT !["stateDir"] = state] EXCEPT !["pidFile"] = pid] EXCEPT !["logDir"] = logs]
  BY <1>1, <1>3, <1>5, <1>6 DEF Configs
<1>8. /\ a.paths["stateDir"] = state /\ a.paths["pidFile"] = pid /\ a.paths["logDir"] = logs
      /\ \A f \in DataPaths \cup {"logFilesDir"} : a.paths[f] = c.paths[f]
      /\ a.paths \in [PathFields -> Seq(N)]
  <2>1. DOMAIN c.paths = PathFields
    BY <1>1
  <2>2. /\ a.paths["stateDir"] = state /\ a.paths["pidFile"] = pid /\ a.paths["logDir"] = logs
    BY <1>7, <2>1 DEF PathFields
  <2>3. \A f \in PathFields \ {"stateDir", "pidFile", "logDir"} : a.paths[f] = c.paths[f]
    BY <1>7, <2>1
  <2>4. \A f \in DataPaths \cup {"logFilesDir"} : f \in PathFields \ {"stateDir", "pidFile", "logDir"}
    BY DEF PathFields, DataPaths
  <2>5. a.paths \in [PathFields -> Seq(N)]
    BY <1>7 DEF Configs
  <2> QED
    BY <2>2, <2>3, <2>4, <2>5
<1> DEFINE q == [f \in PathFields |->
                    CASE f \in {"dbPath", "certPath", "keyPath", "backupDir"} -> Relocate(a.dataRoot, f, a.paths[f])
                      [] f = "logFilesDir" -> Follow(f, a.paths[f], a.paths["logDir"])
                      [] f \in {"stateDir", "pidFile", "logDir"} -> a.paths[f]]
<1>9. b = [a EXCEPT !.paths = q]
  BY <1>7 DEF NormalizeStoragePaths, Configs
<1>10. /\ q["stateDir"] = state /\ q["pidFile"] = pid /\ q["logDir"] = logs
       /\ \A f \in DataPaths : q[f] = Relocate(c.dataRoot, f, c.paths[f])
       /\ q["logFilesDir"] = Follow("logFilesDir", c.paths["logFilesDir"], logs)
       /\ q = [f \in PathFields |-> q[f]]
  BY <1>7, <1>8 DEF PathFields, DataPaths
<1> HIDE DEF b, q
<1>11. \A f \in DataPaths : q[f] \in Seq(N)
  BY <1>b, <1>10 DEF PathFields, DataPaths
<1>12. q \in [PathFields -> Seq(N)]
  <2>1. q["logFilesDir"] \in Seq(N)
    BY <1>1, <1>5, <1>10 DEF PathFields, Follow
  <2>2. \A f \in PathFields : q[f] \in Seq(N)
    BY <1>3, <1>5, <1>10, <1>11, <2>1 DEF PathFields, DataPaths
  <2> QED
    BY <1>10, <2>2
<1>13. /\ b \in Configs(N, I) /\ b.dataRoot = c.dataRoot /\ b.number = c.number /\ b.limit = c.limit
       /\ b.enabled = c.enabled /\ b.copies = c.copies /\ b.list = c.list /\ b.paths = q
  BY <1>7, <1>9, <1>12 DEF Configs
<1>14. ListOf(b.list) \in Seq(I)
  BY <1>13, ListOfTwice DEF Configs
<1>15. n = [[[[b EXCEPT !.number = IF b.number <= 0 THEN DefaultNumber ELSE b.number]
                 EXCEPT !.limit = IF b.limit < 0 THEN 0 ELSE b.limit]
                 EXCEPT !.copies = IF b.copies > 0 THEN b.copies ELSE IF b.enabled THEN DefaultCopies ELSE 0]
                 EXCEPT !.list = ListOf(b.list)]
  BY <1>13 DEF NormalizeSettings, ListOf, Configs
<1> HIDE DEF n
<1>16. n \in Configs(N, I) /\ n.paths = q /\ NormalSettings(c, n)
  <2> DEFINE number == IF b.number <= 0 THEN DefaultNumber ELSE b.number
             limit == IF b.limit < 0 THEN 0 ELSE b.limit
             copies == IF b.copies > 0 THEN b.copies ELSE IF b.enabled THEN DefaultCopies ELSE 0
             list == ListOf(b.list)
  <2>1. b.number \in Int /\ b.limit \in Int /\ b.copies \in Int
    BY <1>13 DEF Configs
  <2>2. number \in Int /\ limit \in Int /\ copies \in Int /\ list \in Seq(I)
    BY <1>14, <2>1, ConfigAssumption
  <2>3. n = [[[[b EXCEPT !.number = number] EXCEPT !.limit = limit] EXCEPT !.copies = copies] EXCEPT !.list = list]
    BY <1>15
  <2>4. NormalSettings(c, [dataRoot |-> b.dataRoot, enabled |-> b.enabled, number |-> number,
                           limit |-> limit, copies |-> copies, list |-> list])
    BY <1>13 DEF NormalSettings
  <2> HIDE DEF number, limit, copies, list
  <2>5. /\ n \in Configs(N, I) /\ n.paths = b.paths /\ n.dataRoot = b.dataRoot /\ n.enabled = b.enabled
        /\ n.number = number /\ n.limit = limit /\ n.copies = copies /\ n.list = list
    BY <1>13, <2>2, <2>3 DEF Configs
  <2> QED
    BY <1>13, <2>4, <2>5 DEF NormalSettings
<1>17. NormalPaths(c, n.paths)
  BY <1>10, <1>16 DEF NormalPaths, state, pid, logs
<1>18. Normalize(c) = n
  BY DEF Normalize, n, b, a
<1> QED
  BY <1>16, <1>17, <1>18

\* Settings of a file or of the environment, of which each may be absent.
SettingFields == {"number", "limit", "enabled", "copies", "list"}
PathLike == PathFields \cup {"dataRoot"}
IsSettings(set, N, I) ==
    /\ DOMAIN set \subseteq PathLike \cup SettingFields
    /\ \A f \in PathLike : f \in DOMAIN set => set[f] \in Seq(N)
    /\ \A f \in {"number", "limit", "copies"} : f \in DOMAIN set => set[f] \in Int
    /\ "enabled" \in DOMAIN set => set["enabled"] \in BOOLEAN
    /\ "list" \in DOMAIN set => set["list"] \in Seq(I)

\* Those that are present are in d, the others are those of c.
Overridden(c, set, d) ==
    /\ \A p \in PathFields : d.paths[p] = IF p \in DOMAIN set THEN set[p] ELSE c.paths[p]
    /\ d.dataRoot = IF "dataRoot" \in DOMAIN set THEN set["dataRoot"] ELSE c.dataRoot
    /\ d.number = IF "number" \in DOMAIN set THEN set["number"] ELSE c.number
    /\ d.limit = IF "limit" \in DOMAIN set THEN set["limit"] ELSE c.limit
    /\ d.enabled = IF "enabled" \in DOMAIN set THEN set["enabled"] ELSE c.enabled
    /\ d.copies = IF "copies" \in DOMAIN set THEN set["copies"] ELSE c.copies
    /\ d.list = IF "list" \in DOMAIN set THEN set["list"] ELSE c.list

LEMMA OverrideIs ==
    ASSUME NEW N, NEW I, NEW c \in Configs(N, I), NEW set, IsSettings(set, N, I)
    PROVE  Override(c, set) \in Configs(N, I) /\ Overridden(c, set, Override(c, set))
<1> DEFINE d == Override(c, set)
           paths == [p \in PathFields |-> IF p \in DOMAIN set THEN set[p] ELSE c.paths[p]]
           Value(f) == IF f \in DOMAIN set THEN set[f] ELSE c[f]
           e == [paths |-> paths, dataRoot |-> Value("dataRoot"), number |-> Value("number"), limit |-> Value("limit"),
                 enabled |-> Value("enabled"), copies |-> Value("copies"), list |-> Value("list")]
<1>1. /\ c.paths \in [PathFields -> Seq(N)] /\ c.dataRoot \in Seq(N) /\ c.number \in Int /\ c.limit \in Int
      /\ c.enabled \in BOOLEAN /\ c.copies \in Int /\ c.list \in Seq(I)
      /\ DOMAIN c = {"paths", "dataRoot", "number", "limit", "enabled", "copies", "list"}
  BY DEF Configs
<1>2. \A p \in PathFields : paths[p] \in Seq(N)
  BY <1>1 DEF IsSettings, PathLike
<1>3. paths \in [PathFields -> Seq(N)]
  BY <1>2
<1>4. /\ Value("dataRoot") \in Seq(N) /\ Value("number") \in Int /\ Value("limit") \in Int
      /\ Value("copies") \in Int
  BY <1>1 DEF IsSettings, PathLike
<1>5. Value("enabled") \in BOOLEAN /\ Value("list") \in Seq(I)
  BY <1>1 DEF IsSettings
<1>6. d = [f \in DOMAIN c |-> IF f = "paths" THEN paths ELSE Value(f)]
  BY DEF Override
<1>7. \A p \in PathFields : paths[p] = IF p \in DOMAIN set THEN set[p] ELSE c.paths[p]
  OBVIOUS
<1> HIDE DEF d, paths
<1>8. d = e
  <2> HIDE DEF Value
  <2> QED
    BY <1>1, <1>6
<1>9. e \in Configs(N, I)
  <2> HIDE DEF Value
  <2> QED
    BY <1>3, <1>4, <1>5 DEF Configs
<1>10. Overridden(c, set, e)
  BY <1>7 DEF Overridden
<1> QED
  BY <1>8, <1>9, <1>10 DEF d

\* The environment overrides what it sets to something that is not blank.
ByEnvironment(c, env, d) ==
    /\ \A p \in PathFields : d.paths[p] = IF p \in DOMAIN env /\ env[p] # << >> THEN env[p] ELSE c.paths[p]
    /\ d.dataRoot = IF "dataRoot" \in DOMAIN env /\ env["dataRoot"] # << >> THEN env["dataRoot"] ELSE c.dataRoot
    /\ d.number = IF "number" \in DOMAIN env THEN env["number"] ELSE c.number
    /\ d.limit = IF "limit" \in DOMAIN env THEN env["limit"] ELSE c.limit
    /\ d.enabled = IF "enabled" \in DOMAIN env THEN env["enabled"] ELSE c.enabled
    /\ d.copies = IF "copies" \in DOMAIN env THEN env["copies"] ELSE c.copies
    /\ d.list = IF "list" \in DOMAIN env THEN NormalizeList(env["list"]) ELSE c.list

Environment(c, env) == EnvControlPlaneAndCleanup(EnvServer(c, env), env)

LEMMA EnvironmentIs ==
    ASSUME NEW N, NEW I, NEW c \in Configs(N, I), NEW env, IsSettings(env, N, I)
    PROVE  Environment(c, env) \in Configs(N, I) /\ ByEnvironment(c, env, Environment(c, env))
<1> DEFINE server == PathLike \ {"logFilesDir"}
           first == {g \in DOMAIN env \cap server : env[g] # << >>}
           second == {f \in DOMAIN env \ server : f = "logFilesDir" => env[f] # << >>}
           one == [f \in first |-> env[f]]
           two == [f \in second |-> IF f = "list" THEN NormalizeList(env[f]) ELSE env[f]]
           a == Override(c, one)
           b == Override(a, two)
<1>1. server = (PathFields \ {"logFilesDir"}) \cup {"dataRoot"}
  BY DEF PathLike, PathFields
<1>2. Environment(c, env) = b
  BY <1>1 DEF Environment, EnvServer, EnvControlPlaneAndCleanup
<1>3. "list" \in DOMAIN env => NormalizeList(env["list"]) \in Seq(I)
  BY ListIsPlain DEF IsSettings
<1>4. DOMAIN one = first /\ \A f \in first : one[f] = env[f]
  OBVIOUS
<1>5. DOMAIN two = second /\ \A f \in second : two[f] = IF f = "list" THEN NormalizeList(env[f]) ELSE env[f]
  OBVIOUS
<1> HIDE DEF one, two
<1>6. IsSettings(one, N, I)
  BY <1>4 DEF IsSettings, PathLike, SettingFields, PathFields
<1>7. IsSettings(two, N, I)
  BY <1>3, <1>5 DEF IsSettings, PathLike, SettingFields, PathFields
<1>8. a \in Configs(N, I) /\ Overridden(c, one, a)
  BY <1>6, OverrideIs
<1>9. b \in Configs(N, I) /\ Overridden(a, two, b)
  BY <1>7, <1>8, OverrideIs
<1> HIDE DEF a, b
<1>10. ByEnvironment(c, env, b)
  <2>1. \A p \in PathFields : b.paths[p] = IF p \in DOMAIN env /\ env[p] # << >> THEN env[p] ELSE c.paths[p]
    <3> TAKE p \in PathFields
    <3>1. /\ a.paths[p] = IF p \in first THEN env[p] ELSE c.paths[p]
          /\ b.paths[p] = IF p \in second THEN two[p] ELSE a.paths[p]
      BY <1>4, <1>5, <1>8, <1>9 DEF Overridden
    <3>2. p \in second => two[p] = env[p]
      BY <1>5 DEF PathFields
    <3>3. CASE p = "logFilesDir"
      BY <3>1, <3>2, <3>3
    <3>4. CASE p # "logFilesDir"
      BY <3>1, <3>2, <3>4 DEF PathLike
    <3> QED
      BY <3>3, <3>4
  <2>2. b.dataRoot = IF "dataRoot" \in DOMAIN env /\ env["dataRoot"] # << >> THEN env["dataRoot"] ELSE c.dataRoot
    BY <1>4, <1>5, <1>8, <1>9 DEF Overridden, PathLike, PathFields
  <2>3. \A f \in SettingFields : f \notin first /\ (f \in second <=> f \in DOMAIN env)
    BY DEF SettingFields, PathLike, PathFields
  <2>4. \A f \in SettingFields : f \in DOMAIN env => two[f] = IF f = "list" THEN NormalizeList(env[f]) ELSE env[f]
    BY <1>5, <2>3
  <2>5. /\ a.number = c.number /\ a.limit = c.limit /\ a.enabled = c.enabled /\ a.copies = c.copies /\ a.list = c.list
    BY <1>4, <1>8, <2>3 DEF Overridden, SettingFields
  <2>6. /\ b.number = IF "number" \in DOMAIN env THEN env["number"] ELSE c.number
        /\ b.limit = IF "limit" \in DOMAIN env THEN env["limit"] ELSE c.limit
        /\ b.enabled = IF "enabled" \in DOMAIN env THEN env["enabled"] ELSE c.enabled
        /\ b.copies = IF "copies" \in DOMAIN env THEN env["copies"] ELSE c.copies
        /\ b.list = IF "list" \in DOMAIN env THEN NormalizeList(env["list"]) ELSE c.list
    BY <1>5, <1>9, <2>3, <2>4, <2>5 DEF Overridden, SettingFields
  <2> QED
    BY <2>1, <2>2, <2>6 DEF ByEnvironment
<1> QED
  BY <1>2, <1>9, <1>10

-----------------------------------------------------------------------------
(* Loading what was saved                                                  *)

\* Normalising again what was normalised, in whole or in part, changes nothing.
LEMMA NormalizeAgain ==
    ASSUME NEW N, NEW I, DefaultNames \subseteq N, DefaultList \in Seq(I),
           NEW x \in Configs(N, I), NEW y \in Configs(N, I),
           y.dataRoot = x.dataRoot, y.enabled = x.enabled,
           \A p \in PathFields : y.paths[p] \in {x.paths[p], Normalize(x).paths[p]},
           y.number \in {x.number, Normalize(x).number}, y.limit \in {x.limit, Normalize(x).limit},
           y.copies \in {x.copies, Normalize(x).copies}, y.list \in {x.list, Normalize(x).list}
    PROVE  Normalize(y) = Normalize(x)
<1> DEFINE c == Normalize(x)
           d == Normalize(y)
<1>1. c \in Configs(N, I) /\ NormalPaths(x, c.paths) /\ NormalSettings(x, c)
  BY NormalizeIs
<1>2. d \in Configs(N, I) /\ NormalPaths(y, d.paths) /\ NormalSettings(y, d)
  BY NormalizeIs
<1>3. /\ \A p \in PathFields : y.paths[p] = x.paths[p] \/ y.paths[p] = c.paths[p]
      /\ y.number \in {x.number, c.number} /\ y.limit \in {x.limit, c.limit}
      /\ y.copies \in {x.copies, c.copies} /\ y.list \in {x.list, c.list}
  OBVIOUS
<1>4. /\ x.dataRoot \in Seq(N) /\ \A p \in PathFields : x.paths[p] \in Seq(N)
      /\ x.number \in Int /\ x.limit \in Int /\ x.copies \in Int /\ x.list \in Seq(I)
  BY DEF Configs
<1> HIDE DEF c, d
<1>5. \A p \in PathFields : Relocate(x.dataRoot, p, Relocate(x.dataRoot, p, x.paths[p])) = Relocate(x.dataRoot, p, x.paths[p])
  BY <1>4, RelocateTwice
<1>6. \A p \in DataPaths \cup {"stateDir"} :
         p \in PathFields /\ c.paths[p] = Relocate(x.dataRoot, p, x.paths[p]) /\ d.paths[p] = Relocate(x.dataRoot, p, y.paths[p])
  BY <1>1, <1>2 DEF NormalPaths, PathFields, DataPaths
<1>7. \A p \in DataPaths \cup {"stateDir"} : d.paths[p] = c.paths[p]
  BY <1>3, <1>5, <1>6
<1>8. d.paths["pidFile"] = c.paths["pidFile"] /\ d.paths["logDir"] = c.paths["logDir"]
  BY <1>1, <1>2, <1>3, <1>7 DEF NormalPaths, Follow, PathFields
<1>9. d.paths["logFilesDir"] = c.paths["logFilesDir"]
  BY <1>1, <1>2, <1>3, <1>8 DEF NormalPaths, Follow, PathFields
<1>10. \A p \in PathFields : d.paths[p] = c.paths[p]
  BY <1>7, <1>8, <1>9 DEF PathFields, DataPaths
<1>11. d.dataRoot = c.dataRoot /\ d.enabled = c.enabled
  BY <1>1, <1>2 DEF NormalSettings
<1>12. d.number = c.number /\ d.limit = c.limit
  BY <1>1, <1>2, <1>3, <1>4, ConfigAssumption DEF NormalSettings
<1>13. d.copies = c.copies
  BY <1>1, <1>2, <1>3, <1>4, ConfigAssumption DEF NormalSettings
<1>14. d.list = c.list
  <2>1. ListOf(ListOf(x.list)) = ListOf(x.list)
    BY <1>4, ListOfTwice
  <2> QED
    BY <1>1, <1>2, <1>3, <2>1 DEF NormalSettings
<1>15. d = c
  BY <1>1, <1>2, <1>10, <1>11, <1>12, <1>13, <1>14, SameConfig
<1> QED
  BY <1>15 DEF c, d

LEMMA DefaultType ==
    ASSUME NEW N, NEW I, DefaultNames \subseteq N, DefaultList \in Seq(I)
    PROVE  Default \in Configs(N, I)
<1>1. DefaultPath \in [PathFields -> Seq(N)] /\ << >> \in Seq(N)
  BY DefaultPaths, EmptySeq
<1> QED
  BY <1>1, ConfigAssumption DEF Default, Configs

\* A saved configuration holds every setting.
LEMMA SaveIsAll ==
    ASSUME NEW N, NEW I, NEW c \in Configs(N, I), Normalize(c) = c
    PROVE  Override(Default, Save(c)) = c
<1> DEFINE s == Save(c)
           fields == {"paths", "dataRoot", "number", "limit", "enabled", "copies", "list"}
<1>1. DOMAIN c = fields /\ DOMAIN c.paths = PathFields /\ c.paths = [p \in PathFields |-> c.paths[p]]
  BY DEF Configs
<1>2. s = [f \in PathFields \cup (fields \ {"paths"}) |-> IF f \in PathFields THEN c.paths[f] ELSE c[f]]
  BY <1>1 DEF Save
<1> HIDE DEF s
<1>3. /\ DOMAIN s = PathFields \cup (fields \ {"paths"})
      /\ \A p \in PathFields : p \in DOMAIN s /\ s[p] = c.paths[p]
      /\ \A f \in fields \ {"paths"} : f \in DOMAIN s /\ s[f] = c[f]
  BY <1>2 DEF PathFields
<1>4. DOMAIN Default = fields
  BY DEF Default
<1>5. [p \in PathFields |-> IF p \in DOMAIN s THEN s[p] ELSE Default.paths[p]] = c.paths
  BY <1>1, <1>3
<1>6. Override(Default, s) = [f \in fields |-> c[f]]
  BY <1>3, <1>4, <1>5 DEF Override
<1>7. c = [f \in fields |-> c[f]]
  BY <1>1 DEF Configs
<1> QED
  BY <1>6, <1>7 DEF s

\* A path that neither the file nor the environment says anything else of is blank
\* or the default one when it is normalised, and follows.
LEMMA UnsetStays ==
    ASSUME NEW f \in PathFields, NEW set, NEW env, Unset(f, set, env),
           NEW o, Overridden(Default, set, o), NEW x, ByEnvironment(o, env, x)
    PROVE  x.paths[f] \in {<< >>, DefaultPath[f]}
<1>1. Default.paths[f] = DefaultPath[f]
  BY DEF Default
<1>2. o.paths[f] \in {<< >>, DefaultPath[f]}
  BY <1>1 DEF Overridden, Unset
<1> QED
  BY <1>2 DEF ByEnvironment, Unset

LEMMA FollowDefault ==
    ASSUME NEW f \in PathFields, NEW v \in {<< >>, DefaultPath[f]}, NEW place
    PROVE  Follow(f, v, place) = place
<1>1. v # << >> => SameConfigPath(v, DefaultPath[f])
  BY DEF SameConfigPath
<1> QED
  BY <1>1 DEF Follow

\* Load and Save, for every configuration file and every environment: settings
\* may be absent, blank or of any value, and names are any set with the default
\* ones.
THEOREM LoadingSettles ==
    ASSUME NEW N, NEW I, DefaultNames \subseteq N, DefaultList \in Seq(I),
           NEW set, IsSettings(set, N, I), NEW env, IsSettings(env, N, I)
    PROVE  ConfigSettles(set, env)
<1> DEFINE o == Override(Default, set)
           x == Environment(o, env)
           c == Normalize(x)
           y == Environment(c, env)
           z == Environment(c, << >>)
<1>1. Load(set, env) = c
  BY DEF Load, ApplyEnvOverrides, Environment
<1>2. o \in Configs(N, I) /\ Overridden(Default, set, o)
  BY DefaultType, OverrideIs
<1> HIDE DEF o
<1>3. x \in Configs(N, I) /\ ByEnvironment(o, env, x)
  BY <1>2, EnvironmentIs
<1> HIDE DEF x
<1>4. c \in Configs(N, I) /\ NormalPaths(x, c.paths) /\ NormalSettings(x, c)
  BY <1>3, NormalizeIs
<1>5. Normalize(c) = c
  BY <1>3, <1>4, NormalizeAgain DEF NormalSettings
<1> HIDE DEF c
<1>6. Override(Default, Save(c)) = c
  BY <1>4, <1>5, SaveIsAll
<1>7. Load(Save(c), env) = Normalize(y) /\ Load(Save(c), << >>) = Normalize(z)
  BY <1>6 DEF Load, ApplyEnvOverrides, Environment
<1>8. y \in Configs(N, I) /\ ByEnvironment(c, env, y)
  BY <1>4, EnvironmentIs
<1>9. IsSettings(<< >>, N, I)
  BY DEF IsSettings
<1>10. z \in Configs(N, I) /\ ByEnvironment(c, << >>, z)
  BY <1>4, <1>9, EnvironmentIs
<1> HIDE DEF y, z
<1>11. Load(Save(c), env) = c
  <2>1. y.dataRoot = x.dataRoot /\ y.enabled = x.enabled
    BY <1>3, <1>4, <1>8 DEF ByEnvironment, NormalSettings
  <2>2. /\ \A p \in PathFields : y.paths[p] \in {x.paths[p], c.paths[p]}
        /\ y.number \in {x.number, c.number} /\ y.limit \in {x.limit, c.limit}
        /\ y.copies \in {x.copies, c.copies} /\ y.list \in {x.list, c.list}
    BY <1>3, <1>8 DEF ByEnvironment
  <2>3. Normalize(y) = Normalize(x)
    BY <1>3, <1>8, <2>1, <2>2, NormalizeAgain DEF c
  <2> QED
    BY <1>7, <2>3 DEF c
<1>12. Load(Save(c), << >>) = c
  <2>1. DOMAIN << >> = {}
    OBVIOUS
  <2>2. /\ \A p \in PathFields : z.paths[p] = c.paths[p]
        /\ z.dataRoot = c.dataRoot /\ z.number = c.number /\ z.limit = c.limit
        /\ z.enabled = c.enabled /\ z.copies = c.copies /\ z.list = c.list
    BY <1>10, <2>1 DEF ByEnvironment
  <2>3. z = c
    BY <1>4, <1>10, <2>2, SameConfig
  <2> QED
    BY <1>5, <1>7, <2>3
<1>13. Unset("logFilesDir", set, env) => c.paths["logFilesDir"] = c.paths["logDir"]
  <2>1. "logFilesDir" \in PathFields
    BY DEF PathFields
  <2>2. ASSUME Unset("logFilesDir", set, env) PROVE x.paths["logFilesDir"] \in {<< >>, DefaultPath["logFilesDir"]}
    BY <1>2, <1>3, <2>1, <2>2, UnsetStays
  <2>3. ASSUME NEW v \in {<< >>, DefaultPath["logFilesDir"]}, NEW place
        PROVE  Follow("logFilesDir", v, place) = place
    BY <2>1, FollowDefault
  <2> QED
    BY <1>4, <2>2, <2>3 DEF NormalPaths
<1>14. c.number > 0 /\ c.limit >= 0 /\ c.copies >= 0 /\ (c.enabled => c.copies > 0)
  <2>1. x.number \in Int /\ x.limit \in Int /\ x.copies \in Int /\ x.enabled \in BOOLEAN
    BY <1>3 DEF Configs
  <2> QED
    BY <1>4, <2>1, ConfigAssumption DEF NormalSettings
<1> QED
  BY <1>1, <1>11, <1>12, <1>13, <1>14 DEF ConfigSettles

\* The settings that MCAlgorithms enumerates are such settings.
EnumeratedNames == DefaultNames \cup PathFields \cup {"custom", "env", "data", "srv", ".."}
EnumeratedItems == Items \cup {DefaultList[i] : i \in 1..Len(DefaultList)}

LEMMA EnumeratedSettings ==
    /\ DefaultNames \subseteq EnumeratedNames /\ DefaultList \in Seq(EnumeratedItems)
    /\ \A i \in ConfigInputs :
          /\ IsSettings(i.file, EnumeratedNames, EnumeratedItems)
          /\ IsSettings(i.env, EnumeratedNames, EnumeratedItems)
<1> DEFINE N == EnumeratedNames
           I == EnumeratedItems
<1>1. /\ DefaultNames \subseteq N /\ PathFields \subseteq N /\ Items \subseteq I
      /\ "custom" \in N /\ "env" \in N /\ "data" \in N /\ "srv" \in N /\ ".." \in N
      /\ "" \in N /\ "." \in N /\ "runtime" \in N /\ "pid" \in N
  BY DEF EnumeratedNames, EnumeratedItems, DefaultNames
<1>2. DefaultList \in Seq(I)
  BY ListAssumption, MoreValues DEF EnumeratedItems
<1>3. DefaultPath \in [PathFields -> Seq(N)]
  BY <1>1, DefaultPaths
<1> HIDE DEF N, I
<1>4. /\ << >> \in Seq(N) /\ \A a \in N : <<a>> \in Seq(N)
      /\ \A a, b \in N : <<a, b>> \in Seq(N) /\ \A c \in N : <<a, b, c>> \in Seq(N)
  <2>1. ASSUME NEW a \in N PROVE <<a>> \in Seq(N)
    OBVIOUS
  <2>2. ASSUME NEW a \in N, NEW b \in N PROVE <<a, b>> \in Seq(N)
    OBVIOUS
  <2>3. ASSUME NEW a \in N, NEW b \in N, NEW c \in N PROVE <<a, b, c>> \in Seq(N)
    OBVIOUS
  <2> QED
    BY <2>1, <2>2, <2>3, EmptySeq
<1>5. ASSUME NEW v \in PathFiles PROVE IsSettings(v, N, I)
  <2>1. PICK s \in PathSettings, r \in DataRoots : v = FileOf(s, r)
    BY DEF PathFiles
  <2> DEFINE D == {p \in PathFields : s[p] # "absent"} \cup {"dataRoot"}
  <2>2. r \in Seq(N) /\ \A p \in PathFields : <<"custom", p>> \in Seq(N)
    <3>1. \A p \in PathFields : p \in N
      BY <1>1
    <3>2. r \in Seq(N)
      BY <1>1, <1>4 DEF DataRoots
    <3> QED
      BY <1>1, <1>4, <3>1, <3>2
  <2>3. v = [f \in D |-> IF f = "dataRoot" THEN r ELSE IF s[f] = "blank" THEN << >> ELSE <<"custom", f>>]
    BY <2>1 DEF FileOf
  <2>4. D \subseteq PathLike
    BY DEF PathLike
  <2>5. \A f \in D : v[f] \in Seq(N)
    BY <1>4, <2>2, <2>3
  <2>6. DOMAIN v = D
    BY <2>3
  <2> HIDE DEF D
  <2> QED
    BY <2>4, <2>5, <2>6 DEF IsSettings, PathLike, PathFields
<1>6. ASSUME NEW v \in SettingInputs PROVE IsSettings(v, N, I)
  <2>1. PICK n \in {-1, 0, 3}, l \in {-1, 0, 2}, e \in BOOLEAN, c \in -1..2, i \in Seqs(Items, 2) :
           v = [number |-> n, limit |-> l, enabled |-> e, copies |-> c, list |-> i]
    BY DEF SettingInputs
  <2>2. i \in Seq(I)
    <3>1. PICK k \in 0..2 : i \in [1..k -> Items]
      BY DEF Seqs
    <3>2. Items \subseteq I
      BY <1>1
    <3> HIDE DEF Items
    <3>3. k \in Nat /\ i \in [1..k -> I]
      BY <3>1, <3>2
    <3> QED
      BY <3>3
  <2>3. n \in Int /\ l \in Int /\ c \in Int
    OBVIOUS
  <2> QED
    BY <2>1, <2>2, <2>3 DEF IsSettings, PathLike, SettingFields, PathFields
<1>7. ASSUME NEW v \in Environments PROVE IsSettings(v, N, I)
  <2>1. \/ v = << >> \/ v = [dataRoot |-> <<"env">>, dbPath |-> << >>] \/ v = [stateDir |-> <<".", "">>]
        \/ v = [pidFile |-> <<".", "runtime", "pid">>]
        \/ v = [dataRoot |-> <<"env">>, logDir |-> DefaultPath.logDir]
    BY DEF Environments
  <2>2. /\ << >> \in Seq(N) /\ <<"env">> \in Seq(N) /\ <<".", "">> \in Seq(N)
        /\ <<".", "runtime", "pid">> \in Seq(N) /\ DefaultPath.logDir \in Seq(N)
    BY <1>1, <1>3, <1>4 DEF PathFields
  <2>3. ASSUME NEW a \in Seq(N), NEW b \in Seq(N)
        PROVE  /\ IsSettings([dataRoot |-> a, dbPath |-> b], N, I) /\ IsSettings([stateDir |-> a], N, I)
               /\ IsSettings([pidFile |-> a], N, I) /\ IsSettings([dataRoot |-> a, logDir |-> b], N, I)
    BY DEF IsSettings, PathLike, SettingFields, PathFields
  <2>4. IsSettings(<< >>, N, I)
    BY DEF IsSettings
  <2> QED
    BY <2>1, <2>2, <2>3, <2>4
<1>8. ASSUME NEW v \in SettingEnvironments PROVE IsSettings(v, N, I)
  <2>1. /\ Item("", 1) \in I /\ Item("x", 2) \in I /\ Item("x", 1) \in I
    <3>1. Item("", 1) \in Items /\ Item("x", 2) \in Items /\ Item("x", 1) \in Items
      BY DEF Items
    <3> QED
      BY <1>1, <3>1
  <2>2. <<Item("", 1), Item("x", 2), Item("x", 1)>> \in Seq(I)
    <3>1. ASSUME NEW a \in I, NEW b \in I, NEW c \in I PROVE <<a, b, c>> \in Seq(I)
      OBVIOUS
    <3> QED
      BY <2>1, <3>1
  <2>3. ASSUME NEW a \in Seq(I) PROVE IsSettings([list |-> a], N, I)
    BY DEF IsSettings, PathLike, SettingFields, PathFields
  <2>4. IsSettings(<< >>, N, I)
    BY DEF IsSettings
  <2>5. IsSettings([limit |-> -1], N, I) /\ IsSettings([copies |-> 0], N, I)
    BY DEF IsSettings, PathLike, SettingFields, PathFields
  <2> QED
    BY <2>2, <2>3, <2>4, <2>5 DEF SettingEnvironments
<1>9. ASSUME NEW i \in ConfigInputs PROVE IsSettings(i.file, N, I) /\ IsSettings(i.env, N, I)
  <2>1. i \in [file : PathFiles, env : Environments] \/ i \in [file : SettingInputs, env : SettingEnvironments]
    BY DEF ConfigInputs
  <2> QED
    BY <1>5, <1>6, <1>7, <1>8, <2>1
<1> QED
  BY <1>1, <1>2, <1>9 DEF N, I

\* The same of the settings that the run enumerates.
THEOREM ConfigurationsDoSettle == Spec => []ConfigurationsSettle
<1>1. ASSUME input \in Inputs(subject), subject = "config" PROVE ConfigSettles(input.file, input.env)
  <2>1. input \in ConfigInputs
    BY <1>1 DEF Inputs
  <2> QED
    BY <2>1, EnumeratedSettings, LoadingSettles
<1>2. input \in Inputs(subject) => ConfigurationsSettle
  BY <1>1 DEF ConfigurationsSettle
<1> QED
  BY <1>2, InputStays, PTL

-----------------------------------------------------------------------------
(* Where derived paths lie                                                 *)

\* A walk takes one step per component.
LEMMA WalkSteps ==
    ASSUME NEW N, NEW p \in Seq(N)
    PROVE  /\ Walk(p, 0) = << >>
           /\ \A i \in 0..Len(p) : Walk(p, i) \in Seq(N)
           /\ \A i \in 1..Len(p) : Walk(p, i) = WalkStep(Walk(p, i - 1), p[i])
<1> DEFINE n == Len(p)
<1>1. n \in Nat
  BY LenProperties
<1>2. PICK w : WalkRun(N, p, w) /\ \A i \in 0..n : Walk(p, i) = w[i]
  BY WalkRuns
<1>3. w \in [0..n -> Seq(N)] /\ w[0] = << >> /\ \A i \in 1..n : w[i] = WalkStep(w[i - 1], p[i])
  BY <1>2 DEF WalkRun
<1> HIDE DEF n
<1>4. 0 \in 0..n /\ \A i \in 1..n : i \in 0..n /\ i - 1 \in 0..n
  BY <1>1
<1>5. Walk(p, 0) = << >> /\ \A i \in 0..n : Walk(p, i) \in Seq(N)
  BY <1>2, <1>3, <1>4
<1>6. \A i \in 1..n : Walk(p, i) = WalkStep(Walk(p, i - 1), p[i])
  BY <1>2, <1>3, <1>4
<1> QED
  BY <1>5, <1>6 DEF n

\* Where a path ends.
End(p) == Walk(p, Len(p))

\* A walk along two paths in turn begins as the first and goes on from its end.
LEMMA WalkBoth ==
    ASSUME NEW N, NEW a \in Seq(N), NEW s \in Seq(N)
    PROVE  /\ a \o s \in Seq(N) /\ End(a \o s) = Walk(a \o s, Len(a) + Len(s))
           /\ Walk(a \o s, Len(a)) = End(a)
           /\ \A i \in 1..Len(s) :
                 Walk(a \o s, Len(a) + i) = WalkStep(Walk(a \o s, Len(a) + (i - 1)), s[i])
<1> DEFINE p == a \o s
           m == Len(a)
           k == Len(s)
<1>1. m \in Nat /\ k \in Nat
  BY LenProperties
<1>2. p \in Seq(N) /\ Len(p) = m + k /\ \A i \in 1..(m + k) : p[i] = IF i <= m THEN a[i] ELSE s[i - m]
  BY ConcatProperties
<1> HIDE DEF p
<1>3. Walk(p, 0) = << >> /\ \A i \in 1..(m + k) : Walk(p, i) = WalkStep(Walk(p, i - 1), p[i])
  BY <1>2, WalkSteps
<1>4. Walk(a, 0) = << >> /\ \A i \in 1..m : Walk(a, i) = WalkStep(Walk(a, i - 1), a[i])
  BY WalkSteps
<1>5. End(p) = Walk(p, m + k) /\ End(a) = Walk(a, m)
  BY <1>2 DEF End
<1> DEFINE T == {i \in 0..m : Walk(p, i) = Walk(a, i)}
<1>k. m = Len(a) /\ k = Len(s)
  OBVIOUS
<1> HIDE DEF m, k
<1>6. m \in T
  <2>1. 0 \in T
    BY <1>1, <1>3, <1>4
  <2>2. ASSUME NEW i \in 1..m, i - 1 \in T PROVE i \in T
    <3>1. i \in 0..m /\ i \in 1..(m + k) /\ i <= m /\ Walk(p, i - 1) = Walk(a, i - 1)
      BY <1>1, <2>2
    <3>2. p[i] = a[i]
      BY <1>2, <3>1
    <3> QED
      BY <1>3, <1>4, <3>1, <3>2
  <2> HIDE DEF T
  <2>3. m \in Nat /\ \A i \in 1..m : i - 1 \in T => i \in T
    BY <1>1, <2>2
  <2>4. \A i \in 0..m : i \in T
    BY <2>1, <2>3, IndexInduction
  <2> QED
    BY <1>1, <2>4
<1>7. ASSUME NEW i \in 1..k PROVE Walk(p, m + i) = WalkStep(Walk(p, m + (i - 1)), s[i])
  <2>1. m + i \in 1..(m + k) /\ ~(m + i <= m) /\ (m + i) - m = i /\ (m + i) - 1 = m + (i - 1)
    BY <1>1
  <2>2. p[m + i] = s[i]
    BY <1>2, <2>1
  <2> QED
    BY <1>3, <2>1, <2>2
<1> QED
  BY <1>2, <1>5, <1>6, <1>7, <1>k DEF p

\* From the same place the same components lead to the same place.
LEMMA SameStart ==
    ASSUME NEW N, NEW a \in Seq(N), NEW b \in Seq(N), NEW s \in Seq(N), End(a) = End(b)
    PROVE  End(a \o s) = End(b \o s)
<1> DEFINE m == Len(a)
           n == Len(b)
           k == Len(s)
           p == a \o s
           q == b \o s
           T == {i \in 0..k : Walk(p, m + i) = Walk(q, n + i)}
<1>1. m \in Nat /\ n \in Nat /\ k \in Nat
  BY LenProperties
<1>2. /\ End(p) = Walk(p, m + k) /\ Walk(p, m) = End(a)
      /\ \A i \in 1..k : Walk(p, m + i) = WalkStep(Walk(p, m + (i - 1)), s[i])
  BY WalkBoth
<1>3. /\ End(q) = Walk(q, n + k) /\ Walk(q, n) = End(b)
      /\ \A i \in 1..k : Walk(q, n + i) = WalkStep(Walk(q, n + (i - 1)), s[i])
  BY WalkBoth
<1> HIDE DEF m, n, k, p, q
<1>4. 0 \in T
  <2>1. m + 0 = m /\ n + 0 = n /\ 0 \in 0..k
    BY <1>1
  <2> QED
    BY <1>2, <1>3, <2>1
<1>5. ASSUME NEW i \in 1..k, i - 1 \in T PROVE i \in T
  <2>1. i \in 0..k /\ Walk(p, m + (i - 1)) = Walk(q, n + (i - 1))
    BY <1>1, <1>5
  <2> QED
    BY <1>2, <1>3, <2>1
<1> HIDE DEF T
<1>6. k \in Nat /\ \A i \in 1..k : i - 1 \in T => i \in T
  BY <1>1, <1>5
<1>7. \A i \in 0..k : i \in T
  BY <1>4, <1>6, IndexInduction
<1>8. Walk(p, m + k) = Walk(q, n + k)
  BY <1>1, <1>7 DEF T
<1> QED
  BY <1>2, <1>3, <1>8 DEF p, q

LEMMA LastIsAppended ==
    ASSUME NEW N, NEW a \in Seq(N), NEW c \in N
    PROVE  a \o <<c>> = Append(a, c)
OBVIOUS

\* One more component is one more step.
LEMMA EndAppend ==
    ASSUME NEW N, NEW a \in Seq(N), NEW c \in N
    PROVE  Append(a, c) \in Seq(N) /\ End(Append(a, c)) = WalkStep(End(a), c)
<1> DEFINE s == <<c>>
<1>1. s \in Seq(N) /\ Len(s) = 1 /\ s[1] = c
  OBVIOUS
<1>2. a \o s = Append(a, c)
  BY LastIsAppended
<1> HIDE DEF s
<1>3. Len(a) \in Nat
  BY LenProperties
<1>4. /\ a \o s \in Seq(N) /\ End(a \o s) = Walk(a \o s, Len(a) + Len(s))
      /\ Walk(a \o s, Len(a)) = End(a)
      /\ \A i \in 1..Len(s) : Walk(a \o s, Len(a) + i) = WalkStep(Walk(a \o s, Len(a) + (i - 1)), s[i])
  BY <1>1, WalkBoth
<1>5. Walk(a \o s, Len(a) + 1) = WalkStep(Walk(a \o s, Len(a) + (1 - 1)), s[1])
  BY <1>1, <1>4
<1>6. Len(a) + (1 - 1) = Len(a)
  BY <1>3
<1> QED
  BY <1>1, <1>2, <1>4, <1>5, <1>6

LEMMA AppendBehind ==
    ASSUME NEW N, NEW a \in Seq(N), NEW s \in Seq(N), NEW c \in N
    PROVE  a \o Append(s, c) = Append(a \o s, c)
OBVIOUS

\* Components that say something.
Named(s) == \A i \in 1..Len(s) : s[i] \notin {"", "."}

\* A step of path.Clean, seen from a working directory, is a step of a walk.
LEMMA CleanStepWalks ==
    ASSUME NEW N, NEW cwd \in Seq(N), NEW done \in Seq(N), Named(done), NEW c \in N
    PROVE  LET next == CleanStep(FALSE, done, c) IN
           Named(next) /\ End(cwd \o next) = WalkStep(End(cwd \o done), c)
<1> DEFINE next == CleanStep(FALSE, done, c)
           m == Len(done)
<1>1. m \in Nat /\ \A i \in 1..m : done[i] \in N
  BY LenProperties
<1>2. cwd \o done \in Seq(N)
  BY ConcatProperties
<1>3. ASSUME c \notin {"", "."} PROVE Named(Append(done, c)) /\ End(cwd \o Append(done, c)) = WalkStep(End(cwd \o done), c)
  <2> DEFINE s == Append(done, c)
  <2>1. Len(s) = m + 1 /\ s[m + 1] = c /\ \A i \in 1..m : s[i] = done[i]
    BY AppendProperties
  <2> HIDE DEF s, m
  <2>2. ASSUME NEW i \in 1..Len(s) PROVE s[i] \notin {"", "."}
    <3>1. CASE i = m + 1
      BY <1>3, <2>1, <3>1
    <3>2. CASE i # m + 1
      <4>1. i \in 1..m
        BY <1>1, <2>1, <3>2
      <4> QED
        BY <2>1, <4>1 DEF Named, m
    <3> QED
      BY <3>1, <3>2
  <2>3. Named(s)
    BY <2>2 DEF Named
  <2>4. cwd \o s = Append(cwd \o done, c)
    BY AppendBehind DEF s
  <2>5. End(Append(cwd \o done, c)) = WalkStep(End(cwd \o done), c)
    BY <1>2, EndAppend
  <2> QED
    BY <2>3, <2>4, <2>5 DEF s
<1>4. CASE c \in {"", "."}
  <2>1. next = done /\ WalkStep(End(cwd \o done), c) = End(cwd \o done)
    BY <1>4 DEF CleanStep, WalkStep
  <2> HIDE DEF next
  <2> QED
    BY <2>1 DEF next
<1>5. CASE c = ".." /\ done # << >> /\ done[m] # ".."
  <2> DEFINE front == SubSeq(done, 1, m - 1)
             last == done[m]
             e == End(cwd \o front)
  <2>1. next = front
    BY <1>5 DEF CleanStep
  <2>2. front \in Seq(N) /\ Len(front) = m - 1 /\ \A i \in 1..(m - 1) : front[i] = done[i]
    BY <1>5, FrontIs
  <2>3. m \in 1..m
    BY <1>5, EmptySeq
  <2>4. last \in N /\ last \notin {"", ".", ".."}
    BY <1>1, <1>5, <2>3 DEF Named
  <2> HIDE DEF next
  <2>5. Append(front, last) = done
    <3>1. SubSeq(done, 1, m) = done
      <4>1. m \in 0..Len(done)
        BY <1>1
      <4>2. SubSeq(done, 1, m) \in Seq(N) /\ Len(SubSeq(done, 1, m)) = m /\ \A i \in 1..m : SubSeq(done, 1, m)[i] = done[i]
        BY <4>1, PrefixIs
      <4> QED
        BY <4>2, SeqEqual
    <3>2. << >> \in Seq(N)
      BY EmptySeq
    <3>3. Append(<< >> \o front, last) = << >> \o SubSeq(done, 1, m)
      BY <2>3, <3>2, OneMore
    <3>4. << >> \o front = front /\ << >> \o done = done
      BY <2>2, ConcatEmptySeq
    <3> QED
      BY <3>1, <3>3, <3>4
  <2> HIDE DEF front, last
  <2>6. cwd \o front \in Seq(N)
    BY <2>2, ConcatProperties
  <2>a. last \in N /\ front \in Seq(N)
    BY <2>2, <2>4
  <2>b. cwd \o Append(front, last) = Append(cwd \o front, last)
    BY <2>a, AppendBehind
  <2>7. cwd \o done = Append(cwd \o front, last)
    BY <2>5, <2>b
  <2>8. End(cwd \o done) = WalkStep(e, last)
    BY <2>4, <2>6, <2>7, EndAppend
  <2>9. e \in Seq(N)
    BY <2>6, PlaceIs DEF End
  <2> HIDE DEF e
  <2>10. End(cwd \o done) = Append(e, last)
    BY <2>4, <2>8 DEF WalkStep
  <2>11. SubSeq(Append(e, last), 1, Len(Append(e, last)) - 1) = e
    <3>1. Append(e, last) \in Seq(N) /\ Len(Append(e, last)) = Len(e) + 1 /\ Len(e) \in Nat
          /\ \A i \in 1..Len(e) : Append(e, last)[i] = e[i]
      BY <2>9, <2>a, AppendProperties, LenProperties
    <3> DEFINE t == Append(e, last)
               u == SubSeq(t, 1, Len(t) - 1)
    <3>2. t # << >>
      BY <3>1, EmptySeq
    <3>3. u \in Seq(N) /\ Len(u) = Len(t) - 1 /\ \A i \in 1..(Len(t) - 1) : u[i] = t[i]
      BY <3>1, <3>2, FrontIs
    <3> HIDE DEF u, t
    <3>4. Len(t) - 1 = Len(e) /\ \A i \in 1..Len(e) : t[i] = e[i]
      BY <3>1 DEF t
    <3>5. u = e
      BY <2>9, <3>3, <3>4, SeqEqual
    <3> QED
      BY <3>5 DEF u, t
  <2>12. WalkStep(End(cwd \o done), c) = e
    BY <1>5, <2>10, <2>11 DEF WalkStep
  <2>13. Named(front)
    <3>1. \A i \in 1..(m - 1) : i \in 1..m
      BY <1>1
    <3> HIDE DEF m
    <3> QED
      BY <2>2, <3>1 DEF Named, m
  <2> QED
    BY <2>1, <2>12, <2>13 DEF e, next
<1>6. CASE c = ".." /\ (done = << >> \/ done[m] = "..")
  <2>1. next = Append(done, c)
    BY <1>6 DEF CleanStep
  <2> QED
    BY <1>3, <1>6, <2>1
<1>7. CASE c \notin {"", ".", ".."}
  <2>1. next = Append(done, c)
    BY <1>7 DEF CleanStep
  <2> QED
    BY <1>3, <1>7, <2>1
<1> QED
  BY <1>4, <1>5, <1>6, <1>7

\* Seen from a working directory, a cleaned relative path leads where the path does.
LEMMA CleanLeads ==
    ASSUME NEW N, NEW cwd \in Seq(N), NEW p \in Seq(N)
    PROVE  LET names == Clean(FALSE, p) IN
           names \in Seq(N) /\ Named(names) /\ End(cwd \o names) = End(cwd \o p)
<1> DEFINE n == Len(p)
<1>1. n \in Nat /\ \A i \in 1..n : p[i] \in N
  BY LenProperties
<1>2. PICK f : CleanRun(FALSE, N, p, f) /\ Clean(FALSE, p) = f[n]
  BY CleanRuns
<1>3. f \in [0..n -> Seq(N)] /\ f[0] = << >> /\ \A i \in 1..n : f[i] = CleanStep(FALSE, f[i - 1], p[i])
  BY <1>2 DEF CleanRun
<1>n. n = Len(p)
  OBVIOUS
<1> HIDE DEF n
<1> DEFINE T == {i \in 0..n : Named(f[i]) /\ End(cwd \o f[i]) = End(cwd \o SubSeq(p, 1, i))}
<1>4. 0 \in T
  <2>1. SubSeq(p, 1, 0) = << >> /\ 0 \in 0..n
    BY <1>1, SubSeqEmpty
  <2>2. Named(<< >>)
    <3> DEFINE e == << >>
    <3>1. Len(e) = 0
      OBVIOUS
    <3> HIDE DEF e
    <3>2. 1..Len(e) = {}
      BY <3>1
    <3>3. Named(e)
      BY <3>2, Zenon DEF Named
    <3> QED
      BY <3>3 DEF e
  <2> QED
    BY <1>3, <2>1, <2>2
<1>5. ASSUME NEW i \in 1..n, i - 1 \in T PROVE i \in T
  <2> DEFINE done == f[i - 1]
             before1 == cwd \o SubSeq(p, 1, i - 1)
  <2>1. i \in 0..n /\ i - 1 \in 0..n /\ i \in 1..Len(p) /\ i - 1 \in 0..Len(p) /\ p[i] \in N
    BY <1>1, <1>n
  <2>2. done \in Seq(N) /\ Named(done) /\ End(cwd \o done) = End(before1)
    BY <1>3, <1>5, <2>1
  <2>3. f[i] = CleanStep(FALSE, done, p[i])
    BY <1>3
  <2> HIDE DEF done
  <2> DEFINE c == p[i]
  <2>a. c \in N
    BY <2>1
  <2> HIDE DEF c, T, before1
  <2>b. Named(CleanStep(FALSE, done, c)) /\ End(cwd \o CleanStep(FALSE, done, c)) = WalkStep(End(cwd \o done), c)
    BY <2>2, <2>a, CleanStepWalks
  <2>4. Named(f[i]) /\ End(cwd \o f[i]) = WalkStep(End(cwd \o done), p[i])
    BY <2>3, <2>b DEF c
  <2>5. before1 \in Seq(N)
    <3>1. SubSeq(p, 1, i - 1) \in Seq(N)
      BY <2>1, PrefixIs
    <3> QED
      BY <3>1, ConcatProperties DEF before1
  <2>6. Append(before1, p[i]) = cwd \o SubSeq(p, 1, i)
    BY <2>1, OneMore DEF before1
  <2>7. End(cwd \o SubSeq(p, 1, i)) = WalkStep(End(before1), p[i])
    BY <2>1, <2>5, <2>6, EndAppend
  <2> QED
    BY <2>1, <2>2, <2>4, <2>7 DEF T
<1> HIDE DEF T
<1>6. \A i \in 1..n : i - 1 \in T => i \in T
  BY <1>5
<1>7. \A i \in 0..n : i \in T
  BY <1>1, <1>4, <1>6, IndexInduction
<1>8. n \in 0..n /\ f[n] \in Seq(N) /\ Named(f[n]) /\ End(cwd \o f[n]) = End(cwd \o SubSeq(p, 1, n))
  BY <1>1, <1>3, <1>7 DEF T
<1>9. SubSeq(p, 1, n) = p
  <2>1. n \in 0..Len(p)
    BY <1>1, <1>n
  <2>2. SubSeq(p, 1, n) \in Seq(N) /\ Len(SubSeq(p, 1, n)) = n /\ \A i \in 1..n : SubSeq(p, 1, n)[i] = p[i]
    BY <2>1, PrefixIs
  <2> QED
    BY <1>n, <2>2, SeqEqual
<1> QED
  BY <1>2, <1>8, <1>9

\* path.Clean does not move a path.
LEMMA CleanPathLeads ==
    ASSUME NEW N, DefaultNames \subseteq N, NEW cwd \in Seq(N), NEW p \in Seq(N), p # << >>
    PROVE  Place(cwd, CleanPath(p)) = Place(cwd, p)
<1>1. "" \in N /\ "." \in N
  BY DEF DefaultNames
<1>2. ASSUME NEW x \in N, NEW y \in N PROVE <<x>> \in Seq(N) /\ <<x, y>> \in Seq(N) /\ <<x, y>> = Append(<<x>>, y)
  OBVIOUS
<1>3. \A q : Place(cwd, q) = IF q # << >> /\ q[1] = "" THEN End(q) ELSE End(cwd \o q)
  BY DEF Place, End
<1>4. ASSUME NEW a \in Seq(N) PROVE End(Append(a, "")) = End(a) /\ End(Append(a, ".")) = End(a)
  <2>1. End(Append(a, "")) = WalkStep(End(a), "") /\ End(Append(a, ".")) = WalkStep(End(a), ".")
    BY <1>1, EndAppend
  <2> QED
    BY <2>1 DEF WalkStep
<1>5. CASE p[1] = ""
  <2> DEFINE names == Clean(TRUE, p)
  <2>1. names = End(p) /\ names \in Seq(N) /\ Plain(names)
    BY CleanAbsolute, PlaceIs DEF End
  <2>2. CleanPath(p) = IF names = << >> THEN <<"", "">> ELSE <<"">> \o names
    <3>1. Clean(p[1] = "", p) = names
      <4>1. (p[1] = "") = TRUE
        BY <1>5
      <4> QED
        BY <4>1
    <3> HIDE DEF names
    <3> QED
      BY <1>5, <3>1 DEF CleanPath
  <2> HIDE DEF names
  <2>3. End(<<"">>) = << >>
    <3>1. << >> \in Seq(N)
      BY EmptySeq
    <3>2. Append(<< >>, "") = <<"">>
      OBVIOUS
    <3>3. End(<<"">>) = End(<< >>)
      BY <1>4, <3>1, <3>2
    <3>4. End(<< >>) = << >>
      <4> DEFINE e == << >>
      <4>1. Len(e) = 0
        OBVIOUS
      <4> HIDE DEF e
      <4>2. e \in Seq(N)
        BY <3>1 DEF e
      <4>3. End(e) = << >>
        BY <4>1, <4>2, WalkSteps DEF End
      <4> QED
        BY <4>3 DEF e
    <3> QED
      BY <3>3, <3>4
  <2>4. CASE names = << >>
    <3>a. CleanPath(p) = <<"", "">>
      BY <2>2, <2>4
    <3>b. <<"", "">> = Append(<<"">>, "")
      BY <1>1, <1>2
    <3>c. <<"", "">> # << >> /\ <<"", "">>[1] = ""
      OBVIOUS
    <3>1. CleanPath(p) = Append(<<"">>, "") /\ CleanPath(p) # << >> /\ CleanPath(p)[1] = ""
      BY <3>a, <3>b, <3>c
    <3>2. End(CleanPath(p)) = << >>
      BY <1>1, <1>2, <1>4, <2>3, <3>1
    <3> QED
      BY <1>3, <1>5, <2>1, <2>4, <3>1, <3>2
  <2>5. CASE names # << >>
    <3> DEFINE r == <<"">>
               q == r \o names
    <3>1. r \in Seq(N) /\ Len(r) = 1 /\ r[1] = ""
      BY <1>1, <1>2
    <3>2. End(r) = << >>
      BY <2>3
    <3>3. CleanPath(p) = q
      BY <2>2, <2>5
    <3> HIDE DEF r
    <3>4. Len(names) \in Nat /\ Len(q) = Len(r) + Len(names) /\ q \in Seq(N)
          /\ \A i \in 1..(Len(r) + Len(names)) : q[i] = IF i <= Len(r) THEN r[i] ELSE names[i - Len(r)]
      BY <2>1, <3>1, ConcatProperties, LenProperties
    <3>5. End(q) = End(r) \o names
      BY <2>1, <3>1, WalkOn DEF End
    <3>6. << >> \o names = names
      BY <2>1, ConcatEmptySeq
    <3> HIDE DEF q
    <3>a. Len(r) = 1 /\ Len(names) \in Nat /\ Len(q) = Len(r) + Len(names)
      BY <3>1, <3>4
    <3>7. Len(q) # 0 /\ 1 \in 1..(Len(r) + Len(names)) /\ 1 <= Len(r)
      BY <3>a
    <3>8. q # << >> /\ q[1] = ""
      BY <3>1, <3>4, <3>7, EmptySeq
    <3>9. Place(cwd, q) = names
      BY <1>3, <3>2, <3>5, <3>6, <3>8
    <3>10. Place(cwd, p) = names
      BY <1>3, <1>5, <2>1
    <3> QED
      BY <3>3, <3>9, <3>10
  <2> QED
    BY <2>4, <2>5
<1>6. CASE p[1] # ""
  <2> DEFINE names == Clean(FALSE, p)
  <2>1. names \in Seq(N) /\ Named(names) /\ End(cwd \o names) = End(cwd \o p)
    BY CleanLeads
  <2>2. CleanPath(p) = IF names = << >> THEN <<".">> ELSE names
    <3>1. Clean(p[1] = "", p) = names
      <4>1. (p[1] = "") = FALSE
        BY <1>6
      <4> QED
        BY <4>1
    <3> HIDE DEF names
    <3> QED
      BY <1>6, <3>1 DEF CleanPath
  <2> HIDE DEF names
  <2>3. Place(cwd, p) = End(cwd \o p)
    BY <1>3, <1>6
  <2>4. CASE names = << >>
    <3>1. cwd \o <<".">> = Append(cwd, ".") /\ cwd \o << >> = cwd
      BY <1>1, LastIsAppended, ConcatEmptySeq
    <3>2. <<".">>[1] # ""
      OBVIOUS
    <3>3. Place(cwd, <<".">>) = End(cwd \o <<".">>)
      BY <1>3, <3>2
    <3> QED
      BY <1>4, <2>1, <2>2, <2>3, <2>4, <3>1, <3>3
  <2>5. CASE names # << >>
    <3>1. 1 \in 1..Len(names)
      BY <2>1, <2>5, EmptySeq
    <3>2. names[1] # ""
      BY <2>1, <3>1 DEF Named
    <3> QED
      BY <1>3, <2>1, <2>2, <2>3, <2>5, <3>2
  <2> QED
    BY <2>4, <2>5
<1> QED
  BY <1>5, <1>6

\* joinConfigPath leads to the name below the base, if "./" is not all of the
\* base or followed by a slash.
LEMMA JoinLeads ==
    ASSUME NEW N, DefaultNames \subseteq N, NEW cwd \in Seq(N), NEW base \in Seq(N), ~DotSlash(base),
           NEW name \in Seq(N), name # << >>, name[1] # "."
    PROVE  Place(cwd, JoinConfigPath(base, name)) = Place(cwd, base \o name)
<1> DEFINE t == TrimDotSlash(base)
<1>1. CASE base = << >>
  <2>1. base \o name = name
    BY <1>1, ConcatEmptySeq
  <2> QED
    BY <1>1, <2>1 DEF JoinConfigPath
<1>2. CASE base # << >>
  <2>1. t \in Seq(N) /\ t # << >> /\ TrimDotSlash(name) = name
    BY <1>2, TrimType DEF TrimDotSlash
  <2>2. JoinConfigPath(base, name) = CleanPath(t \o name)
    BY <1>2, <2>1 DEF JoinConfigPath
  <2>3. ASSUME NEW s \in Seq(N), s # << >> PROVE s \o name \in Seq(N) /\ s \o name # << >> /\ (s \o name)[1] = s[1]
    <3>1. s \o name \in Seq(N) /\ Len(s \o name) = Len(s) + Len(name) /\ Len(s) \in Nat \ {0} /\ Len(name) \in Nat
          /\ \A i \in 1..(Len(s) + Len(name)) : (s \o name)[i] = IF i <= Len(s) THEN s[i] ELSE name[i - Len(s)]
      BY <2>3, ConcatProperties, LenProperties, EmptySeq
    <3> DEFINE q == s \o name
    <3> HIDE DEF q
    <3>2. Len(q) # 0 /\ 1 \in 1..(Len(s) + Len(name)) /\ 1 <= Len(s)
      BY <3>1 DEF q
    <3> QED
      BY <3>1, <3>2, EmptySeq DEF q
  <2> HIDE DEF t
  <2>4. Place(cwd, CleanPath(t \o name)) = Place(cwd, t \o name)
    BY <2>1, <2>3, CleanPathLeads
  <2>5. \A q : Place(cwd, q) = IF q # << >> /\ q[1] = "" THEN End(q) ELSE End(cwd \o q)
    BY DEF Place, End
  <2>6. CASE ~(Len(base) > 1 /\ base[1] = ".")
    <3>1. t = base
      BY <2>6 DEF t, TrimDotSlash
    <3> QED
      BY <2>2, <2>4, <3>1
  <2>7. CASE Len(base) > 1 /\ base[1] = "."
    <3>1. t = Tail(base)
      BY <2>7 DEF t, TrimDotSlash
    <3>2. Len(base) \in Nat /\ Len(t) = Len(base) - 1 /\ \A i \in 1..Len(t) : t[i] = base[i + 1]
      BY <1>2, <3>1, HeadTailProperties, LenProperties
    <3>3. t[1] # ""
      <4>1. 1 \in 1..Len(t)
        BY <2>7, <3>2
      <4>2. t[1] = base[1 + 1] /\ 1 + 1 = 2
        BY <3>2, <4>1
      <4> QED
        BY <2>7, <4>2 DEF DotSlash
    <3>4. Place(cwd, t \o name) = End(cwd \o (t \o name))
      <4>1. (t \o name)[1] # ""
        BY <2>1, <2>3, <3>3
      <4> QED
        BY <2>5, <4>1
    <3>5. Place(cwd, base \o name) = End(cwd \o (base \o name))
      <4>1. (base \o name)[1] # ""
        BY <1>2, <2>3, <2>7
      <4> QED
        BY <2>5, <4>1
    <3>6. "." \in N
      BY DEF DefaultNames
    <3>7. base = <<".">> \o t
      <4> DEFINE d == <<".">>
                 u == d \o t
      <4>1. d \in Seq(N) /\ Len(d) = 1 /\ d[1] = "."
        BY <3>6
      <4> HIDE DEF d
      <4>2. u \in Seq(N) /\ Len(u) = Len(d) + Len(t) /\ Len(t) \in Nat
            /\ \A i \in 1..(Len(d) + Len(t)) : u[i] = IF i <= Len(d) THEN d[i] ELSE t[i - Len(d)]
        BY <2>1, <4>1, ConcatProperties, LenProperties
      <4> HIDE DEF u
      <4>3. Len(u) = Len(base)
        BY <3>2, <4>1, <4>2
      <4>4. ASSUME NEW i \in 1..Len(base) PROVE u[i] = base[i]
        <5>1. CASE i = 1
          <6>1. 1 \in 1..(Len(d) + Len(t)) /\ 1 <= Len(d)
            BY <4>1, <4>2
          <6> QED
            BY <2>7, <4>1, <4>2, <5>1, <6>1
        <5>2. CASE i # 1
          <6>1. i \in 1..(Len(d) + Len(t)) /\ ~(i <= Len(d)) /\ i - Len(d) = i - 1 /\ i - 1 \in 1..Len(t) /\ (i - 1) + 1 = i
            BY <3>2, <4>1, <4>2, <4>3, <5>2
          <6>2. u[i] = t[i - 1] /\ t[i - 1] = base[i]
            BY <3>2, <4>2, <6>1
          <6> QED
            BY <6>2
        <5> QED
          BY <5>1, <5>2
      <4>5. u = base
        BY <4>2, <4>3, <4>4, SeqEqual
      <4> QED
        BY <4>5 DEF u, d
    <3>8. End(cwd \o <<".">>) = End(cwd) /\ cwd \o <<".">> \in Seq(N)
      <4>1. cwd \o <<".">> = Append(cwd, ".")
        BY <3>6, LastIsAppended
      <4>2. Append(cwd, ".") \in Seq(N) /\ End(Append(cwd, ".")) = WalkStep(End(cwd), ".")
        BY <3>6, EndAppend
      <4> QED
        BY <4>1, <4>2 DEF WalkStep
    <3>9. End((cwd \o <<".">>) \o (t \o name)) = End(cwd \o (t \o name))
      <4> DEFINE a == cwd \o <<".">>
                 rest == t \o name
      <4>1. a \in Seq(N) /\ End(a) = End(cwd)
        BY <3>8
      <4>2. rest \in Seq(N)
        BY <2>1, <2>3
      <4> HIDE DEF a, rest
      <4>3. End(a \o rest) = End(cwd \o rest)
        BY <4>1, <4>2, SameStart
      <4> QED
        BY <4>3 DEF a, rest
    <3>10. (cwd \o <<".">>) \o (t \o name) = cwd \o (base \o name)
      <4>1. ASSUME NEW d \in Seq(N) PROVE (cwd \o d) \o (t \o name) = cwd \o ((d \o t) \o name)
        <5>1. t \in Seq(N) /\ cwd \in Seq(N) /\ name \in Seq(N)
          BY <2>1
        <5> QED
          BY <5>1, SMTT(30)
      <4>2. <<".">> \in Seq(N)
        BY <3>6
      <4> QED
        BY <3>7, <4>1, <4>2
    <3> QED
      BY <2>2, <2>4, <3>4, <3>5, <3>9, <3>10
  <2> QED
    BY <2>6, <2>7
<1> QED
  BY <1>1, <1>2

\* A path that nobody set lies in the directory it is derived from, unless that is
\* written as "./": for every working directory, configuration file and
\* environment (Load, deriveDataPath, joinConfigPath).
THEOREM DerivedPathsLieInBase ==
    ASSUME NEW N, NEW I, DefaultNames \subseteq N, DefaultList \in Seq(I), NEW cwd \in Seq(N),
           NEW set, IsSettings(set, N, I), NEW env, IsSettings(env, N, I)
    PROVE  UnsetPathsLieInBase(cwd, set, env)
<1> DEFINE o == Override(Default, set)
           x == Environment(o, env)
           c == Normalize(x)
<1>1. Load(set, env) = c
  BY DEF Load, ApplyEnvOverrides, Environment
<1>2. o \in Configs(N, I) /\ Overridden(Default, set, o)
  BY DefaultType, OverrideIs
<1> HIDE DEF o
<1>3. x \in Configs(N, I) /\ ByEnvironment(o, env, x)
  BY <1>2, EnvironmentIs
<1> HIDE DEF x
<1>4. c \in Configs(N, I) /\ NormalPaths(x, c.paths) /\ NormalSettings(x, c)
  BY <1>3, NormalizeIs
<1> HIDE DEF c
<1>5. c.dataRoot = x.dataRoot /\ c.dataRoot \in Seq(N) /\ c.paths["stateDir"] \in Seq(N)
  BY <1>4 DEF NormalSettings, Configs, PathFields
<1> SUFFICES ASSUME NEW f \in DerivedPaths, Unset(f, set, env), ~DotSlash(Base(c, f))
             PROVE  LiesInBase(cwd, c, f)
  BY <1>1 DEF UnsetPathsLieInBase
<1>6. f \in PathFields /\ f # "logFilesDir"
  BY DEF DerivedPaths
<1>7. x.paths[f] \in {<< >>, DefaultPath[f]}
  BY <1>2, <1>3, <1>6, UnsetStays
<1>8. Base(c, f) \in Seq(N)
  BY <1>5 DEF Base
<1>9. NameInBase(f) \in Seq(N) /\ NameInBase(f) # << >> /\ NameInBase(f)[1] # "."
  <2> DEFINE M == N \ {"."}
             name == NameInBase(f)
  <2>1. /\ "runtime" \in M /\ "pid" \in M /\ "logs" \in M /\ "db" \in M
        /\ "certs" \in M /\ "cert" \in M /\ "key" \in M /\ "backups" \in M
    BY DEF DefaultNames
  <2>2. name \in {<<"pid">>, <<"logs">>, <<"runtime">>, <<"db">>, <<"certs", "cert">>, <<"certs", "key">>, <<"backups">>}
    BY <1>6 DEF NameInBase, PathFields, DefaultPath
  <2>3. ASSUME NEW a \in M, NEW b \in M
        PROVE  /\ <<a>> \in Seq(N) /\ <<a>> # << >> /\ <<a>>[1] # "."
               /\ <<a, b>> \in Seq(N) /\ <<a, b>> # << >> /\ <<a, b>>[1] # "."
    OBVIOUS
  <2> HIDE DEF M, name
  <2>4. (\E a \in M : name = <<a>>) \/ (\E a, b \in M : name = <<a, b>>)
    BY <2>1, <2>2, Zenon
  <2>5. name \in Seq(N) /\ name # << >> /\ name[1] # "."
    BY <2>3, <2>4
  <2> QED
    BY <2>5 DEF name
<1>10. c.paths[f] = JoinConfigPath(Base(c, f), NameInBase(f))
  <2>1. CASE f \in {"pidFile", "logDir"}
    <3>1. \A place : Follow(f, x.paths[f], place) = place
      BY <1>6, <1>7, FollowDefault
    <3> QED
      BY <1>4, <2>1, <3>1 DEF NormalPaths, Base, NameInBase
  <2>2. CASE f \notin {"pidFile", "logDir"}
    <3>1. Base(c, f) = x.dataRoot /\ NameInBase(f) = DefaultPath[f]
      BY <1>5, <2>2 DEF Base, NameInBase
    <3>2. f \in DataPaths \cup {"stateDir"}
      BY <1>6, <2>2 DEF PathFields, DataPaths
    <3>3. c.paths[f] = Relocate(x.dataRoot, f, x.paths[f])
      BY <1>4, <3>2 DEF NormalPaths
    <3>4. JoinConfigPath(<< >>, DefaultPath[f]) = DefaultPath[f]
      BY DEF JoinConfigPath
    <3>5. x.paths[f] # << >> => SameConfigPath(x.paths[f], DefaultPath[f])
      BY <1>7 DEF SameConfigPath
    <3> QED
      BY <1>7, <3>1, <3>3, <3>4, <3>5 DEF Relocate
  <2> QED
    BY <2>1, <2>2
<1> QED
  BY <1>8, <1>9, <1>10, JoinLeads DEF LiesInBase

\* The same of the settings that the run enumerates.
THEOREM PathsDoLieInBase == Spec => []PathsLieInBase
<1>1. ASSUME input \in Inputs(subject), subject = "config" PROVE UnsetPathsLieInBase(Root, input.file, input.env)
  <2> DEFINE N == EnumeratedNames \cup {"r", "s"}
  <2>1. input \in ConfigInputs
    BY <1>1 DEF Inputs
  <2>2. DefaultNames \subseteq N /\ EnumeratedNames \subseteq N /\ Root \in Seq(N)
    <3>1. ASSUME NEW a \in N, NEW b \in N PROVE <<a, b>> \in Seq(N)
      OBVIOUS
    <3>2. "r" \in N /\ "s" \in N
      OBVIOUS
    <3>3. DefaultNames \subseteq EnumeratedNames
      BY EnumeratedSettings
    <3> HIDE DEF N
    <3> QED
      BY <3>1, <3>2, <3>3 DEF Root, N
  <2> HIDE DEF N
  <2>3. ASSUME NEW v, IsSettings(v, EnumeratedNames, EnumeratedItems) PROVE IsSettings(v, N, EnumeratedItems)
    <3>1. \A f \in PathLike : f \in DOMAIN v => v[f] \in Seq(N)
      BY <2>2, <2>3, MoreValues DEF IsSettings
    <3> QED
      BY <2>3, <3>1 DEF IsSettings
  <2> QED
    BY <2>1, <2>2, <2>3, EnumeratedSettings, DerivedPathsLieInBase
<1>2. input \in Inputs(subject) => PathsLieInBase
  BY <1>1 DEF PathsLieInBase
<1> QED
  BY <1>2, InputStays, PTL

-----------------------------------------------------------------------------
(* The recorder                                                            *)

\* The list of a set has every element once, in the order (sort.Slice).
LEMMA InOrderIs ==
    ASSUME NEW S, IsFiniteSet(S), NEW R, Orders(R, S)
    PROVE  LET s == InOrder(S, R)
               n == Cardinality(S)
           IN  /\ n \in Nat /\ s \in [1..n -> S] /\ Len(s) = n
               /\ \A k \in 1..n : Cardinality(Below(R, S, s[k])) = k - 1
               /\ \A x \in S : \E k \in 1..n : s[k] = x
               /\ \A i, j \in 1..n : i < j => <<s[i], s[j]>> \in R
<1> DEFINE n == Cardinality(S)
           s == InOrder(S, R)
           Rank(x) == Cardinality(Below(R, S, x))
           c == [k \in 1..n |-> CHOOSE x \in S : Rank(x) = k - 1]
<1>1. n \in Nat
  BY FS_CardinalityType
<1>2. s = c
  BY Zenon DEF InOrder, Below
<1>3. ASSUME NEW k \in 1..n PROVE c[k] \in S /\ Rank(c[k]) = k - 1
  <2>1. k - 1 \in Nat /\ k - 1 < Cardinality(S)
    BY <1>1
  <2>2. \E x \in S : Rank(x) = k - 1
    BY <2>1, RankTaken
  <2> QED
    BY <2>2
<1>4. s \in [1..n -> S]
  BY <1>2, <1>3
<1>5. Len(s) = n
  <2>1. s \in Seq(S) /\ DOMAIN s = 1..n
    BY <1>1, <1>4
  <2> HIDE DEF s, n
  <2> QED
    BY <1>1, <2>1, LenProperties
<1>6. \A k \in 1..n : s[k] \in S /\ Rank(s[k]) = k - 1
  BY <1>2, <1>3
<1>7. \A x, y \in S : <<x, y>> \in R => Rank(x) < Rank(y)
  BY RankGrows
<1>8. \A x \in S : Rank(x) \in 0..(n - 1)
  BY RankType
<1>9. \A x, y \in S : x # y => <<x, y>> \in R \/ <<y, x>> \in R
  BY DEF Orders
<1> HIDE DEF s, n, Rank
<1>10. ASSUME NEW x \in S PROVE \E k \in 1..n : s[k] = x
  <2> DEFINE k == Rank(x) + 1
  <2>1. k \in 1..n /\ k - 1 = Rank(x)
    BY <1>1, <1>8
  <2>2. s[k] \in S /\ Rank(s[k]) = Rank(x) /\ Rank(x) \in Int
    BY <1>6, <1>8, <2>1
  <2> HIDE DEF k
  <2>3. s[k] = x
    <3>1. s[k] # x => Rank(s[k]) < Rank(x) \/ Rank(x) < Rank(s[k])
      BY <1>7, <1>9, <2>2
    <3> QED
      BY <2>2, <3>1
  <2> QED
    BY <2>1, <2>3
<1>11. ASSUME NEW i \in 1..n, NEW j \in 1..n, i < j PROVE <<s[i], s[j]>> \in R
  <2>1. Rank(s[i]) = i - 1 /\ Rank(s[j]) = j - 1 /\ s[i] \in S /\ s[j] \in S
    BY <1>6
  <2>2. i - 1 # j - 1 /\ ~(j - 1 < i - 1)
    BY <1>1, <1>11
  <2> QED
    BY <1>7, <1>9, <2>1, <2>2
<1> QED
  BY <1>1, <1>4, <1>5, <1>6, <1>10, <1>11 DEF n, s, Rank

\* Of n values, at least p of a hundred are in most, and fewer in less.
Divides(p, n, most, less) == 100 * Cardinality(most) >= p * n /\ 100 * Cardinality(less) < p * n

\* A percentile is the smallest value that p of a hundred do not exceed.
LEMMA PercentileIs ==
    ASSUME NEW l \in Seq(Int), l # << >>, NEW p \in {50, 95, 99},
           NEW most \in SUBSET (1..Len(l)), \A i \in 1..Len(l) : i \in most <=> l[i] <= Percentile(l, p),
           NEW less \in SUBSET (1..Len(l)), \A i \in 1..Len(l) : i \in less <=> l[i] <= Percentile(l, p) - 1
    PROVE  /\ \E i \in 1..Len(l) : l[i] = Percentile(l, p)
           /\ Divides(p, Len(l), most, less)
<1> DEFINE n == Len(l)
           S == 1..n
           R == {d \in S \X S : \/ l[d[1]] < l[d[2]]
                                \/ l[d[1]] = l[d[2]] /\ d[1] < d[2]}
           r == (n * p + 99) \div 100
           s == InOrder(S, R)
           v == l[s[r]]
           low == {i \in S : Cardinality(Below(R, S, i)) < r}
<1>1. n \in Nat \ {0}
  BY EmptySeq, LenProperties
<1>2. \A i \in S : l[i] \in Int /\ i \in Int
  BY <1>1, ElementOfSeq
<1>3. IsFiniteSet(S) /\ Cardinality(S) = n
  BY <1>1, FS_Interval
<1>4. \A i, j \in S : <<i, j>> \in R <=> (l[i] < l[j] \/ (l[i] = l[j] /\ i < j))
  OBVIOUS
<1> HIDE DEF n
<1>5. r \in S /\ 100 * r >= p * n /\ 100 * (r - 1) < p * n
  <2>1. CASE p = 50
    BY <1>1, <2>1
  <2>2. CASE p = 95
    BY <1>1, <2>2
  <2>3. CASE p = 99
    BY <1>1, <2>3
  <2> QED
    BY <2>1, <2>2, <2>3
<1>6. r \in Nat /\ ~(r < 1) /\ ~(r > n)
  BY <1>1, <1>5
<1>7. Percentile(l, p) = v
  <2> DEFINE ranked == IF r < 1 THEN 1 ELSE IF r > n THEN n ELSE r
  <2>1. Percentile(l, p) = l[s[ranked]]
    BY Zenon DEF Percentile, n
  <2>2. ranked = r
    BY <1>6
  <2> QED
    BY <2>1, <2>2
<1>b. /\ most \subseteq S /\ \A i \in S : i \in most <=> l[i] <= v
      /\ less \subseteq S /\ \A i \in S : i \in less <=> l[i] <= v - 1
  BY <1>7 DEF n
<1> HIDE DEF r, R
<1>8. Orders(R, S)
  <2>1. \A i \in S : <<i, i>> \notin R
    BY <1>2, <1>4
  <2>2. \A i, j \in S : i # j => <<i, j>> \in R \/ <<j, i>> \in R
    <3> TAKE i, j \in S
    <3>1. l[i] \in Int /\ l[j] \in Int /\ i \in Int /\ j \in Int
      BY <1>2
    <3> QED
      BY <1>4, <3>1
  <2>3. \A i, j, k \in S : <<i, j>> \in R /\ <<j, k>> \in R => <<i, k>> \in R
    <3> TAKE i, j, k \in S
    <3>1. l[i] \in Int /\ l[j] \in Int /\ l[k] \in Int /\ i \in Int /\ j \in Int /\ k \in Int
      BY <1>2
    <3>2. /\ <<i, j>> \in R <=> (l[i] < l[j] \/ (l[i] = l[j] /\ i < j))
          /\ <<j, k>> \in R <=> (l[j] < l[k] \/ (l[j] = l[k] /\ j < k))
          /\ <<i, k>> \in R <=> (l[i] < l[k] \/ (l[i] = l[k] /\ i < k))
      BY <1>4
    <3> QED
      BY <3>1, <3>2
  <2> QED
    BY <2>1, <2>2, <2>3 DEF Orders
<1>a. S = 1..n
  OBVIOUS
<1> HIDE DEF S
<1>9. /\ s \in [1..n -> S] /\ Cardinality(Below(R, S, s[r])) = r - 1
  <2>1. /\ s \in [1..Cardinality(S) -> S]
        /\ \A k \in 1..Cardinality(S) : Cardinality(Below(R, S, s[k])) = k - 1
    BY <1>3, <1>8, InOrderIs
  <2> HIDE DEF s
  <2> QED
    BY <1>3, <1>5, <1>a, <2>1
<1> DEFINE x == s[r]
<1> HIDE DEF s
<1>10. x \in S /\ Cardinality(Below(R, S, x)) = r - 1 /\ v = l[x] /\ l[x] \in Int
  <2>1. x \in S
    BY <1>5, <1>9, <1>a
  <2> QED
    BY <1>2, <1>9, <2>1
<1> HIDE DEF x
<1>11. Cardinality(low) = r
  <2>1. r \in Nat /\ r <= Cardinality(S)
    BY <1>1, <1>3, <1>6
  <2> HIDE DEF low
  <2> QED
    BY <1>3, <1>8, <2>1, FirstOnes DEF low
<1>12. \A i \in low : i \in most
  <2> TAKE i \in low
  <2>1. i \in S /\ Cardinality(Below(R, S, i)) \in Nat /\ Cardinality(Below(R, S, i)) < r
    BY <1>3, <1>8, RankType
  <2>2. <<x, i>> \in R => r - 1 < Cardinality(Below(R, S, i))
    BY <1>3, <1>8, <1>10, <2>1, RankGrows
  <2>3. <<x, i>> \notin R
    BY <1>6, <2>1, <2>2
  <2>4. l[i] <= l[x]
    BY <1>2, <1>4, <1>10, <2>1, <2>3
  <2> QED
    BY <1>b, <1>10, <2>1, <2>4
<1>13. \A i \in less : i \in Below(R, S, x)
  <2> TAKE i \in less
  <2>1. i \in S /\ l[i] <= v - 1
    BY <1>b
  <2>2. l[i] \in Int /\ l[i] < l[x]
    BY <1>2, <1>10, <2>1
  <2>3. <<i, x>> \in R
    BY <1>4, <1>10, <2>1, <2>2
  <2> QED
    BY <2>1, <2>3 DEF Below
<1>14. IsFiniteSet(most) /\ Cardinality(most) \in Nat /\ Cardinality(most) >= r
  <2>1. IsFiniteSet(most)
    BY <1>b, <1>3, FS_Subset
  <2>2. low \in SUBSET most
    BY <1>12
  <2> HIDE DEF low
  <2> QED
    BY <1>11, <2>1, <2>2, FS_Subset, FS_CardinalityType
<1>15. Cardinality(less) \in Nat /\ Cardinality(less) <= r - 1
  <2>1. IsFiniteSet(Below(R, S, x))
    BY <1>3, <1>8, <1>10, RankType
  <2>2. less \in SUBSET Below(R, S, x)
    BY <1>13
  <2> QED
    BY <1>10, <2>1, <2>2, FS_Subset, FS_CardinalityType
<1>16. 100 * Cardinality(most) >= p * n /\ 100 * Cardinality(less) < p * n
  <2> DEFINE a == Cardinality(most)
             b == Cardinality(less)
             q == p * n
  <2>1. a \in Nat /\ a >= r /\ b \in Nat /\ b <= r - 1 /\ 100 * r >= q /\ 100 * (r - 1) < q
    BY <1>5, <1>14, <1>15
  <2>2. q \in Int
    BY <1>1
  <2> HIDE DEF a, b, q
  <2>3. 100 * a >= q /\ 100 * b < q
    BY <1>6, <2>1, <2>2
  <2> QED
    BY <2>3 DEF a, b, q
<1> QED
  BY <1>7, <1>10, <1>16 DEF n, S, Divides

\* The ring holds the latest durations: up to next those of this round, after it
\* what is left of the one before.
RingInv ==
    LET n == Len(samples)
        m == Len(sampler.values)
        next == sampler.next
    IN  /\ samples \in Seq(Int) /\ sampler \in [values : Seq(Int), next : Int, count : Int, errors : Int]
        /\ sampler.count = n
        /\ m = IF n < SampleSize THEN n ELSE SampleSize
        /\ next \in 0..(SampleSize - 1) /\ (n < SampleSize => next = 0)
        /\ \A i \in 1..m : sampler.values[i] = IF i <= next THEN samples[n - next + i] ELSE samples[n - next - m + i]

LEMMA RingBegins == RecorderInit => RingInv
<1> SUFFICES ASSUME RecorderInit PROVE RingInv
  OBVIOUS
<1>1. samples = << >> /\ sampler = [values |-> << >>, next |-> 0, count |-> 0, errors |-> 0]
  BY DEF RecorderInit
<1>2. Len(samples) = 0 /\ Len(sampler.values) = 0 /\ << >> \in Seq(Int)
  BY <1>1, EmptySeq
<1> QED
  BY <1>1, <1>2, RecorderAssumption DEF RingInv

LEMMA NextIndex ==
    ASSUME NEW n \in Nat \ {0}, NEW i \in 1..n
    PROVE  i % n = IF i = n THEN 0 ELSE i
<1>1. CASE i = n
  BY <1>1
<1>2. CASE i \in 0..(n - 1)
  BY <1>2
<1> QED
  BY <1>1, <1>2

LEMMA RingKeeps ==
    ASSUME RingInv, NEW ms \in Durations, NEW failed \in BOOLEAN, RecordDuration(ms, failed)
    PROVE  RingInv'
<1> DEFINE n == Len(samples)
           vals == sampler.values
           m == Len(vals)
           next == sampler.next
           N == SampleSize
<1>1. /\ samples \in Seq(Int) /\ vals \in Seq(Int) /\ next \in Int
      /\ sampler \in [values : Seq(Int), next : Int, count : Int, errors : Int] /\ sampler.count = n
      /\ m = (IF n < N THEN n ELSE N) /\ next \in 0..(N - 1) /\ (n < N => next = 0)
      /\ \A i \in 1..m : vals[i] = IF i <= next THEN samples[n - next + i] ELSE samples[n - next - m + i]
  BY DEF RingInv
<1>2. n \in Nat /\ m \in Nat /\ N \in Nat \ {0} /\ ms \in Int
  BY <1>1, LenProperties, RecorderAssumption
<1>3. /\ samples' = Append(samples, ms) /\ samples' \in Seq(Int) /\ Len(samples') = n + 1
      /\ samples'[n + 1] = ms /\ \A i \in 1..n : samples'[i] = samples[i]
  BY <1>1, <1>2, AppendProperties DEF RecordDuration
<1> DEFINE add == Add(sampler, ms)
           more == IF failed THEN 1 ELSE 0
<1>4. sampler' = [add EXCEPT !.errors = add.errors + more] /\ more \in Int
  BY DEF RecordDuration
<1> HIDE DEF more
<1>a. /\ sampler \in [values : Seq(Int), next : Int, count : Int, errors : Int] /\ sampler.count = n
      /\ n + 1 \in Int /\ sampler.next = next
  BY <1>1, <1>2
<1>5. CASE m < N
  <2> DEFINE w == Append(vals, ms)
  <2>1. add = [sampler EXCEPT !.values = w, !.count = sampler.count + 1]
    BY <1>5 DEF Add
  <2>2. /\ w \in Seq(Int) /\ Len(w) = m + 1 /\ w[m + 1] = ms /\ \A i \in 1..m : w[i] = vals[i]
    <3>1. vals \in Seq(Int) /\ ms \in Int
      BY <1>1, <1>2
    <3> HIDE DEF vals
    <3> QED
      BY <3>1, AppendProperties
  <2> HIDE DEF add, w, n, m, N, next, vals
  <2>3. /\ sampler' \in [values : Seq(Int), next : Int, count : Int, errors : Int]
        /\ sampler'.values = w /\ sampler'.count = n + 1 /\ sampler'.next = next
    <3>1. /\ add \in [values : Seq(Int), next : Int, count : Int, errors : Int]
          /\ add.values = w /\ add.count = n + 1 /\ add.next = next
      BY <1>a, <2>1, <2>2
    <3> QED
      BY <1>4, <3>1
  <2>4. n < N /\ m = n /\ next = 0
    BY <1>1, <1>2, <1>5
  <2>5. \A i \in 1..m : vals[i] = samples[i]
    BY <1>1, <1>2, <2>4
  <2>6. \A i \in 1..(n + 1) : w[i] = samples'[i] /\ ~(i <= 0) /\ (n + 1) - 0 - (n + 1) + i = i
    <3> TAKE i \in 1..(n + 1)
    <3>1. CASE i \in 1..n
      BY <1>2, <1>3, <2>2, <2>4, <2>5, <3>1
    <3>2. CASE i = n + 1
      BY <1>2, <1>3, <2>2, <2>4, <3>2
    <3> QED
      BY <1>2, <3>1, <3>2
  <2>7. (n + 1) = (IF n + 1 < N THEN n + 1 ELSE N) /\ 0 \in 0..(N - 1)
    BY <1>2, <2>4
  <2>8. /\ Len(samples') = n + 1 /\ Len(sampler'.values) = n + 1 /\ sampler'.next = 0
        /\ sampler'.values = w /\ sampler'.count = n + 1
    BY <1>3, <2>2, <2>3, <2>4
  <2>9. \A i \in 1..(n + 1) :
           w[i] = IF i <= 0 THEN samples'[n + 1 - 0 + i] ELSE samples'[(n + 1) - 0 - (n + 1) + i]
    BY <2>6
  <2>10. \A i \in 1..Len(sampler'.values) :
           sampler'.values[i] =
              IF i <= sampler'.next THEN samples'[Len(samples') - sampler'.next + i]
              ELSE samples'[Len(samples') - sampler'.next - Len(sampler'.values) + i]
    <3> HIDE DEF w
    <3> QED
      BY <2>8, <2>9
  <2>11. /\ sampler'.count = Len(samples')
         /\ Len(sampler'.values) = (IF Len(samples') < N THEN Len(samples') ELSE N)
         /\ sampler'.next \in 0..(N - 1) /\ sampler'.next = 0
    BY <2>7, <2>8
  <2> QED
    BY <1>3, <2>3, <2>10, <2>11 DEF RingInv, N
<1>6. CASE ~(m < N)
  <2> DEFINE w == [vals EXCEPT ![next + 1] = ms]
             k == (next + 1) % N
  <2>1. add = [sampler EXCEPT !.values = w, !.next = k, !.count = sampler.count + 1]
    BY <1>6 DEF Add
  <2>2. m = N /\ N <= n /\ next + 1 \in 1..m
    BY <1>1, <1>2, <1>6
  <2>3. k = IF next + 1 = N THEN 0 ELSE next + 1
    <3>1. next + 1 \in 1..N
      BY <1>1, <1>2
    <3> QED
      BY <1>2, <3>1, NextIndex
  <2>4. /\ w \in Seq(Int) /\ Len(w) = m
        /\ \A i \in 1..m : w[i] = IF i = next + 1 THEN ms ELSE vals[i]
    <3>1. vals \in [1..m -> Int]
      BY <1>1, LenProperties
    <3>2. w \in [1..m -> Int] /\ \A i \in 1..m : w[i] = IF i = next + 1 THEN ms ELSE vals[i]
      BY <1>2, <3>1
    <3> HIDE DEF w, m
    <3>3. w \in Seq(Int) /\ DOMAIN w = 1..m
      BY <1>2, <3>2
    <3>4. Len(w) = m
      BY <1>2, <3>3, LenProperties
    <3> QED
      BY <3>2, <3>3, <3>4
  <2> HIDE DEF add, w, n, m, N, next, vals, k
  <2>a. /\ n \in Int /\ m \in Int /\ N \in Int /\ next \in Int /\ k \in Int
        /\ m = N /\ N <= n /\ 0 <= next /\ next < N /\ k = IF next + 1 = N THEN 0 ELSE next + 1
    BY <1>1, <1>2, <2>2, <2>3
  <2>b. k \in Int /\ w \in Seq(Int)
    BY <2>4, <2>a
  <2>5. /\ sampler' \in [values : Seq(Int), next : Int, count : Int, errors : Int]
        /\ sampler'.values = w /\ sampler'.count = n + 1 /\ sampler'.next = k
    <3>1. /\ add \in [values : Seq(Int), next : Int, count : Int, errors : Int]
          /\ add.values = w /\ add.count = n + 1 /\ add.next = k
      BY <1>a, <2>1, <2>4, <2>b
    <3> QED
      BY <1>4, <3>1
  <2>6. k \in 0..(N - 1) /\ ~(n + 1 < N)
    BY <1>1, <1>2, <2>2, <2>3
  <2>7. ASSUME NEW i \in 1..m
        PROVE  w[i] = IF i <= k THEN samples'[(n + 1) - k + i] ELSE samples'[(n + 1) - k - m + i]
    <3>1. CASE i = next + 1
      <4>1. w[i] = samples'[n + 1]
        BY <1>3, <2>4, <3>1
      <4>2. CASE next + 1 = N
        <5>1. k = 0 /\ ~(i <= k) /\ (n + 1) - k - m + i = n + 1
          BY <2>a, <3>1, <4>2
        <5> QED
          BY <4>1, <5>1
      <4>3. CASE next + 1 # N
        <5>1. i <= k /\ (n + 1) - k + i = n + 1
          BY <2>a, <3>1, <4>3
        <5> QED
          BY <4>1, <5>1
      <4> QED
        BY <4>2, <4>3
    <3>2. CASE i <= next
      <4>1. n - next + i \in 1..n /\ i # next + 1
        BY <2>a, <3>2
      <4>2. w[i] = samples'[n - next + i]
        BY <1>1, <1>3, <2>4, <3>2, <4>1
      <4>3. CASE next + 1 = N
        <5>1. ~(i <= k) /\ (n + 1) - k - m + i = n - next + i
          BY <2>a, <3>2, <4>3
        <5> QED
          BY <4>2, <5>1
      <4>4. CASE next + 1 # N
        <5>1. i <= k /\ (n + 1) - k + i = n - next + i
          BY <2>a, <3>2, <4>4
        <5> QED
          BY <4>2, <5>1
      <4> QED
        BY <4>3, <4>4
    <3>3. CASE i > next + 1
      <4>1. n - next - m + i \in 1..n /\ i # next + 1 /\ ~(i <= next)
        BY <2>a, <3>3
      <4>2. w[i] = samples'[n - next - m + i]
        BY <1>1, <1>3, <2>4, <4>1
      <4>3. ~(i <= k) /\ (n + 1) - k - m + i = n - next - m + i
        BY <2>a, <3>3
      <4> QED
        BY <4>2, <4>3
    <3> QED
      BY <2>a, <3>1, <3>2, <3>3
  <2> QED
    BY <1>3, <2>2, <2>4, <2>5, <2>6, <2>7 DEF RingInv, N
<1> QED
  BY <1>5, <1>6

\* Two arrangements of the same values have as many of every kind.
LEMMA SameCount ==
    ASSUME NEW n \in Nat, NEW h \in Bijection(1..n, 1..n), NEW S \in SUBSET (1..n), NEW T \in SUBSET (1..n),
           \A i \in 1..n : i \in S <=> h[i] \in T
    PROVE  Cardinality(S) = Cardinality(T)
<1> DEFINE k == [i \in S |-> h[i]]
<1>1. /\ h \in [1..n -> 1..n] /\ \A i, j \in 1..n : h[i] = h[j] => i = j
      /\ \A j \in 1..n : \E i \in 1..n : h[i] = j
  BY DEF Bijection, Injection, Surjection, IsInjective
<1>2. k \in [S -> T]
  BY <1>1
<1>3. \A i, j \in S : k[i] = k[j] => i = j
  BY <1>1
<1>4. \A j \in T : \E i \in S : k[i] = j
  <2> TAKE j \in T
  <2>1. PICK i \in 1..n : h[i] = j
    BY <1>1
  <2>2. i \in S
    BY <2>1
  <2> QED
    BY <2>1, <2>2
<1>5. k \in Bijection(S, T)
  BY <1>2, <1>3, <1>4 DEF Bijection, Injection, Surjection, IsInjective
<1>6. IsFiniteSet(S)
  <2>1. IsFiniteSet(1..n)
    BY FS_Interval
  <2> QED
    BY <2>1, FS_Subset
<1> HIDE DEF k
<1> QED
  BY <1>5, <1>6, FS_Bijection DEF ExistsBijection

LEMMA RingShows ==
    ASSUME RingInv
    PROVE  PercentilesOfLatest
<1> DEFINE n == Len(samples)
           l == sampler.values
           m == Len(l)
           next == sampler.next
           N == SampleSize
           kept == IF n < N THEN n ELSE N
           latest == SubSeq(samples, n - kept + 1, n)
           h == [i \in 1..m |-> IF i <= next THEN m - next + i ELSE i - next]
           AtMost(v) == Cardinality({i \in 1..kept : latest[i] <= v})
<1>1. /\ samples \in Seq(Int) /\ l \in Seq(Int) /\ next \in Int /\ m = kept
      /\ next \in 0..(N - 1) /\ (n < N => next = 0)
      /\ \A i \in 1..m : l[i] = IF i <= next THEN samples[n - next + i] ELSE samples[n - next - m + i]
  BY DEF RingInv
<1>2. n \in Nat /\ m \in Nat /\ N \in Nat \ {0}
  BY <1>1, LenProperties, RecorderAssumption
<1>3. m <= n /\ 0 <= next /\ next <= m
  BY <1>1, <1>2
<1>4. \A i \in 1..m : latest[i] = samples[n - m + i]
  <2> DEFINE b == n - kept + 1
  <2>1. b \in 1..(n + 1) /\ n \in (b - 1)..n /\ n \in Int /\ b = n - m + 1
    <3> HIDE DEF n, m, kept
    <3>1. m = kept
      BY <1>1
    <3> QED
      BY <1>2, <1>3, <3>1
  <2> HIDE DEF b, n, m
  <2>2. \A i \in 1..(n - b + 1) : SubSeq(samples, b, n)[i] = samples[b + i - 1]
    <3>1. \A i \in b..n : samples[i] \in Int
      <4>1. \A i \in b..n : i \in 1..n
        BY <2>1
      <4> QED
        BY <1>1, <4>1, ElementOfSeq DEF n
    <3>2. b \in Int /\ n \in Int
      BY <2>1
    <3> HIDE DEF n
    <3> QED
      BY <3>1, <3>2, SubSeqProperties
  <2>3. \A i \in 1..m : i \in 1..(n - b + 1) /\ b + i - 1 = n - m + i
    BY <1>2, <2>1
  <2>4. latest = SubSeq(samples, b, n)
    BY DEF b
  <2> HIDE DEF latest
  <2> QED
    BY <2>2, <2>3, <2>4
<1> SUFFICES ASSUME m > 0, NEW p \in {50, 95, 99}
             PROVE  LET v == Snapshot.percentiles[p] IN
                    /\ \E i \in 1..kept : latest[i] = v
                    /\ 100 * AtMost(v) >= p * kept /\ 100 * AtMost(v - 1) < p * kept
  BY <1>1 DEF PercentilesOfLatest
<1> DEFINE v == Snapshot.percentiles[p]
<1>5. l # << >>
  BY EmptySeq
<1>6. v = Percentile(l, p)
  BY <1>5 DEF Snapshot
<1> HIDE DEF v, n, l, m, next, N, latest
<1>8. h \in Bijection(1..m, 1..m)
  <2>1. h \in [1..m -> 1..m]
    BY <1>2, <1>3, <1>1
  <2>2. \A i, j \in 1..m : h[i] = h[j] => i = j
    BY <1>2, <1>3, <1>1
  <2>3. \A j \in 1..m : \E i \in 1..m : h[i] = j
    <3> TAKE j \in 1..m
    <3>1. CASE j <= m - next
      <4>1. j + next \in 1..m /\ h[j + next] = j
        BY <1>1, <1>2, <1>3, <3>1
      <4> QED
        BY <4>1
    <3>2. CASE j > m - next
      <4>1. j - (m - next) \in 1..m /\ h[j - (m - next)] = j
        BY <1>1, <1>2, <1>3, <3>2
      <4> QED
        BY <4>1
    <3>3. j \in Int /\ m - next \in Int
      BY <1>1, <1>2
    <3> QED
      BY <3>1, <3>2, <3>3
  <2> QED
    BY <2>1, <2>2, <2>3 DEF Bijection, Injection, Surjection, IsInjective
<1>9. \A i \in 1..m : h[i] \in 1..m /\ l[i] = latest[h[i]]
  <2> TAKE i \in 1..m
  <2>1. CASE i <= next
    <3>1. h[i] = m - next + i /\ h[i] \in 1..m /\ n - m + (m - next + i) = n - next + i
      BY <1>1, <1>2, <1>3, <2>1
    <3> QED
      BY <1>1, <1>4, <2>1, <3>1
  <2>2. CASE ~(i <= next)
    <3>1. h[i] = i - next /\ h[i] \in 1..m /\ n - m + (i - next) = n - next - m + i
      BY <1>1, <1>2, <1>3, <2>2
    <3> QED
      BY <1>1, <1>4, <2>2, <3>1
  <2> QED
    BY <2>1, <2>2
<1> HIDE DEF h
<1> DEFINE S(w) == {i \in 1..m : l[i] <= w}
           T(w) == {i \in 1..m : latest[i] <= w}
<1>10. ASSUME NEW w PROVE Cardinality(S(w)) = Cardinality(T(w))
  <2>1. S(w) \in SUBSET (1..m) /\ T(w) \in SUBSET (1..m) /\ \A i \in 1..m : i \in S(w) <=> h[i] \in T(w)
    BY <1>9
  <2> HIDE DEF S, T
  <2> QED
    BY <1>2, <1>8, <2>1, SameCount
<1>11. /\ S(v) \in SUBSET (1..m) /\ \A i \in 1..m : i \in S(v) <=> l[i] <= v
       /\ S(v - 1) \in SUBSET (1..m) /\ \A i \in 1..m : i \in S(v - 1) <=> l[i] <= v - 1
  OBVIOUS
<1>12. AtMost(v) = Cardinality(T(v)) /\ AtMost(v - 1) = Cardinality(T(v - 1))
  BY <1>1
<1> HIDE DEF S, T, AtMost
<1>13. /\ \E i \in 1..m : l[i] = v
       /\ Divides(p, m, S(v), S(v - 1))
  <2> DEFINE A == S(v)
             B == S(v - 1)
             q == Percentile(l, p)
  <2>1. l \in Seq(Int) /\ m = Len(l)
    BY <1>1 DEF m
  <2>2. A \in SUBSET (1..Len(l)) /\ B \in SUBSET (1..Len(l))
    BY <1>11, <2>1
  <2>3. \A i \in 1..Len(l) : i \in A <=> l[i] <= Percentile(l, p)
    BY <1>6, <1>11, <2>1
  <2>4. \A i \in 1..Len(l) : i \in B <=> l[i] <= Percentile(l, p) - 1
    BY <1>6, <1>11, <2>1
  <2> HIDE DEF A, B
  <2>5. /\ \E i \in 1..Len(l) : l[i] = Percentile(l, p)
        /\ Divides(p, Len(l), A, B)
    BY <1>5, <2>1, <2>2, <2>3, <2>4, PercentileIs
  <2> QED
    BY <1>6, <2>1, <2>5 DEF A, B
<1>14. \E i \in 1..m : latest[i] = v
  BY <1>9, <1>13
<1>15. 100 * AtMost(v) >= p * m /\ 100 * AtMost(v - 1) < p * m
  BY <1>10, <1>12, <1>13 DEF Divides
<1> QED
  BY <1>1, <1>14, <1>15 DEF v

-----------------------------------------------------------------------------
(* Bursts                                                                  *)

\* A series of k writes, the latest ones, with a pause before it and none in it.
Series(t, k) ==
    LET n == Len(t) IN
    k \in 1..n /\ Pause(t, n - k + 1) /\ \A j \in (n - k + 2)..n : ~Pause(t, j)

\* It makes a burst when it has exactly BurstMinimum writes.
LEMMA SeriesReaches ==
    ASSUME NEW t \in Seq(Int), NEW k, Series(t, k)
    PROVE  Reached(t, Len(t)) <=> k = BurstMinimum
<1> DEFINE n == Len(t)
           B == BurstMinimum
           first == n - B + 1
           s == n - k + 1
<1>1. n \in Nat /\ B \in Nat \ {0, 1} /\ k \in 1..n
  BY LenProperties, RecorderAssumption DEF Series
<1>2. Pause(t, s) /\ \A j \in (s + 1)..n : ~Pause(t, j)
  <2>1. n - k + 2 = s + 1
    BY <1>1
  <2> QED
    BY <2>1 DEF Series
<1>3. Reached(t, n) <=> (first >= 1 /\ Pause(t, first) /\ \A j \in (first + 1)..n : ~Pause(t, j))
  BY Zenon DEF Reached
<1>4. first \in Int /\ s \in 1..n /\ first <= n /\ (k = B <=> first = s)
  BY <1>1
<1> HIDE DEF first, s, n, B
<1>5. CASE first = s
  <2>1. Pause(t, first) /\ \A j \in (first + 1)..n : ~Pause(t, j)
    BY <1>2, <1>5
  <2>2. first >= 1
    BY <1>1, <1>4, <1>5
  <2> QED
    BY <1>3, <1>4, <1>5, <2>1, <2>2 DEF n, B
<1>6. CASE first < s
  <2>1. s \in (first + 1)..n
    BY <1>1, <1>4, <1>6
  <2> QED
    BY <1>2, <1>3, <1>4, <1>6, <2>1 DEF n, B
<1>7. CASE first > s
  <2>1. first \in (s + 1)..n
    BY <1>1, <1>4, <1>7
  <2> QED
    BY <1>2, <1>3, <1>4, <1>7, <2>1 DEF n, B
<1> QED
  BY <1>1, <1>3, <1>4, <1>5, <1>6, <1>7 DEF n, B

\* What one more write changes of pauses and bursts: nothing before it.
LEMMA PausesStay ==
    ASSUME NEW t \in Seq(Int), NEW at \in Int
    PROVE  LET u == Append(t, at)
               n == Len(t)
           IN  /\ n \in Nat /\ u \in Seq(Int) /\ Len(u) = n + 1 /\ u[n + 1] = at
               /\ \A i \in 1..n : Pause(u, i) <=> Pause(t, i)
               /\ \A i \in 1..n : Reached(u, i) <=> Reached(t, i)
               /\ Pause(u, n + 1) <=> n = 0 \/ at - t[n] > Window
<1> DEFINE u == Append(t, at)
           n == Len(t)
<1>1. /\ n \in Nat /\ u \in Seq(Int) /\ Len(u) = n + 1 /\ u[n + 1] = at
      /\ \A i \in 1..n : u[i] = t[i]
  BY AppendProperties, LenProperties
<1> HIDE DEF u, n
<1>2. \A i \in 1..n : Pause(u, i) <=> Pause(t, i)
  <2> TAKE i \in 1..n
  <2>1. CASE i = 1
    BY <2>1 DEF Pause
  <2>2. CASE i # 1
    <3>1. i - 1 \in 1..n
      BY <1>1, <2>2
    <3>2. u[i] = t[i] /\ u[i - 1] = t[i - 1]
      BY <1>1, <3>1
    <3> QED
      BY <3>2 DEF Pause
  <2> QED
    BY <2>1, <2>2
<1>3. \A i \in 1..n : Reached(u, i) <=> Reached(t, i)
  <2> TAKE i \in 1..n
  <2> DEFINE first == i - BurstMinimum + 1
  <2>1. BurstMinimum \in Nat \ {0, 1}
    BY RecorderAssumption
  <2>2. first \in Int /\ first <= n /\ i <= n /\ (first >= 1 => first \in 1..n)
    BY <1>1, <2>1
  <2>3. /\ Reached(u, i) <=> (first >= 1 /\ Pause(u, first) /\ \A j \in (first + 1)..i : ~Pause(u, j))
        /\ Reached(t, i) <=> (first >= 1 /\ Pause(t, first) /\ \A j \in (first + 1)..i : ~Pause(t, j))
    BY Zenon DEF Reached
  <2> HIDE DEF first
  <2>4. first >= 1 => \A j \in (first + 1)..i : j \in 1..n
    BY <1>1, <2>2
  <2> QED
    BY <1>2, <2>2, <2>3, <2>4
<1>4. Pause(u, n + 1) <=> n = 0 \/ at - t[n] > Window
  <2>1. n + 1 = 1 <=> n = 0
    BY <1>1
  <2>2. n + 1 - 1 = n /\ (n # 0 => u[n] = t[n])
    BY <1>1
  <2> QED
    BY <1>1, <2>1, <2>2 DEF Pause
<1> QED
  BY <1>1, <1>2, <1>3, <1>4 DEF u, n

\* The window of a path holds the series under way, and its bursts are counted.
BurstsInv ==
    /\ window \in [HotPaths -> [last : Int, count : Nat]] /\ bursts \in [HotPaths -> Nat]
    /\ writes \in [HotPaths -> Seq(Int)] /\ IsFiniteSet(BusyPaths)
    /\ \A p \in HotPaths :
          LET t == writes[p]
              w == window[p]
          IN  /\ t = << >> => w.count = 0
              /\ t # << >> => w.last = t[Len(t)] /\ Series(t, w.count)
    /\ BurstsCounted

LEMMA BurstsBegin == RecorderInit => BurstsInv
<1> SUFFICES ASSUME RecorderInit PROVE BurstsInv
  OBVIOUS
<1>1. /\ window = [p \in HotPaths |-> [last |-> 0, count |-> 0]]
      /\ bursts = [p \in HotPaths |-> 0] /\ writes = [p \in HotPaths |-> << >>]
  BY DEF RecorderInit
<1>2. BusyPaths = {}
  BY <1>1 DEF BusyPaths
<1>3. BurstsCounted
  <2>1. \A p \in HotPaths : {i \in 1..Len(writes[p]) : Reached(writes[p], i)} = {}
    BY <1>1, EmptySeq
  <2> QED
    BY <1>1, <2>1, FS_EmptySet DEF BurstsCounted
<1>4. /\ window \in [HotPaths -> [last : Int, count : Nat]] /\ bursts \in [HotPaths -> Nat]
      /\ writes \in [HotPaths -> Seq(Int)]
  BY <1>1, EmptySeq
<1>5. \A p \in HotPaths : writes[p] = << >> /\ window[p].count = 0
  BY <1>1
<1> QED
  BY <1>2, <1>3, <1>4, <1>5, FS_EmptySet DEF BurstsInv

\* A write of its path goes on with a series or begins one (recordRangeWriteAt).
LEMMA SeriesGoesOn ==
    ASSUME BurstsInv, NEW p \in HotPaths, NEW at \in Int, Burst(p, at), writes' = [writes EXCEPT ![p] = Append(@, at)]
    PROVE  LET u == writes'[p]
               k == window'[p].count
           IN  /\ window' \in [HotPaths -> [last : Int, count : Nat]] /\ window'[p].last = at
               /\ bursts' \in [HotPaths -> Nat] /\ u = Append(writes[p], at)
               /\ Series(u, k)
               /\ bursts'[p] = bursts[p] + (IF k = BurstMinimum THEN 1 ELSE 0)
               /\ \A q \in HotPaths \ {p} : window'[q] = window[q] /\ bursts'[q] = bursts[q] /\ writes'[q] = writes[q]
<1> DEFINE t == writes[p]
           u == Append(t, at)
           n == Len(t)
           w == window[p]
           k == window'[p].count
<1>1. /\ window \in [HotPaths -> [last : Int, count : Nat]] /\ bursts \in [HotPaths -> Nat]
      /\ writes \in [HotPaths -> Seq(Int)] /\ t \in Seq(Int) /\ w \in [last : Int, count : Nat]
      /\ t = << >> => w.count = 0
      /\ t # << >> => w.last = t[Len(t)] /\ Series(t, w.count)
  BY DEF BurstsInv
<1>2. writes'[p] = u /\ \A q \in HotPaths \ {p} : writes'[q] = writes[q]
  BY <1>1
<1>3. /\ n \in Nat /\ u \in Seq(Int) /\ Len(u) = n + 1
      /\ \A i \in 1..n : Pause(u, i) <=> Pause(t, i)
      /\ Pause(u, n + 1) <=> n = 0 \/ at - t[n] > Window
  BY <1>1, PausesStay
<1>4. t = << >> <=> n = 0
  BY <1>1, EmptySeq
<1>5. w.count = 0 <=> n = 0
  <2>1. t # << >> => w.count # 0
    BY <1>1, <1>3 DEF Series
  <2> QED
    BY <1>1, <1>4, <2>1
<1>6. (w.count = 0 \/ at - w.last > Window) <=> Pause(u, n + 1)
  BY <1>1, <1>3, <1>4, <1>5
<1>7. BurstMinimum \in Nat \ {0, 1}
  BY RecorderAssumption
<1>8. CASE w.count = 0 \/ at - w.last > Window
  <2>1. window' = [window EXCEPT ![p] = [last |-> at, count |-> 1]] /\ bursts' = bursts
    BY <1>8 DEF Burst
  <2>2. /\ window' \in [HotPaths -> [last : Int, count : Nat]] /\ window'[p].last = at /\ k = 1
        /\ \A q \in HotPaths \ {p} : window'[q] = window[q] /\ bursts'[q] = bursts[q]
    BY <1>1, <2>1
  <2>3. Series(u, 1)
    <3>1. 1 \in 1..(n + 1) /\ (n + 1) - 1 + 1 = n + 1 /\ ((n + 1) - 1 + 2)..(n + 1) = {}
      BY <1>3
    <3>2. Pause(u, (n + 1) - 1 + 1)
      BY <1>6, <1>8, <3>1
    <3> HIDE DEF u, n
    <3> QED
      BY <1>3, <3>1, <3>2 DEF Series
  <2>4. bursts'[p] = bursts[p] + (IF k = BurstMinimum THEN 1 ELSE 0)
    BY <1>1, <1>7, <2>1, <2>2
  <2> QED
    BY <1>1, <1>2, <2>1, <2>2, <2>3, <2>4
<1>9. CASE ~(w.count = 0 \/ at - w.last > Window)
  <2>1. /\ window' = [window EXCEPT ![p] = [last |-> at, count |-> w.count + 1]]
        /\ bursts' = [bursts EXCEPT ![p] = IF w.count + 1 = BurstMinimum THEN bursts[p] + 1 ELSE bursts[p]]
    BY <1>9 DEF Burst
  <2> DEFINE c == w.count
  <2>2. c \in Nat /\ Series(t, c)
    BY <1>1, <1>4, <1>5, <1>9
  <2>3. /\ window' \in [HotPaths -> [last : Int, count : Nat]] /\ window'[p].last = at /\ k = c + 1
        /\ \A q \in HotPaths \ {p} : window'[q] = window[q]
    BY <1>1, <2>1
  <2>4. /\ bursts' \in [HotPaths -> Nat] /\ \A q \in HotPaths \ {p} : bursts'[q] = bursts[q]
        /\ bursts'[p] = bursts[p] + (IF k = BurstMinimum THEN 1 ELSE 0)
    <3>1. bursts[p] \in Nat /\ c + 1 = k
      BY <1>1, <2>3
    <3> QED
      BY <1>1, <2>1, <3>1
  <2>5. ~Pause(u, n + 1)
    BY <1>6, <1>9
  <2> HIDE DEF c, u, k
  <2>6. Series(u, c + 1)
    <3>1. c \in 1..n /\ Pause(t, n - c + 1) /\ \A j \in (n - c + 2)..n : ~Pause(t, j)
      BY <2>2 DEF Series
    <3> HIDE DEF n
    <3>2. c + 1 \in 1..(n + 1) /\ (n + 1) - (c + 1) + 1 = n - c + 1 /\ n - c + 1 \in 1..n
      BY <1>3, <3>1
    <3>3. Pause(u, n - c + 1)
      BY <1>3, <3>1, <3>2
    <3>4. ASSUME NEW j \in (n - c + 2)..(n + 1) PROVE ~Pause(u, j)
      <4>1. CASE j = n + 1
        BY <2>5, <4>1
      <4>2. CASE j # n + 1
        <5>1. j \in 1..n /\ j \in (n - c + 2)..n
          BY <1>3, <3>1, <4>2
        <5> QED
          BY <1>3, <3>1, <5>1
      <4> QED
        BY <4>1, <4>2
    <3>5. (n + 1) - (c + 1) + 2 = n - c + 2
      BY <1>3, <3>1
    <3> QED
      BY <1>3, <3>2, <3>3, <3>4, <3>5 DEF Series
  <2> QED
    BY <1>2, <2>3, <2>4, <2>6 DEF u, k
<1> QED
  BY <1>8, <1>9

LEMMA BurstsKeep ==
    ASSUME BurstsInv, NEW p \in HotPaths, NEW bytes, NEW at \in Int, RecordRangeWrite(p, bytes, at)
    PROVE  BurstsInv'
<1>1. CASE bytes = 0 \/ bytes > Threshold
  BY <1>1 DEF RecordRangeWrite, BurstsInv, BurstsCounted, BusyPaths
<1>2. CASE ~(bytes = 0 \/ bytes > Threshold)
  <2> DEFINE t == writes[p]
             u == writes'[p]
             n == Len(t)
             k == window'[p].count
  <2>1. Burst(p, at) /\ writes' = [writes EXCEPT ![p] = Append(@, at)]
    BY <1>2 DEF RecordRangeWrite
  <2>2. /\ window' \in [HotPaths -> [last : Int, count : Nat]] /\ window'[p].last = at
        /\ bursts' \in [HotPaths -> Nat] /\ u = Append(t, at) /\ Series(u, k)
        /\ bursts'[p] = bursts[p] + (IF k = BurstMinimum THEN 1 ELSE 0)
        /\ \A q \in HotPaths \ {p} : window'[q] = window[q] /\ bursts'[q] = bursts[q] /\ writes'[q] = writes[q]
    BY <2>1, SeriesGoesOn
  <2>3. t \in Seq(Int) /\ writes \in [HotPaths -> Seq(Int)] /\ bursts \in [HotPaths -> Nat]
    BY DEF BurstsInv
  <2>4. /\ n \in Nat /\ u \in Seq(Int) /\ Len(u) = n + 1 /\ u[n + 1] = at
        /\ \A i \in 1..n : Reached(u, i) <=> Reached(t, i)
    BY <2>2, <2>3, PausesStay
  <2>5. writes' \in [HotPaths -> Seq(Int)]
    <3>1. Append(t, at) \in Seq(Int)
      BY <2>2, <2>4
    <3> QED
      BY <2>1, <2>3, <3>1
  <2>6. IsFiniteSet(BusyPaths')
    <3>1. BusyPaths' \subseteq BusyPaths \cup {p}
      BY <2>2 DEF BusyPaths
    <3>2. IsFiniteSet(BusyPaths \cup {p})
      BY FS_AddElement DEF BurstsInv
    <3> QED
      BY <3>1, <3>2, FS_Subset
  <2>7. ASSUME NEW q \in HotPaths
        PROVE  /\ writes'[q] = << >> => window'[q].count = 0
               /\ writes'[q] # << >> => window'[q].last = writes'[q][Len(writes'[q])] /\ Series(writes'[q], window'[q].count)
    <3>1. CASE q = p
      <4>1. u # << >>
        BY <2>4, EmptySeq
      <4> QED
        BY <2>2, <2>4, <3>1, <4>1
    <3>2. CASE q # p
      BY <2>2, <3>2 DEF BurstsInv
    <3> QED
      BY <3>1, <3>2
  <2>8. ASSUME NEW q \in HotPaths
        PROVE  bursts'[q] = Cardinality({i \in 1..Len(writes'[q]) : Reached(writes'[q], i)})
    <3>1. CASE q = p
      <4> DEFINE S == {i \in 1..n : Reached(t, i)}
                 T == {i \in 1..Len(u) : Reached(u, i)}
      <4>1. bursts[p] = Cardinality(S)
        BY DEF BurstsInv, BurstsCounted
      <4>2. Reached(u, n + 1) <=> k = BurstMinimum
        BY <2>2, <2>4, SeriesReaches
      <4>3. \A i \in 1..(n + 1) : i \in 1..n \/ i = n + 1
        BY <2>4
      <4>4. \A i \in 1..n : i \in 1..(n + 1) /\ i # n + 1
        BY <2>4
      <4>5. IsFiniteSet(S) /\ n + 1 \notin S /\ Cardinality(S) \in Nat
        <5>1. IsFiniteSet(1..n)
          BY <2>4, FS_Interval
        <5>2. S \subseteq 1..n
          OBVIOUS
        <5> HIDE DEF S
        <5>3. IsFiniteSet(S)
          BY <5>1, <5>2, FS_Subset
        <5> QED
          BY <4>4, <5>2, <5>3, FS_CardinalityType
      <4>6. CASE k = BurstMinimum
        <5>1. T = S \cup {n + 1}
          BY <2>4, <4>2, <4>3, <4>4, <4>6
        <5> HIDE DEF S, T
        <5>2. Cardinality(T) = Cardinality(S) + 1
          BY <4>5, <5>1, FS_AddElement
        <5> QED
          BY <2>2, <3>1, <4>1, <4>6, <5>2 DEF T
      <4>7. CASE k # BurstMinimum
        <5>1. T = S
          BY <2>4, <4>2, <4>3, <4>4, <4>7
        <5>2. bursts'[p] = bursts[p]
          BY <2>2, <2>3, <4>7
        <5>3. bursts'[p] = Cardinality(T)
          <6> HIDE DEF S, T
          <6> QED
            BY <4>1, <5>1, <5>2
        <5> QED
          BY <2>2, <3>1, <5>3
      <4> QED
        BY <4>6, <4>7
    <3>2. CASE q # p
      BY <2>2, <3>2 DEF BurstsInv, BurstsCounted
    <3> QED
      BY <3>1, <3>2
  <2> QED
    BY <2>2, <2>5, <2>6, <2>7, <2>8 DEF BurstsInv, BurstsCounted
<1> QED
  BY <1>1, <1>2

-----------------------------------------------------------------------------
(* What is shown *)

RecorderInv == RingInv /\ BurstsInv

LEMMA RecorderBegins == Init => RecorderInv
BY RingBegins, BurstsBegin DEF Init, RecorderInv

LEMMA RecorderKeeps ==
    ASSUME RecorderInv, [Next]_vars
    PROVE  RecorderInv'
<1> USE DEF RecorderInv
<1>1. ASSUME UNCHANGED <<sampler, samples>> PROVE RingInv'
  BY <1>1 DEF RingInv
<1>2. ASSUME UNCHANGED <<window, bursts, writes>> PROVE BurstsInv'
  BY <1>2 DEF BurstsInv, BurstsCounted, BusyPaths
<1>3. CASE UNCHANGED recorderVars
  BY <1>1, <1>2, <1>3 DEF recorderVars
<1>4. ASSUME NEW p \in HotPaths, NEW b \in {0, Threshold, Threshold + 1}, NEW t \in 1..(3 * Window),
             RecordRangeWrite(p, b, t)
      PROVE  RecorderInv'
  <2>1. t \in Int
    BY RecorderAssumption
  <2>2. UNCHANGED <<sampler, samples>>
    BY <1>4 DEF RecordRangeWrite
  <2> QED
    BY <1>1, <1>4, <2>1, <2>2, BurstsKeep
<1>5. ASSUME NEW d \in Durations, NEW failed \in BOOLEAN, RecordDuration(d, failed)
      PROVE  RecorderInv'
  <2>1. UNCHANGED <<window, bursts, writes>>
    BY <1>5 DEF RecordDuration
  <2> QED
    BY <1>2, <1>5, <2>1, RingKeeps
<1>6. CASE Record
  BY <1>4, <1>5, <1>6 DEF Record
<1>7. CASE Edit
  BY <1>3, <1>7 DEF Edit
<1>8. CASE \E entry \in Seqs({1, 2}, 3) \ {<< >>} : AppendLog(entry)
  BY <1>3, <1>8 DEF AppendLog
<1>9. CASE UNCHANGED vars
  BY <1>3, <1>9 DEF vars, recorderVars
<1> QED
  BY <1>6, <1>7, <1>8, <1>9 DEF Next

\* The paths with bursts are ordered by their bursts, then by name.
LEMMA BusierOrders == BurstsInv => Orders(Busier, BusyPaths) /\ IsFiniteSet(BusyPaths)
<1> SUFFICES ASSUME BurstsInv PROVE Orders(Busier, BusyPaths) /\ IsFiniteSet(BusyPaths)
  OBVIOUS
<1>1. \A p \in BusyPaths : p \in Nat /\ bursts[p] \in Nat
  BY RecorderAssumption DEF BurstsInv, BusyPaths
<1>2. \A p, q \in BusyPaths : <<p, q>> \in Busier <=> (bursts[p] > bursts[q] \/ (bursts[p] = bursts[q] /\ p < q))
  BY DEF Busier
<1>3. \A p \in BusyPaths : <<p, p>> \notin Busier
  BY <1>1, <1>2
<1>4. \A p, q \in BusyPaths : p # q => <<p, q>> \in Busier \/ <<q, p>> \in Busier
  BY <1>1, <1>2
<1>5. \A p, q, r \in BusyPaths : <<p, q>> \in Busier /\ <<q, r>> \in Busier => <<p, r>> \in Busier
  <2> TAKE p, q, r \in BusyPaths
  <2>1. /\ p \in Nat /\ q \in Nat /\ r \in Nat
        /\ bursts[p] \in Nat /\ bursts[q] \in Nat /\ bursts[r] \in Nat
    BY <1>1
  <2>2. /\ <<p, q>> \in Busier <=> (bursts[p] > bursts[q] \/ (bursts[p] = bursts[q] /\ p < q))
        /\ <<q, r>> \in Busier <=> (bursts[q] > bursts[r] \/ (bursts[q] = bursts[r] /\ q < r))
        /\ <<p, r>> \in Busier <=> (bursts[p] > bursts[r] \/ (bursts[p] = bursts[r] /\ p < r))
    BY <1>2
  <2> QED
    BY <2>1, <2>2
<1> QED
  BY <1>3, <1>4, <1>5 DEF Orders, BurstsInv

LEMMA RecorderShows == RecorderInv => SnapshotIsExact
<1> SUFFICES ASSUME RecorderInv PROVE SnapshotIsExact
  OBVIOUS
<1>1. RingInv /\ BurstsInv
  BY DEF RecorderInv
<1>2. PercentilesOfLatest /\ BurstsCounted
  BY <1>1, RingShows DEF BurstsInv
<1>3. Snapshot.count = Len(samples)
  BY <1>1 DEF Snapshot, RingInv
<1> DEFINE hot == Snapshot.hotPaths
           s == InOrder(BusyPaths, Busier)
           n == Cardinality(BusyPaths)
<1>4. hot = s
  BY DEF Snapshot
<1>5. /\ s \in [1..n -> BusyPaths] /\ Len(s) = n
      /\ \A p \in BusyPaths : \E i \in 1..n : s[i] = p
      /\ \A i, j \in 1..n : i < j => <<s[i], s[j]>> \in Busier
  BY <1>1, BusierOrders, InOrderIs
<1>6. \A p, q : <<p, q>> \in Busier => bursts[p] > bursts[q] \/ (bursts[p] = bursts[q] /\ p < q)
  BY DEF Busier
<1> HIDE DEF hot, s, n
<1>7. {hot[i] : i \in 1..Len(hot)} = BusyPaths
  BY <1>4, <1>5
<1>8. \A i, j \in 1..Len(hot) :
         i < j => bursts[hot[i]] > bursts[hot[j]] \/ (bursts[hot[i]] = bursts[hot[j]] /\ hot[i] < hot[j])
  BY <1>4, <1>5, <1>6
<1> QED
  BY <1>2, <1>3, <1>7, <1>8 DEF SnapshotIsExact, hot

\* Percentiles of the latest durations, a burst counted once, and the paths with
\* bursts in their order: what Snapshot shows, after every sequence of calls.
THEOREM SnapshotsAreExact == Spec => []SnapshotIsExact
<1>1. Spec => []RecorderInv
  BY RecorderBegins, RecorderKeeps, PTL DEF Spec
<1> QED
  BY <1>1, RecorderShows, PTL
=============================================================================
