---------------------------- MODULE FileContent ----------------------------
(***************************************************************************)
(* File contents as sequences of bytes, and what a range write and a       *)
(* resize do to them: on disk (os.File.WriteAt, Truncate) and in the       *)
(* buffers from which CoreService builds a conflict copy.                  *)
(***************************************************************************)
EXTENDS Integers, Sequences

CONSTANT MaxInt   \* the largest int64, math.MaxInt64 in the code

ASSUME MaxIntAssumption == MaxInt \in Nat

Zeros(n) == [i \in 1..n |-> 0]
LongerLen(a, b) == IF a > b THEN a ELSE b

\* Go's copy(dst[at:], src): as many bytes as both slices have.
CopyInto(dst, at, src) ==
    [i \in 1..Len(dst) |-> IF i > at /\ i - at <= Len(src) THEN src[i - at] ELSE dst[i]]

\* int64 addition.
WrappedSum(a, b) == IF a + b > MaxInt THEN a + b - 2 * (MaxInt + 1) ELSE a + b

\* Mutant: no check of the wrapped sum.
ApplyUnchecked(base, offset, data) ==
    LET end == WrappedSum(offset, Len(data)) IN
    [ok |-> TRUE,
     data |-> CopyInto(CopyInto(Zeros(LongerLen(Len(base), end)), 0, base), offset, data)]

\* "ok" and the content, or "error" when the end of the range overflows.
ApplyRangeMutation(base, offset, data) ==
    LET end == WrappedSum(offset, Len(data)) IN
    IF end < offset THEN [ok |-> FALSE, data |-> << >>]
    ELSE [ok |-> TRUE,
          data |-> CopyInto(CopyInto(Zeros(LongerLen(Len(base), end)), 0, base), offset, data)]

ResizeFileData(base, size) == CopyInto(Zeros(size), 0, base)

\* os.File.WriteAt on a file with content c: a write past the end leaves zeros
\* between, a write of no bytes leaves the file as it is.
FileWriteAt(c, offset, data) ==
    IF data = << >> THEN c
    ELSE [i \in 1..LongerLen(Len(c), offset + Len(data)) |->
            IF i > offset /\ i <= offset + Len(data) THEN data[i - offset]
            ELSE IF i <= Len(c) THEN c[i] ELSE 0]

\* os.File.Truncate on a file with content c.
FileTruncate(c, size) == [i \in 1..size |-> IF i <= Len(c) THEN c[i] ELSE 0]

\* FileSystem.ReadAt: length 0 reads to the end of the file.
FileReadAt(c, offset, length) ==
    IF offset >= Len(c) THEN << >>
    ELSE LET rest == Len(c) - offset
             n == IF length > 0 /\ length < rest THEN length ELSE rest
         IN SubSeq(c, offset + 1, offset + n)
=============================================================================
