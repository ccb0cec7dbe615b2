----------------------------- MODULE FileEdits ---------------------------
(***************************************************************************)
(* Every edit of a small file, made twice: on disk, as an accepted         *)
(* WriteFileRange or SetFileSize makes it, and in the buffer from which    *)
(* the same request would have built a conflict copy of the same bytes.    *)
(* The numbers are four-bit integers, so offsets overflow.                *)
(***************************************************************************)
EXTENDS FileContent

CONSTANTS Bytes, MaxData   \* byte values; bytes in one request

ASSUME EditAssumption == MaxData \in 0..MaxInt   \* the length of a slice is an int

VARIABLES
    file,    \* the file on disk
    before,  \* the file before the last edit
    copy,    \* the last edit as a conflict copy would show it
    edit     \* the last edit

NoEdit == [op |-> "none", off |-> 0, data |-> << >>, size |-> 0]
Data == UNION {[1..n -> Bytes] : n \in 0..MaxData}

EditInit == file = << >> /\ before = << >> /\ copy = << >> /\ edit = NoEdit

\* The operating system refuses a write that ends past the largest offset.
RangeEdit(off, data) ==
    LET made == ApplyRangeMutation(file, off, data) IN
    /\ file' = IF off + Len(data) > MaxInt THEN file ELSE FileWriteAt(file, off, data)
    /\ copy' = IF made.ok THEN made.data ELSE file
    /\ before' = file
    /\ edit' = [op |-> IF made.ok THEN "range" ELSE "rejected", off |-> off, data |-> data, size |-> 0]

SizeEdit(size) ==
    /\ file' = FileTruncate(file, size)
    /\ copy' = ResizeFileData(file, size)
    /\ before' = file
    /\ edit' = [op |-> "resize", off |-> 0, data |-> << >>, size |-> size]

EditNext ==
    \/ \E off \in 0..MaxInt, data \in Data : RangeEdit(off, data)
    \/ \E size \in 0..MaxInt : SizeEdit(size)

EditSpec == EditInit /\ [][EditNext]_<<file, before, copy, edit>>

-----------------------------------------------------------------------------

\* A range write followed by ReadFileRange returns the bytes before the range
\* (zeros where the file was shorter), the bytes written, and the old bytes
\* after the range, whichever of the three parts are empty.
ReadsBack ==
    edit.op = "range" /\ edit.data # << >> =>
        LET end == edit.off + Len(edit.data) IN
        /\ FileReadAt(file, edit.off, Len(edit.data)) = edit.data
        /\ edit.off > 0 => FileReadAt(file, 0, edit.off) = FileTruncate(before, edit.off)
        /\ FileReadAt(file, end, 0) = FileReadAt(before, end, 0)

\* A conflict copy holds what the same request would have made of the file on
\* disk.  The one exception is a range write of no bytes past the end of the
\* file: WriteAt leaves the file as it is, applyRangeMutation extends it.  In
\* particular it refuses exactly the ranges that the disk refuses, up to the
\* largest offset: its check of the wrapped sum misses no overflow.  And the edit
\* on disk reads back.
CopyShowsTheEdit ==
    /\ ReadsBack
    /\ copy = IF edit.op = "range" /\ edit.data = << >>
              THEN FileTruncate(file, LongerLen(Len(file), edit.off))
              ELSE file
=============================================================================
