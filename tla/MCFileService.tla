--------------------------- MODULE MCFileService ---------------------------
(* Instances of FileService: the request sets of the runs.                   *)
EXTENDS FileService, TLC

NoBytes == << >>
X == <<1>>
Y == <<2, 2>>
Z == <<0>>

\* Request constructors.
ReqWrite(p, base, data) ==
    [op |-> "write", path |-> p, to |-> p, base |-> base, off |-> 0, data |-> data, size |-> 0]
ReqRange(p, base, off, data) ==
    [op |-> "range", path |-> p, to |-> p, base |-> base, off |-> off, data |-> data, size |-> 0]
ReqResize(p, base, size) ==
    [op |-> "resize", path |-> p, to |-> p, base |-> base, off |-> 0, data |-> NoBytes, size |-> size]
ReqDelete(p) ==
    [op |-> "delete", path |-> p, to |-> p, base |-> 0, off |-> 0, data |-> NoBytes, size |-> 0]
ReqRename(p, q) ==
    [op |-> "rename", path |-> p, to |-> q, base |-> 0, off |-> 0, data |-> NoBytes, size |-> 0]
ReqMkdir(p) ==
    [op |-> "mkdir", path |-> p, to |-> p, base |-> 0, off |-> 0, data |-> NoBytes, size |-> 0]

\* All contents of up to two bytes.
MCContents == UNION {[1..n -> 0..2] : n \in 0..2}

A == <<"a">>
B == <<"b">>
FlatPaths == {A, B}
FlatRank == [p \in FlatPaths |-> IF p = A THEN 1 ELSE 2]

D == <<"d">>
DF == <<"d", "f">>
E == <<"e">>
EF == <<"e", "f">>
TreePaths == {D, DF, E, EF}
TreeRank == [p \in TreePaths |-> CASE p = D -> 1 [] p = DF -> 2 [] p = E -> 3 [] p = EF -> 4]

\* Two directories with a file each: every operation on a file, with and
\* without a base version, renames of files and of directories in both
\* directions, and operations beneath the directories that move.
TreeRequests ==
    {ReqWrite(DF, 0, X), ReqWrite(DF, 1, Y), ReqWrite(DF, 1, NoBytes),
     ReqRange(DF, 1, 1, X), ReqRange(EF, 0, 1, X), ReqResize(DF, 2, 1),
     ReqDelete(DF), ReqDelete(E), ReqRename(D, E), ReqRename(E, D),
     ReqRename(DF, EF), ReqRename(EF, DF), ReqRename(DF, DF), ReqMkdir(D), ReqMkdir(EF)}
TreeUntracked == {Y}
NothingUntracked == {}
HandlerSymmetry == Permutations(Handlers)

\* Starting from an empty root.
EmptyInit == Init /\ \A p \in Paths : disk[p] = Absent
EmptySpec == EmptyInit /\ [][Next]_vars

\* Starting from an empty root, or with a directory D that holds a file the
\* database knows, knows of by an old schema only, or does not know.
TreeInit == Init /\ disk[E] = Absent /\ disk[D].kind # "file"
TreeSpec == TreeInit /\ [][Next]_vars

\* The requests that lead to the places where code and documents disagree.
ClobberRequests == {ReqWrite(A, 0, X), ReqWrite(B, 0, Y), ReqRename(A, B)}
\* Renames that cross and collide, and writes that wait for them.
CrossingRequests == {ReqRename(A, B), ReqRename(B, A), ReqWrite(A, 0, X), ReqWrite(B, 0, Y), ReqDelete(B)}
LiveSpec == EmptyInit /\ [][Next]_vars /\ Fairness
=============================================================================
