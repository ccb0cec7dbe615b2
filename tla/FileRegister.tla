---------------------------- MODULE FileRegister ----------------------------
(***************************************************************************)
(* What the file services promise to clients: a file is a versioned        *)
(* register and an accepted write is one atomic compare-and-swap.  It      *)
(* applies to the content recorded last, and is accepted only against the  *)
(* current version (or blindly, with base 0, or where nothing is           *)
(* recorded).  A rename moves the registers of a tree at once.  Everything *)
(* between the locks, the disk and the database is hidden.                 *)
(*                                                                         *)
(* The promise is about each path for as long as disk and database have    *)
(* not parted there.  When they have, its register is lost, for good.      *)
(***************************************************************************)
EXTENDS Integers, PathTree

CONSTANTS
    EmptyContent, Requests, Mutate(_, _),
    Strays   \* what a file may hold that the server has not recorded

VARIABLE file

Never == [state |-> "never", data |-> EmptyContent, version |-> 0]
Lost == [state |-> "lost", data |-> EmptyContent, version |-> 0]

\* The registers become those of `next', except for some that are lost.
Becomes(next) ==
    file' = [p \in Paths |-> IF file[p] = Lost \/ file'[p] = Lost THEN Lost ELSE next[p]]

\* Conditions under which a write with this base version is accepted.
Accepts(r) ==
    \/ r.base = 0
    \/ file[r.path].version = 0
    \/ r.base = file[r.path].version

\* A path without a record may hold a file that the server did not write.
Outcomes(r) ==
    IF file[r.path].state = "file" THEN {Mutate(r, file[r.path].data)}
    ELSE {Mutate(r, c) : c \in Strays}

AtomicWrite(r) ==
    /\ r.op \in {"write", "range", "resize"}
    /\ file[r.path].state # "dir"
    /\ Accepts(r)
    /\ \E c \in Outcomes(r) :
        Becomes([file EXCEPT ![r.path] =
                    [state |-> "file", data |-> c, version |-> file[r.path].version + 1]])

AtomicDelete(r) ==
    /\ r.op = "delete"
    /\ Becomes([file EXCEPT ![r.path] =
                    [state |-> "gone", data |-> EmptyContent, version |-> file[r.path].version + 1]])

AtomicMkdir(r) ==
    /\ r.op = "mkdir"
    /\ file[r.path].state # "file"
    /\ Becomes([file EXCEPT ![r.path] =
                    [state |-> "dir", data |-> EmptyContent, version |-> file[r.path].version]])

\* A move takes the whole record along.  Only one of the two may have a
\* history, and only one may be there.
Present(f) == f.state \in {"file", "dir"}
CanMove(f, g) == (f.version = 0 \/ g.version = 0) /\ ~(Present(f) /\ Present(g))
Moved(f, g) ==
    LET stays == IF Present(f) \/ g.state = "never" THEN f ELSE g
    IN  IF f = Lost THEN Lost
        ELSE [state |-> stays.state, data |-> stays.data, version |-> f.version + g.version]

AtomicRename(r) ==
    LET From(q) == file[Source(r.path, r.to, q)] IN
    /\ r.op = "rename" /\ Tree(r.path) \cap Tree(r.to) = {}
    /\ \A q \in Paths :
         Arrives(r.path, r.to, q) => Lost \in {From(q), file[q]} \/ CanMove(From(q), file[q])
    /\ Becomes([q \in Paths |->
                 IF q \in Tree(r.path) THEN Never
                 ELSE IF Arrives(r.path, r.to, q) THEN Moved(From(q), file[q])
                 ELSE file[q]])

\* Disk and database part on some paths.
Part == Becomes(file)

RegisterInit == file \in [Paths -> [state : {"never", "file"}, data : {EmptyContent}, version : {0, 1}]]
RegisterNext ==
    \/ Part
    \/ \E r \in Requests : AtomicWrite(r) \/ AtomicDelete(r) \/ AtomicMkdir(r) \/ AtomicRename(r)
RegisterSpec == RegisterInit /\ [][RegisterNext]_file
=============================================================================
