---------------------------- MODULE FileService ----------------------------
(***************************************************************************)
(* The file mutations of the server: SyncService.WriteFile(Stream) and     *)
(* CoreService.WriteFileRange, SetFileSize, Delete, Rename and Mkdir.      *)
(* Each request runs in a goroutine of its own (a handler).  A handler     *)
(* takes the locks of its paths from the shared PathLocker, and then       *)
(* alternates between the disk and the database: no step covers both, so   *)
(* other handlers, a failure or a crash fall between any two of them.      *)
(*                                                                         *)
(* One action is one system call or one database statement together with  *)
(* the computation that follows it.                                        *)
(***************************************************************************)
EXTENDS VersionStore, FileContent

CONSTANTS
    Handlers,       \* goroutines serving requests
    Requests,       \* the requests clients may send
    Rank,           \* path -> its place in the order of sort.Strings
    MaxCopies,      \* conflict_files.max_copies_per_path
    UntrackedData,  \* contents of files put below the root by other programs
    MaxRequests,    \* bound: requests served
    MaxFaults,      \* bound: failures and crashes
    Nobody          \* the owner of a free lock

Ops == {"write", "range", "resize", "delete", "rename", "mkdir"}
Writes == {"write", "range", "resize"}
RequestType ==
    [op : Ops, path : Paths, to : Paths, base : 0..MaxVersion,
     off : Nat, data : Contents, size : Nat]

\* The operating system refuses a range that ends past the largest offset.
ASSUME RequestsAssumption ==
    /\ Requests \subseteq RequestType /\ Requests # {}
    /\ \A r \in Requests : r.off + Len(r.data) <= MaxInt
ASSUME BytesAssumption == Contents \subseteq Seq(Nat) /\ EmptyContent = << >>
ASSUME RankAssumption ==
    /\ Rank \in [Paths -> Nat]
    /\ \A p, q \in Paths : Rank[p] = Rank[q] => p = q
    /\ \E p \in Paths : \A q \in Paths : Rank[q] <= Rank[p]
\* The directories above a path have paths too.
ASSUME PathsClosed == \A p \in Paths : \A n \in 1..Len(p) : SubSeq(p, 1, n) \in Paths
ASSUME HandlersAssumption == Nobody \notin Handlers
ASSUME BoundsAssumption ==
    /\ MaxCopies \in Nat /\ MaxRequests \in Nat /\ MaxFaults \in Nat
    /\ UntrackedData \subseteq Contents

VARIABLES
    disk,      \* the tree below the root: path -> entry
    copies,    \* path -> its conflict copies, oldest first
    owner,     \* PathLocker: path -> the handler that has its mutex
    pc,        \* handler -> where it is
    req,       \* handler -> the request it serves
    resolved,  \* handler -> fileHeadState, as far as it has been read
    buf,       \* handler -> the content it will record
    reply,     \* handler -> the response it is about to send
    served,    \* requests begun
    faults,    \* failures so far
    tainted    \* history variable: see the properties

handlerVars == <<owner, pc, req, resolved, buf, reply>>
vars == <<dbVars, disk, copies, handlerVars, served, faults, tainted>>

-----------------------------------------------------------------------------
(* Disk *)

Entry == [kind : {"absent", "dir", "file"}, data : Contents]
Absent == [kind |-> "absent", data |-> EmptyContent]
Dir == [kind |-> "dir", data |-> EmptyContent]
File(data) == [kind |-> "file", data |-> data]

Ancestors(p) == {q \in Paths : q # p /\ Under(q, p)}
Beneath(p) == Tree(p) \ {p}

\* os.MkdirAll of the directory that holds p.
CanMkdirAll(p) == \A q \in Ancestors(p) : disk[q].kind # "file"
WithParents(p) == [q \in Paths |-> IF q \in Ancestors(p) THEN Dir ELSE disk[q]]

\* The content a write that opens p with O_CREATE starts from.
Opened(p) == IF disk[p].kind = "file" THEN disk[p].data ELSE EmptyContent

\* os.Remove: a file, or a directory that holds neither files nor copies.
CanRemove(p) ==
    \/ disk[p].kind = "file"
    \/ disk[p].kind = "dir" /\ \A q \in Beneath(p) : disk[q] = Absent /\ copies[q] = << >>

\* FileSystem.Rename: os.MkdirAll of the target's directory, then os.Rename,
\* which replaces a file, but no directory, and moves no directory into itself.
CanRename(old, new) ==
    LET d == WithParents(new) IN
    /\ CanMkdirAll(new)
    /\ d[old].kind # "absent"
    /\ d[new].kind # "dir"
    /\ ~(d[old].kind = "dir" /\ d[new].kind = "file")
    /\ ~Under(old, new)
    /\ \A q \in Tree(old) : d[q] # Absent => Rebase(old, new, q) \in Paths

DiskRename(old, new) ==
    LET d == WithParents(new) IN
    /\ disk' = [q \in Paths |->
                 IF q \in Tree(old) THEN Absent
                 ELSE IF Arrives(old, new, q) THEN d[Source(old, new, q)]
                 ELSE d[q]]
    /\ copies' = [q \in Paths |->
                 IF q \in Beneath(old) THEN << >>
                 ELSE IF Arrives(old, new, q) /\ q # new THEN copies[Source(old, new, q)]
                 ELSE copies[q]]

-----------------------------------------------------------------------------
(* Handlers *)

NoHead == [version |-> 0, exists |-> FALSE, deleted |-> FALSE, data |-> EmptyContent]
NoReply == [kind |-> "none", version |-> 0, copied |-> FALSE]
Ok(v) == [kind |-> "ok", version |-> v, copied |-> FALSE]
Conflicted(v, copied) == [kind |-> "conflict", version |-> v, copied |-> copied]
Error == [kind |-> "error", version |-> 0, copied |-> FALSE]

NoRequest == CHOOSE r \in Requests : TRUE   \* of a handler that serves none

Stages == {"idle", "lock", "latest", "meta", "stat", "decide", "readback", "commit",
           "remove", "commitDelete", "fsRename", "renameTx", "revert",
           "fsMkdir", "setMeta", "reply"}

FirstStage(op) ==
    CASE op \in Writes -> "latest"
      [] op = "delete" -> "remove"
      [] op = "rename" -> "fsRename"
      [] op = "mkdir" -> "fsMkdir"

LockSet(r) == IF r.op = "rename" THEN {r.path, r.to} ELSE {r.path}
Held(h) == {p \in Paths : owner[p] = h}
Wanted(h) == LockSet(req[h]) \ Held(h)
\* Mutant: locks in the order of the request.
NextLockOfRequest(h) == IF req[h].path \in Wanted(h) THEN req[h].path ELSE req[h].to

NextLock(h) == CHOOSE p \in Wanted(h) : \A q \in Wanted(h) : Rank[p] <= Rank[q]

\* Stages in which a handler has read or changed something that its next step
\* relies on, and those in which the disk is ahead of the database.
InFlight == {"meta", "stat", "decide", "readback", "commit", "commitDelete",
             "renameTx", "revert", "setMeta"}
Moving == {"renameTx", "revert"}
Ahead(h) ==
    CASE pc[h] \in {"readback", "commit", "commitDelete", "setMeta"} -> {req[h].path}
      [] pc[h] \in Moving -> Tree(req[h].path) \cup Tree(req[h].to)
      [] OTHER -> {}

\* The trees that one handler is renaming while another, which holds the lock
\* of a path beneath them only, is in flight.
Raced ==
    UNION {Tree(req[h].path) \cup Tree(req[h].to) : h \in
        {r \in Handlers :
            /\ pc[r] \in Moving
            /\ \E o \in Handlers \ {r} :
                /\ pc[o] \in InFlight
                /\ LockSet(req[o]) \cap (Tree(req[r].path) \cup Tree(req[r].to)) # {}}}

\* Something fails, or the process dies.
Fault == faults < MaxFaults /\ faults' = faults + 1

Taint(S) == tainted' = tainted \cup S \cup Raced'

Goto(h, stage) == pc' = [pc EXCEPT ![h] = stage]
Respond(h, r) ==
    /\ reply' = [reply EXCEPT ![h] = r]
    /\ Goto(h, "reply")

\* What the request makes of a file with content c.
Mutate(r, c) ==
    CASE r.op = "write" -> r.data
      [] r.op = "range" -> FileWriteAt(c, r.off, r.data)
      [] r.op = "resize" -> FileTruncate(c, r.size)

-----------------------------------------------------------------------------
(* Locking *)

\* Rename of a path to itself returns before it takes a lock.
Begin(h, r) ==
    /\ pc[h] = "idle"
    /\ served < MaxRequests
    /\ served' = served + 1
    /\ req' = [req EXCEPT ![h] = r]
    /\ IF r.op = "rename" /\ r.path = r.to
       THEN Respond(h, Ok(0))
       ELSE Goto(h, "lock") /\ UNCHANGED reply
    /\ UNCHANGED <<dbVars, disk, copies, owner, resolved, buf, faults>>
    /\ Taint({})

\* Mutant: a lock does not exclude.
AcquireShared(h) ==
    /\ pc[h] = "lock"
    /\ Goto(h, FirstStage(req[h].op))
    /\ UNCHANGED <<dbVars, disk, copies, owner, req, resolved, buf, reply, served, faults>>
    /\ Taint({})

\* Lock and LockMany: one mutex after the other, in the order of the paths.
Acquire(h) ==
    /\ pc[h] = "lock"
    /\ owner[NextLock(h)] = Nobody
    /\ owner' = [owner EXCEPT ![NextLock(h)] = h]
    /\ IF Wanted(h) = {NextLock(h)} THEN Goto(h, FirstStage(req[h].op)) ELSE UNCHANGED pc
    /\ UNCHANGED <<dbVars, disk, copies, req, resolved, buf, reply, served, faults>>
    /\ Taint({})

\* The deferred unlock, and the response on its way.
Finish(h) ==
    /\ pc[h] = "reply"
    /\ owner' = [p \in Paths |-> IF owner[p] = h THEN Nobody ELSE owner[p]]
    /\ req' = [req EXCEPT ![h] = NoRequest]
    /\ resolved' = [resolved EXCEPT ![h] = NoHead]
    /\ buf' = [buf EXCEPT ![h] = EmptyContent]
    /\ reply' = [reply EXCEPT ![h] = NoReply]
    /\ Goto(h, "idle")
    /\ UNCHANGED <<dbVars, disk, copies, served, faults>>
    /\ Taint({})

-----------------------------------------------------------------------------
(* mutationSupport.ResolveFileHead *)

ResolveLatest(h) ==
    LET p == req[h].path
        last == Max((DOMAIN ver[p]) \cup {0})
    IN
    /\ pc[h] = "latest"
    /\ resolved' = [resolved EXCEPT ![h] =
            IF last = 0 THEN NoHead
            ELSE [version |-> last, exists |-> FALSE,
                  deleted |-> ver[p][last].change = "delete", data |-> ver[p][last].data]]
    /\ Goto(h, "meta")
    /\ UNCHANGED <<dbVars, disk, copies, owner, req, buf, reply, served, faults>>
    /\ Taint({})

ResolveMeta(h) ==
    LET m == meta[req[h].path] IN
    /\ pc[h] = "meta"
    /\ resolved' = [resolved EXCEPT ![h] =
            IF m.kind = "none" THEN @
            ELSE [version |-> m.version, exists |-> TRUE, deleted |-> FALSE, data |-> m.data]]
    /\ Goto(h, IF m.kind = "none" /\ ~resolved[h].deleted THEN "stat" ELSE "decide")
    /\ UNCHANGED <<dbVars, disk, copies, owner, req, buf, reply, served, faults>>
    /\ Taint({})

ResolveStat(h) ==
    LET e == disk[req[h].path] IN
    /\ pc[h] = "stat"
    /\ resolved' = [resolved EXCEPT ![h].exists = e.kind # "absent", ![h].data = e.data]
    /\ Goto(h, "decide")
    /\ UNCHANGED <<dbVars, disk, copies, owner, req, buf, reply, served, faults>>
    /\ Taint({})

-----------------------------------------------------------------------------
(* WriteFile, WriteFileRange, SetFileSize *)

\* Mutant: only an older base version conflicts.
StaleIfOlder(h) == req[h].base # 0 /\ req[h].base < resolved[h].version

Stale(h) ==
    /\ req[h].base # 0
    /\ resolved[h].version # 0
    /\ req[h].base # resolved[h].version

\* What the client wanted to write: its whole content, or its mutation applied
\* to the version it started from, if that version's bytes can be loaded.
BaseSnapshot(p, v) ==
    IF v \notin DOMAIN ver[p] THEN {}
    ELSE IF ver[p][v].change = "delete" THEN {EmptyContent}
    ELSE IF ver[p][v].blob THEN {ver[p][v].data} ELSE {}

ConflictData(r) ==
    CASE r.op = "write" -> {r.data}
      [] r.op = "range" -> {ApplyRangeMutation(c, r.off, r.data).data : c \in BaseSnapshot(r.path, r.base)}
      [] r.op = "resize" -> {ResizeFileData(c, r.size) : c \in BaseSnapshot(r.path, r.base)}

\* Bound of the contents: no request leads out of them.
ASSUME ContentsClosed ==
    \A r \in Requests, c \in Contents :
        /\ r.op \in Writes => Mutate(r, c) \in Contents
        /\ r.op = "range" => ApplyRangeMutation(c, r.off, r.data).data \in Contents
        /\ r.op = "resize" => ResizeFileData(c, r.size) \in Contents

\* Mutant: the oldest copies stay.
TrimKeepsOldest(s) == IF MaxCopies > 0 /\ Len(s) > MaxCopies THEN SubSeq(s, 1, MaxCopies) ELSE s

\* cleanupConflictCopiesForPath, which only SyncService runs: the newest stay.
Trim(s) == IF MaxCopies > 0 /\ Len(s) > MaxCopies THEN SubSeq(s, Len(s) - MaxCopies + 1, Len(s)) ELSE s

\* The answer to a conflict of which no copy could be made: writing a file is
\* an error then, the range and size handlers answer without a copy.
WithoutCopy(h) ==
    IF req[h].op = "write" THEN Error ELSE Conflicted(resolved[h].version, FALSE)

Conflict(h) ==
    LET r == req[h] IN
    /\ pc[h] = "decide" /\ r.op \in Writes /\ Stale(h)
    /\ IF ConflictData(r) # {} /\ CanMkdirAll(r.path)
       THEN /\ disk' = WithParents(r.path)
            /\ \E c \in ConflictData(r) :
                 copies' = [copies EXCEPT ![r.path] =
                              IF r.op = "write" THEN Trim(Append(@, c)) ELSE Append(@, c)]
            /\ Respond(h, Conflicted(resolved[h].version, TRUE))
       ELSE /\ UNCHANGED <<disk, copies>>
            /\ Respond(h, WithoutCopy(h))
    /\ UNCHANGED <<dbVars, owner, req, resolved, buf, served, faults>>
    /\ Taint({})

\* Mutant: a resize is skipped when the file is large enough.
AlreadyLargeEnough(h) ==
    /\ resolved[h].exists
    /\ \/ req[h].op = "write" /\ resolved[h].version # 0 /\ resolved[h].data = req[h].data
       \/ req[h].op = "resize" /\ Len(resolved[h].data) >= req[h].size
    /\ disk[req[h].path].kind # "absent"

\* The recorded head already is what the request asks for.
AlreadyThere(h) ==
    /\ resolved[h].exists
    /\ \/ req[h].op = "write" /\ resolved[h].version # 0 /\ resolved[h].data = req[h].data
       \/ req[h].op = "resize" /\ Len(resolved[h].data) = req[h].size
    /\ disk[req[h].path].kind # "absent"

SkipWrite(h) ==
    /\ pc[h] = "decide" /\ req[h].op \in Writes /\ ~Stale(h) /\ AlreadyThere(h)
    /\ Respond(h, Ok(resolved[h].version))
    /\ UNCHANGED <<dbVars, disk, copies, owner, req, resolved, buf, served, faults>>
    /\ Taint({})

\* A Stat that fails in that check is taken for a file that is not there.
IsToWrite(h) == (~AlreadyThere(h) /\ UNCHANGED faults) \/ (AlreadyThere(h) /\ Fault)

CanWrite(p) == CanMkdirAll(p) /\ disk[p].kind # "dir"

WriteDisk(h) ==
    LET r == req[h]
        c == Mutate(r, Opened(r.path))
    IN
    /\ pc[h] = "decide" /\ r.op \in Writes /\ ~Stale(h) /\ IsToWrite(h)
    /\ IF CanWrite(r.path)
       THEN /\ disk' = [WithParents(r.path) EXCEPT ![r.path] = File(c)]
            /\ buf' = [buf EXCEPT ![h] = c]
            /\ Goto(h, IF r.op = "write" THEN "commit" ELSE "readback")
            /\ UNCHANGED reply
       ELSE Respond(h, Error) /\ UNCHANGED <<disk, buf>>
    /\ UNCHANGED <<dbVars, copies, owner, req, resolved, served>>
    /\ Taint({})

\* Mutant: the bytes of the request are recorded as the file.
ReadBackRequest(h) ==
    /\ pc[h] = "readback"
    /\ buf' = [buf EXCEPT ![h] = req[h].data]
    /\ Goto(h, "commit")
    /\ UNCHANGED <<dbVars, disk, copies, owner, req, resolved, reply, served, faults>>
    /\ Taint({})

\* The range and size handlers read the whole file back to record it.
ReadBack(h) ==
    LET e == disk[req[h].path] IN
    /\ pc[h] = "readback"
    /\ IF e.kind = "file"
       THEN buf' = [buf EXCEPT ![h] = e.data] /\ Goto(h, "commit") /\ UNCHANGED reply
       ELSE Respond(h, Error) /\ UNCHANGED buf
    /\ UNCHANGED <<dbVars, disk, copies, owner, req, resolved, served, faults>>
    /\ Taint({})

\* An empty bytes field arrives as nil, for which no version_blob is stored;
\* a file read back from disk is never nil.
Commit(h) ==
    LET r == req[h] IN
    /\ pc[h] = "commit"
    /\ SaveFileSnapshot(r.path, buf[h], IF resolved[h].exists THEN "modify" ELSE "create",
                        r.op # "write" \/ buf[h] # EmptyContent)
    /\ Respond(h, Ok(NextVersion(r.path)))
    /\ UNCHANGED <<disk, copies, owner, req, resolved, buf, served, faults>>
    /\ Taint({})

-----------------------------------------------------------------------------
(* Delete *)

RemoveDisk(h) ==
    LET p == req[h].path IN
    /\ pc[h] = "remove"
    /\ IF CanRemove(p)
       THEN disk' = [disk EXCEPT ![p] = Absent] /\ Goto(h, "commitDelete") /\ UNCHANGED reply
       ELSE Respond(h, Error) /\ UNCHANGED disk
    /\ UNCHANGED <<dbVars, copies, owner, req, resolved, buf, served, faults>>
    /\ Taint({})

CommitDelete(h) ==
    /\ pc[h] = "commitDelete"
    /\ AppendDeleteSnapshot(req[h].path)
    /\ Respond(h, Ok(0))
    /\ UNCHANGED <<disk, copies, owner, req, resolved, buf, served, faults>>
    /\ Taint({})

-----------------------------------------------------------------------------
(* Rename *)

\* Copies of what the history variable says about the paths that move.
Carried(old, new) == {q \in Paths : Arrives(old, new, q) /\ Source(old, new, q) \in tainted}

\* A file at the target is replaced before the database has agreed.
RenameDisk(h) ==
    LET old == req[h].path
        new == req[h].to
    IN
    /\ pc[h] = "fsRename"
    /\ IF CanRename(old, new)
       THEN /\ DiskRename(old, new)
            /\ Goto(h, "renameTx")
            /\ UNCHANGED reply
       ELSE /\ disk' = IF CanMkdirAll(new) THEN WithParents(new) ELSE disk
            /\ Respond(h, Error)
            /\ UNCHANGED copies
    /\ UNCHANGED <<dbVars, owner, req, resolved, buf, served, faults>>
    /\ Taint(IF CanRename(old, new)
             THEN Carried(old, new) \cup {p \in {new} : disk[p].kind = "file"}
             ELSE {})

RenameRows(h) ==
    /\ pc[h] = "renameTx"
    /\ RenamePathTree(req[h].path, req[h].to)
    /\ Respond(h, Ok(0))
    /\ UNCHANGED <<disk, copies, owner, req, resolved, buf, served, faults>>
    /\ Taint(Carried(req[h].path, req[h].to))

RenameRowsFails(h) ==
    /\ pc[h] = "renameTx"
    /\ KeyConflict(req[h].path, req[h].to)
    /\ Goto(h, "revert")
    /\ UNCHANGED <<dbVars, disk, copies, owner, req, resolved, buf, reply, served, faults>>
    /\ Taint({})

\* Mutant: the handler tries again for ever.
RevertAndRetry(h) ==
    /\ pc[h] = "revert"
    /\ IF CanRename(req[h].to, req[h].path)
       THEN DiskRename(req[h].to, req[h].path)
       ELSE UNCHANGED <<disk, copies>>
    /\ Goto(h, "fsRename")
    /\ UNCHANGED <<dbVars, owner, req, resolved, buf, reply, served, faults>>
    /\ Taint({})

Revert(h) ==
    LET old == req[h].path
        new == req[h].to
    IN
    /\ pc[h] = "revert"
    /\ IF CanRename(new, old)
       THEN DiskRename(new, old)
       ELSE /\ disk' = IF CanMkdirAll(old) THEN WithParents(old) ELSE disk
            /\ UNCHANGED copies
    /\ Respond(h, Error)
    /\ UNCHANGED <<dbVars, owner, req, resolved, buf, served, faults>>
    /\ Taint(IF CanRename(new, old) THEN Carried(new, old) ELSE Tree(old) \cup Tree(new))

-----------------------------------------------------------------------------
(* Mkdir *)

MkdirDisk(h) ==
    LET p == req[h].path IN
    /\ pc[h] = "fsMkdir"
    /\ IF CanMkdirAll(p) /\ disk[p].kind # "file"
       THEN disk' = [WithParents(p) EXCEPT ![p] = Dir] /\ Goto(h, "setMeta") /\ UNCHANGED reply
       ELSE Respond(h, Error) /\ UNCHANGED disk
    /\ UNCHANGED <<dbVars, copies, owner, req, resolved, buf, served, faults>>
    /\ Taint({})

RecordDir(h) ==
    /\ pc[h] = "setMeta"
    /\ SetDirMeta(req[h].path)
    /\ Respond(h, Ok(0))
    /\ UNCHANGED <<disk, copies, owner, req, resolved, buf, served, faults>>
    /\ Taint({})

-----------------------------------------------------------------------------
(* Failures *)

\* A query, or a file operation that has changed nothing, returns an error: also
\* loading a version for a conflict copy and making the copy.
StepFails(h) ==
    /\ pc[h] \in {"latest", "meta", "stat", "decide", "remove", "fsRename", "fsMkdir"}
    /\ Fault
    /\ Respond(h, IF pc[h] = "decide" /\ Stale(h) THEN WithoutCopy(h) ELSE Error)
    /\ UNCHANGED <<dbVars, disk, copies, owner, req, resolved, buf, served>>
    /\ Taint({})

\* A write to disk fails half way: os.WriteFile has truncated the file, WriteAt
\* or Truncate has taken effect before a later call fails.
WriteDiskFails(h) ==
    LET r == req[h] IN
    /\ pc[h] = "decide" /\ r.op \in Writes /\ ~Stale(h)
    /\ CanWrite(r.path)
    /\ Fault
    /\ disk' = [WithParents(r.path) EXCEPT ![r.path] =
                  File(IF r.op = "write" THEN EmptyContent ELSE Mutate(r, Opened(r.path)))]
    /\ Respond(h, Error)
    /\ UNCHANGED <<dbVars, copies, owner, req, resolved, buf, served>>
    /\ Taint({r.path})

\* The transaction, or the read before it, fails and the disk stays as it is.
CommitFails(h) ==
    /\ pc[h] \in {"readback", "commit", "commitDelete", "setMeta"}
    /\ Fault
    /\ Respond(h, Error)
    /\ UNCHANGED <<dbVars, disk, copies, owner, req, resolved, buf, served>>
    /\ Taint(Ahead(h))

RenameTxFails(h) ==
    /\ pc[h] = "renameTx"
    /\ Fault
    /\ Goto(h, "revert")
    /\ UNCHANGED <<dbVars, disk, copies, owner, req, resolved, buf, reply, served>>
    /\ Taint({})

\* The process dies: locks and requests are gone, disk and database stay.
Crash ==
    /\ Fault
    /\ \E h \in Handlers : pc[h] # "idle"
    /\ pc' = [h \in Handlers |-> "idle"]
    /\ owner' = [p \in Paths |-> Nobody]
    /\ req' = [h \in Handlers |-> NoRequest]
    /\ resolved' = [h \in Handlers |-> NoHead]
    /\ buf' = [h \in Handlers |-> EmptyContent]
    /\ reply' = [h \in Handlers |-> NoReply]
    /\ UNCHANGED <<dbVars, disk, copies, served>>
    /\ Taint(UNION {Ahead(h) : h \in Handlers})

\* The conflict file janitor, or the expiry run of SyncService.
DropOldestCopy(p) ==
    /\ copies[p] # << >>
    /\ copies' = [copies EXCEPT ![p] = Tail(@)]
    /\ UNCHANGED <<dbVars, disk, handlerVars, served, faults>>
    /\ Taint({})

-----------------------------------------------------------------------------
(* Specification *)

TreeShaped(d) == \A p, q \in Paths : Under(p, q) /\ p # q /\ d[q].kind # "absent" => d[p].kind = "dir"

Init ==
    /\ DBInit
    /\ disk \in [Paths -> {Absent, Dir, File(EmptyContent)} \cup {File(c) : c \in UntrackedData}]
    /\ TreeShaped(disk)
    /\ \A p \in Paths : meta[p].kind = "file" => disk[p] = File(meta[p].data)
    /\ copies = [p \in Paths |-> << >>]
    /\ owner = [p \in Paths |-> Nobody]
    /\ pc = [h \in Handlers |-> "idle"]
    /\ req = [h \in Handlers |-> NoRequest]
    /\ resolved = [h \in Handlers |-> NoHead]
    /\ buf = [h \in Handlers |-> EmptyContent]
    /\ reply = [h \in Handlers |-> NoReply]
    /\ served = 0
    /\ faults = 0
    /\ tainted = {}

Write(h) ==
    ResolveLatest(h) \/ ResolveMeta(h) \/ ResolveStat(h) \/ Conflict(h) \/ SkipWrite(h)
    \/ WriteDisk(h) \/ ReadBack(h) \/ Commit(h)
Delete(h) == RemoveDisk(h) \/ CommitDelete(h)
Rename(h) == RenameDisk(h) \/ RenameRows(h) \/ RenameRowsFails(h) \/ Revert(h)
Mkdir(h) == MkdirDisk(h) \/ RecordDir(h)
Failure(h) == StepFails(h) \/ WriteDiskFails(h) \/ CommitFails(h) \/ RenameTxFails(h)

Step(h) == Write(h) \/ Delete(h) \/ Rename(h) \/ Mkdir(h) \/ Finish(h)

\* All requests of the bound are served.
Quiescent ==
    /\ served = MaxRequests
    /\ \A h \in Handlers : pc[h] = "idle"
    /\ UNCHANGED vars

Next ==
    \/ \E h \in Handlers, r \in Requests : Begin(h, r)
    \/ \E h \in Handlers : Acquire(h)
    \/ \E h \in Handlers : Step(h)
    \/ \E h \in Handlers : Failure(h)
    \/ Crash
    \/ \E p \in Paths : DropOldestCopy(p)
    \/ Quiescent

Spec == Init /\ [][Next]_vars

\* A goroutine that can run does run; a free mutex goes to one of its waiters.
Fairness == \A h \in Handlers : WF_vars(Step(h)) /\ WF_vars(Acquire(h))
FairSpec == Spec /\ Fairness

-----------------------------------------------------------------------------
(* Properties *)

FileHead == [version : 0..MaxVersion, exists : BOOLEAN, deleted : BOOLEAN, data : Contents]
Reply == [kind : {"none", "ok", "conflict", "error"}, version : 0..MaxVersion, copied : BOOLEAN]

TypeOK ==
    /\ DBTypeOK
    /\ disk \in [Paths -> Entry]
    /\ copies \in [Paths -> Seq(Contents)]
    /\ owner \in [Paths -> Handlers \cup {Nobody}]
    /\ pc \in [Handlers -> Stages]
    /\ req \in [Handlers -> Requests]
    /\ resolved \in [Handlers -> FileHead]
    /\ buf \in [Handlers -> Contents]
    /\ reply \in [Handlers -> Reply]
    /\ served \in 0..MaxRequests
    /\ faults \in 0..MaxFaults
    /\ tainted \subseteq Paths

\* What the meta row of p says is true of the disk.
Agrees(p) ==
    /\ meta[p].kind = "file" => disk[p] = File(meta[p].data)
    /\ meta[p].kind = "dir" => disk[p].kind = "dir"

\* What a file holds that another program has put below the root.  The server
\* itself leaves no file there that it has not recorded.
Strays == UntrackedData \cup {EmptyContent}
Explained(p) == meta[p].kind = "none" /\ disk[p].kind = "file" => disk[p].data \in Strays

\* Disk and database agree on every path that no handler is changing.  `tainted'
\* holds the paths for which the code is known to let them part: a step of a
\* mutation failed or the process died after the disk had changed; a rename
\* replaced a file on disk; a directory was renamed under a request in flight
\* beneath it; a rename moved a file or a row of such a path.  Nothing else may
\* separate them: about those paths themselves nothing is claimed.
DiskMatchesDatabase ==
    \A p \in Paths :
        p \in tainted \/ (Agrees(p) /\ Explained(p)) \/ \E h \in Handlers : p \in Ahead(h)

\* When a write is recorded, the version that ResolveFileHead compared with the
\* client's base version still is the current one: no update is lost between
\* the check and the transaction, although both run without a common
\* transaction and only the path lock is held.
BaseStillCurrentAtCommit ==
    \A h \in Handlers :
        pc[h] \in {"readback", "commit"} /\ req[h].path \notin tainted =>
            Cur(req[h].path) = resolved[h].version

\* Handler h settles its response in this step.
Responds(h) == pc[h] # "reply" /\ pc'[h] = "reply"

\* A write acknowledged with a version is on disk, as the client sent it, when
\* the handler settles its response; also when it skipped the write because
\* the recorded hash or size already matched.  This is so of paths that are not
\* tainted: after a transaction that failed the disk has B while the meta row
\* still has A, and a write of A is then acknowledged and skipped (WriteFile and
\* SetFileSize compare with the recorded head, not with the file).
AcknowledgedIsOnDisk ==
    [][\A h \in Handlers :
        LET r == req[h]
            e == disk'[r.path]
        IN Responds(h) /\ reply'[h].kind = "ok" /\ reply'[h].version # 0 /\ r.path \notin tainted' =>
            /\ e.kind = "file"
            /\ r.op = "write" => e.data = r.data
            /\ r.op = "resize" => Len(e.data) = r.size]_vars

\* A conflict response that names a copy leaves the client's own data in it: the
\* copy just written survives the trimming that follows it, and the server
\* file stays as it is.
ConflictCopyKept ==
    [][\A h \in Handlers :
        LET s == copies'[req[h].path]
        IN Responds(h) /\ reply'[h].copied =>
            /\ s # << >> /\ s[Len(s)] \in ConflictData(req[h])
            /\ disk'[req[h].path] = disk[req[h].path]
            /\ UNCHANGED dbVars]_vars

\* While a request is being served some handler can take a step: handlers never
\* wait for each other in a circle, although Rename holds one lock while it
\* waits for another.
NoCircularWait ==
    (\E h \in Handlers : pc[h] # "idle") =>
        \E h \in Handlers :
            /\ pc[h] # "idle"
            /\ pc[h] = "lock" => owner[NextLock(h)] = Nobody

\* Every request is answered, or the process dies: no handler waits forever for
\* a lock and no path through a handler misses its response.
EveryRequestEnds == \A h \in Handlers : pc[h] # "idle" ~> pc[h] = "idle"

\* The register a client sees of a path.
RegisterOf(p) ==
    [state |-> CASE meta[p].kind # "none" -> meta[p].kind
                 [] meta[p].kind = "none" /\ ver[p] # NoRows -> "gone"
                 [] OTHER -> "never",
     data |-> meta[p].data,
     version |-> Cur(p)]
LostRegister == [state |-> "lost", data |-> EmptyContent, version |-> 0]
Register ==
    INSTANCE FileRegister
        WITH file <- [p \in Paths |-> IF p \in tainted THEN LostRegister ELSE RegisterOf(p)]

\* The file services implement the versioned register: whatever the
\* interleaving of handlers, every recorded write is a compare-and-swap on the
\* version and the content recorded before it, and a rename moves a whole tree
\* at once, on every path that is not tainted.
ImplementsRegister == Register!RegisterSpec

\* The claim of the storage reference that meta holds the current size, hash
\* and version of every file, read between requests.
MetaDescribesDisk == (\A h \in Handlers : pc[h] = "idle") => \A p \in Paths : Agrees(p)

=============================================================================
