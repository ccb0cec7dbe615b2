---------------------------- MODULE VersionStore ----------------------------
(***************************************************************************)
(* The file tables of the SQLite database: meta, file_head, version and    *)
(* version_blob, and the write transactions of db.VersionStore and         *)
(* db.MetaStore over them.  The database has one connection                *)
(* (SetMaxOpenConns(1)), so a transaction is one step; a transaction that  *)
(* fails is rolled back, so a failure is the absence of the step.          *)
(*                                                                         *)
(* A hash identifies the content it was computed from, so hash, size and   *)
(* data are one field, `data'.  A version row and its blob are inserted by *)
(* one transaction and renamed by one transaction, so they are one record  *)
(* with a flag `blob': is there a version_blob row.                        *)
(***************************************************************************)
EXTENDS Integers, PathTree, FiniteSetsExt

CONSTANTS
    Contents,      \* file contents
    EmptyContent,  \* the content of length 0
    MaxVersion     \* bound on version numbers

ASSUME ContentAssumption == EmptyContent \in Contents
ASSUME MaxVersionAssumption == MaxVersion \in Nat

VARIABLES
    meta,   \* table meta:        path -> row
    head,   \* table file_head:   path -> current_version, 0 if no row
    ver     \* tables version and version_blob: path -> (version -> row)

dbVars == <<meta, head, ver>>

-----------------------------------------------------------------------------
(* Rows *)

Meta == [kind : {"none", "dir", "file"}, data : Contents, version : 0..MaxVersion]
NoMeta == [kind |-> "none", data |-> EmptyContent, version |-> 0]
DirMeta == [kind |-> "dir", data |-> EmptyContent, version |-> 0]
FileMeta(data, v) == [kind |-> "file", data |-> data, version |-> v]

Row == [change : {"create", "modify", "delete"}, data : Contents, blob : BOOLEAN]
DeleteRow == [change |-> "delete", data |-> EmptyContent, blob |-> FALSE]
IsRows(f) == \E S \in SUBSET (1..MaxVersion) : f \in [S -> Row]
NoRows == [v \in {} |-> DeleteRow]

\* Mutant: the newest row that arrives overwrites all rows of the path.
MergeOverwrites(a, b) ==
    [v \in (DOMAIN a) \cup (DOMAIN b) |->
        IF v \in DOMAIN b THEN b[v] ELSE IF b = NoRows THEN a[v] ELSE b[Max(DOMAIN b)]]

\* The rows of a together with the rows of b.
Merge(a, b) ==
    [v \in (DOMAIN a) \cup (DOMAIN b) |-> IF v \in DOMAIN b THEN b[v] ELSE a[v]]

-----------------------------------------------------------------------------
(* Version numbers *)

\* The current_version that file_head has, or that ensureFileHeadTx gives it
\* when a database written before that table existed has no row for the path.
Cur(p) == IF head[p] # 0 THEN head[p] ELSE Max((DOMAIN ver[p]) \cup {meta[p].version})

NextVersion(p) == Cur(p) + 1

-----------------------------------------------------------------------------
(* Write transactions *)

\* INSERT fails on the primary key (path, version).
InsertSnapshot(p, v, row) ==
    /\ v \notin DOMAIN ver[p]
    /\ ver' = [ver EXCEPT ![p] = Merge(@, [w \in {v} |-> row])]

\* Mutant: the meta row keeps the version of the row it replaces.
SaveWithOldMetaVersion(p, data, change, blob) ==
    /\ NextVersion(p) <= MaxVersion
    /\ head' = [head EXCEPT ![p] = NextVersion(p)]
    /\ meta' = [meta EXCEPT ![p] = FileMeta(data, @.version)]
    /\ InsertSnapshot(p, NextVersion(p), [change |-> change, data |-> data, blob |-> blob])

SaveFileSnapshot(p, data, change, blob) ==
    /\ NextVersion(p) <= MaxVersion
    /\ head' = [head EXCEPT ![p] = NextVersion(p)]
    /\ meta' = [meta EXCEPT ![p] = FileMeta(data, NextVersion(p))]
    /\ InsertSnapshot(p, NextVersion(p), [change |-> change, data |-> data, blob |-> blob])

DeleteRestarts(p) ==
    /\ NextVersion(p) <= MaxVersion
    /\ head' = [head EXCEPT ![p] = 1]
    /\ meta' = [meta EXCEPT ![p] = NoMeta]
    /\ InsertSnapshot(p, NextVersion(p), DeleteRow)

AppendDeleteSnapshot(p) ==
    /\ NextVersion(p) <= MaxVersion
    /\ head' = [head EXCEPT ![p] = NextVersion(p)]
    /\ meta' = [meta EXCEPT ![p] = NoMeta]
    /\ InsertSnapshot(p, NextVersion(p), DeleteRow)

\* CoreService.Mkdir's upsert through MetaStore.
SetDirMeta(p) ==
    /\ meta' = [meta EXCEPT ![p] = DirMeta]
    /\ UNCHANGED <<head, ver>>

\* Mutant: only meta has a primary key.
MetaKeyConflict(old, new) ==
    \E q \in Tree(old) :
        /\ Rebase(old, new, q) \in Paths
        /\ meta[q].kind # "none" /\ meta[Rebase(old, new, q)].kind # "none"

\* An UPDATE ... SET path that would give two rows of a table the same key.
KeyConflict(old, new) ==
    \E q \in Tree(old) :
        LET t == Rebase(old, new, q) IN
        /\ t \in Paths
        /\ \/ meta[q].kind # "none" /\ meta[t].kind # "none"
           \/ head[q] # 0 /\ head[t] # 0
           \/ (DOMAIN ver[q]) \cap (DOMAIN ver[t]) # {}

\* The bound of the path set: every row that moves has a path to move to.
MovesWithinPaths(old, new) ==
    \A q \in Tree(old) :
        \/ Rebase(old, new, q) \in Paths
        \/ meta[q] = NoMeta /\ head[q] = 0 /\ ver[q] = NoRows

RenamePathTree(old, new) ==
    /\ Tree(old) \cap Tree(new) = {}
    /\ MovesWithinPaths(old, new)
    /\ ~KeyConflict(old, new)
    /\ meta' = [q \in Paths |->
                 IF q \in Tree(old) THEN NoMeta
                 ELSE IF Arrives(old, new, q) /\ meta[Source(old, new, q)].kind # "none"
                 THEN meta[Source(old, new, q)]
                 ELSE meta[q]]
    /\ head' = [q \in Paths |->
                 IF q \in Tree(old) THEN 0
                 ELSE IF Arrives(old, new, q) /\ head[Source(old, new, q)] # 0
                 THEN head[Source(old, new, q)]
                 ELSE head[q]]
    /\ ver' = [q \in Paths |->
                 IF q \in Tree(old) THEN NoRows
                 ELSE IF Arrives(old, new, q)
                 THEN Merge(ver[q], ver[Source(old, new, q)])
                 ELSE ver[q]]

-----------------------------------------------------------------------------
(* Specification *)

\* Any set of paths may have history written before file_head existed: one
\* version and its meta row, and no file_head row.
LegacyRow == [change |-> "create", data |-> EmptyContent, blob |-> TRUE]
DBInit ==
    /\ \E legacy \in SUBSET Paths :
        /\ MaxVersion = 0 => legacy = {}
        /\ meta = [p \in Paths |-> IF p \in legacy THEN FileMeta(EmptyContent, 1) ELSE NoMeta]
        /\ ver = [p \in Paths |-> IF p \in legacy THEN [v \in {1} |-> LegacyRow] ELSE NoRows]
    /\ head = [p \in Paths |-> 0]

SaveAny(p) ==
    \E data \in Contents, change \in {"create", "modify"}, blob \in BOOLEAN :
        /\ ~blob => data = EmptyContent
        /\ SaveFileSnapshot(p, data, change, blob)

DBNext ==
    \/ \E p \in Paths : SaveAny(p)
    \/ \E p \in Paths : AppendDeleteSnapshot(p)
    \/ \E p \in Paths : SetDirMeta(p)
    \/ \E old, new \in Paths : RenamePathTree(old, new)

DBSpec == DBInit /\ [][DBNext]_dbVars

-----------------------------------------------------------------------------
(* Properties *)

DBTypeOK ==
    /\ meta \in [Paths -> Meta]
    /\ head \in [Paths -> 0..MaxVersion]
    /\ ver = [p \in Paths |-> ver[p]]
    /\ \A p \in Paths : IsRows(ver[p])

\* The versions of a path are numbered from 1 without gaps up to its current
\* version, so the number nextVersionTx hands out never hits the primary key,
\* whatever renames merged into the path and whether file_head had a row.
HistoryContiguous == \A p \in Paths : DOMAIN ver[p] = 1..Cur(p)

\* The meta row of a file carries the newest version of its history, and the
\* content of that version: what GetFileMeta reports is what GetVersion returns.
MetaIsNewestSnapshot ==
    \A p \in Paths :
        meta[p].kind = "file" =>
            /\ meta[p].version = Cur(p)
            /\ meta[p].version \in DOMAIN ver[p]
            /\ ver[p][meta[p].version].change # "delete"
            /\ ver[p][meta[p].version].data = meta[p].data

\* A path without a meta row was never written, or its newest version is its
\* deletion: ResolveFileHead never reports a live head for it.
UntrackedIsDeleted ==
    \A p \in Paths :
        meta[p].kind = "none" =>
            ver[p] = NoRows \/ (Cur(p) \in DOMAIN ver[p] /\ ver[p][Cur(p)] = DeleteRow)

\* No transaction changes or drops a recorded version: the history of a path
\* stays, grows, or moves as a whole to another path with its numbers kept.
Keeps(p, q) == \A v \in DOMAIN ver[p] : v \in DOMAIN ver'[q] /\ ver'[q][v] = ver[p][v]
HistoryPreserved ==
    [][\A p \in Paths : Keeps(p, p) \/ \E q \in Paths \ {p} : Keeps(p, q)]_dbVars

\* The version number of a path never goes back while the path keeps its
\* history: a base version that was current once is not current again.
VersionsAdvance ==
    [][\A p \in Paths : Cur(p)' >= Cur(p) \/ ver'[p] = NoRows]_dbVars
=============================================================================
