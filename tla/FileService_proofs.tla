------------------------- MODULE FileService_proofs -------------------------
(***************************************************************************)
(* Proofs about VersionStore and FileService, for every set of paths,      *)
(* contents, handlers and requests, and every bound on versions.           *)
(*                                                                         *)
(* The invariants of the database are proved path by path.  A path's three *)
(* tables hold `Good' rows: n versions numbered 1..n, a head that is n or  *)
(* missing, and a meta row that describes version n.  A transaction on one *)
(* path extends n to n + 1; a rename replaces the rows of a path by those  *)
(* of another, and the primary keys make sure that at most one of the two  *)
(* histories it merges has rows.                                           *)
(*                                                                         *)
(* Every step of the file services is a transaction of VersionStore or     *)
(* leaves the tables alone, so the database theorems carry over.  The      *)
(* locks are dealt with by LockInv: a handler past the stage `lock' holds  *)
(* all its locks, and one that waits holds only locks that come before the *)
(* ones it still wants.                                                    *)
(***************************************************************************)
EXTENDS FileService, FiniteFacts, SequenceTheorems


CurOf(m, h, r) == IF h # 0 THEN h ELSE Max((DOMAIN r) \cup {m.version})

GoodAt(n, m, h, r) ==
    /\ r \in [1..n -> Row]
    /\ h = 0 \/ h = n
    /\ m \in Meta
    /\ m.kind = "file" => n # 0 /\ m.version = n /\ r[n].change # "delete" /\ r[n].data = m.data
    /\ m.kind # "file" => m.version = 0
    /\ m.kind = "none" => m = NoMeta /\ (n = 0 \/ r[n] = DeleteRow)

Good(m, h, r) == \E n \in 0..MaxVersion : GoodAt(n, m, h, r)

\* The inductive invariant.
DBInv ==
    /\ meta \in [Paths -> Meta]
    /\ head \in [Paths -> 0..MaxVersion]
    /\ ver = [p \in Paths |-> ver[p]]
    /\ \A p \in Paths : Good(meta[p], head[p], ver[p])

-----------------------------------------------------------------------------
(* Operators *)

\* The greatest of 1..n and of a number that is not greater than n, as
\* ensureFileHeadTx computes it from the version rows and the meta row.
LEMMA MaxOfRange ==
    ASSUME NEW n \in Nat, NEW k \in 0..n
    PROVE  Max((1..n) \cup {k}) = n
<1> DEFINE S == (1..n) \cup {k}
<1>1. n \in S /\ \A y \in S : n >= y
  BY Z3
<1>2. \A x \in S : (\A y \in S : x >= y) => x = n
  BY <1>1, Z3
<1> QED
  BY <1>1, <1>2 DEF Max

\* Renaming back and forth leads to the same path.
LEMMA RebaseBack ==
    ASSUME NEW old \in Seq(STRING), NEW new \in Seq(STRING), NEW q \in Seq(STRING),
           Under(new, q)
    PROVE  Rebase(old, new, Rebase(new, old, q)) = q
<1> DEFINE rest == SubSeq(q, Len(new) + 1, Len(q))
           s == old \o rest
<1>1. rest \in Seq(STRING) /\ Len(rest) = Len(q) - Len(new)
  BY SubSeqProperties, LenProperties DEF Under
<1>2. \A i \in 1..Len(rest) : rest[i] = q[Len(new) + i]
  BY <1>1, SubSeqProperties, LenProperties DEF Under
<1>3. s \in Seq(STRING) /\ Len(s) = Len(old) + Len(rest)
  BY <1>1
<1>4. \A i \in 1..Len(rest) : s[Len(old) + i] = rest[i]
  BY <1>1, <1>3
<1>5. SubSeq(s, Len(old) + 1, Len(s)) = rest
  BY <1>1, <1>3, <1>4
<1>6. \A i \in 1..Len(new) : q[i] = new[i]
  BY DEF Under
<1>7. new \o rest = q
  <2>1. new \o rest \in Seq(STRING) /\ Len(new \o rest) = Len(q)
    BY <1>1
  <2>2. \A i \in 1..Len(q) : (new \o rest)[i] = q[i]
    BY <1>1, <1>2, <1>6
  <2> HIDE DEF rest
  <2> QED
    BY <2>1, <2>2, SeqEqual
<1> QED
  BY <1>5, <1>7 DEF Rebase

-----------------------------------------------------------------------------
(* One path *)

\* The current version of a path with good rows is the number of its versions,
\* whether file_head has a row for it or ensureFileHeadTx has to work it out.
LEMMA GoodCur ==
    ASSUME NEW n \in 0..MaxVersion, NEW m, NEW h, NEW r, GoodAt(n, m, h, r)
    PROVE  CurOf(m, h, r) = n
<1> USE MaxVersionAssumption
<1>1. DOMAIN r = 1..n
  BY DEF GoodAt
<1>2. CASE h # 0
  BY <1>2 DEF GoodAt, CurOf
<1>3. CASE h = 0
  <2>1. m.version \in 0..n
    BY DEF GoodAt, Meta
  <2> QED
    BY <1>1, <1>3, <2>1, MaxOfRange DEF CurOf
<1> QED
  BY <1>2, <1>3

\* Appending version n + 1.
LEMMA GoodExtend ==
    ASSUME NEW n \in 0..MaxVersion, n + 1 <= MaxVersion,
           NEW r \in [1..n -> Row], NEW row \in Row, NEW m \in Meta,
           \/ m = FileMeta(row.data, n + 1) /\ row.change # "delete"
           \/ m = NoMeta /\ row = DeleteRow
    PROVE  Good(m, n + 1, Merge(r, [w \in {n + 1} |-> row]))
<1> USE MaxVersionAssumption
<1> DEFINE r1 == Merge(r, [w \in {n + 1} |-> row])
<1>1. DOMAIN r = 1..n /\ (1..n) \cup {n + 1} = 1..(n + 1)
  OBVIOUS
<1>2. r1 = [v \in 1..(n + 1) |-> IF v = n + 1 THEN row ELSE r[v]]
  BY <1>1 DEF Merge
<1>3. r1 \in [1..(n + 1) -> Row] /\ r1[n + 1] = row
  BY <1>2
<1> HIDE DEF r1
<1>4. GoodAt(n + 1, m, n + 1, r1)
  BY <1>3 DEF GoodAt, FileMeta, NoMeta, DeleteRow, Meta
<1> QED
  BY <1>4 DEF Good, r1

\* A path whose rows have moved away.
LEMMA GoodEmpty ==
    Good(NoMeta, 0, NoRows) /\ GoodAt(0, NoMeta, 0, NoRows)
<1>1. NoRows \in [1..0 -> Row]
  BY DEF NoRows
<1>2. NoMeta \in Meta
  BY ContentAssumption, MaxVersionAssumption DEF NoMeta, Meta
<1>3. GoodAt(0, NoMeta, 0, NoRows)
  BY <1>1, <1>2 DEF GoodAt, NoMeta
<1> QED
  BY <1>3, MaxVersionAssumption DEF Good

\* The rows of a path (1) joined by those of another (2) that no primary key
\* keeps apart: one of the histories is empty, and the other is the result.
LEMMA MergeAt ==
    ASSUME NEW n1 \in 0..MaxVersion, NEW m1, NEW h1, NEW r1, GoodAt(n1, m1, h1, r1),
           NEW n2 \in 0..MaxVersion, NEW m2, NEW h2, NEW r2, GoodAt(n2, m2, h2, r2),
           m1.kind = "none" \/ m2.kind = "none",
           h1 = 0 \/ h2 = 0,
           (DOMAIN r1) \cap (DOMAIN r2) = {}
    PROVE  /\ n1 = 0 \/ n2 = 0
           /\ n2 = 0 => Merge(r1, r2) = r1
           /\ n1 = 0 => Merge(r1, r2) = r2
           /\ GoodAt(n1 + n2,
                     IF m2.kind # "none" THEN m2 ELSE m1,
                     IF h2 # 0 THEN h2 ELSE h1,
                     Merge(r1, r2))
<1> USE MaxVersionAssumption
<1>1. DOMAIN r1 = 1..n1 /\ DOMAIN r2 = 1..n2 /\ n1 \in Nat /\ n2 \in Nat
  BY DEF GoodAt
<1>2. n1 = 0 \/ n2 = 0
  BY <1>1
<1> DEFINE m == IF m2.kind # "none" THEN m2 ELSE m1
           h == IF h2 # 0 THEN h2 ELSE h1
           r == Merge(r1, r2)
<1>3. CASE n2 = 0
  <2>1. r = r1
    BY <1>1, <1>3 DEF Merge, GoodAt
  <2>2. h = h1
    BY <1>3 DEF GoodAt
  <2>3. GoodAt(n1, m, h1, r1)
    BY <1>3 DEF GoodAt, NoMeta
  <2>4. n1 + n2 = n1 /\ (n1 = 0 => r1 = r2)
    BY <1>1, <1>3 DEF GoodAt
  <2> QED
    BY <1>2, <2>1, <2>2, <2>3, <2>4
<1>4. CASE n1 = 0
  <2>1. r = r2
    BY <1>1, <1>4 DEF Merge, GoodAt
  <2>2. h = h2
    BY <1>4 DEF GoodAt
  <2>3. GoodAt(n2, m, h2, r2)
    BY <1>4 DEF GoodAt, NoMeta
  <2>4. n1 + n2 = n2 /\ (n2 = 0 => r1 = r2)
    BY <1>1, <1>4 DEF GoodAt
  <2> QED
    BY <1>2, <2>1, <2>2, <2>3, <2>4
<1> QED
  BY <1>2, <1>3, <1>4

\* Joined rows of two paths are good rows again.
LEMMA GoodMerge ==
    ASSUME NEW m1, NEW h1, NEW r1, Good(m1, h1, r1),
           NEW m2, NEW h2, NEW r2, Good(m2, h2, r2),
           m1.kind = "none" \/ m2.kind = "none",
           h1 = 0 \/ h2 = 0,
           (DOMAIN r1) \cap (DOMAIN r2) = {}
    PROVE  Good(IF m2.kind # "none" THEN m2 ELSE m1,
                IF h2 # 0 THEN h2 ELSE h1,
                Merge(r1, r2))
<1>1. PICK n1 \in 0..MaxVersion : GoodAt(n1, m1, h1, r1)
  BY DEF Good
<1>2. PICK n2 \in 0..MaxVersion : GoodAt(n2, m2, h2, r2)
  BY DEF Good
<1>3. n1 = 0 \/ n2 = 0
  BY <1>1, <1>2, MergeAt
<1>4. n1 + n2 \in 0..MaxVersion
  BY <1>3, MaxVersionAssumption
<1> QED
  BY <1>1, <1>2, <1>4, MergeAt DEF Good

-----------------------------------------------------------------------------
(* The inductive invariant *)

\* Cur in terms of the rows of one path.
LEMMA CurIsCurOf == \A p \in Paths : Cur(p) = CurOf(meta[p], head[p], ver[p])
  BY DEF Cur, CurOf

\* A database of any age satisfies the invariant.
LEMMA InitDBInv == DBInit => DBInv
<1> SUFFICES ASSUME DBInit PROVE DBInv
  OBVIOUS
<1> USE MaxVersionAssumption, ContentAssumption
<1>1. PICK legacy \in SUBSET Paths :
        /\ MaxVersion = 0 => legacy = {}
        /\ meta = [p \in Paths |-> IF p \in legacy THEN FileMeta(EmptyContent, 1) ELSE NoMeta]
        /\ ver = [p \in Paths |-> IF p \in legacy THEN [v \in {1} |-> LegacyRow] ELSE NoRows]
  BY DEF DBInit
<1>2. head = [p \in Paths |-> 0]
  BY DEF DBInit
<1>3. ASSUME NEW p \in Paths
      PROVE  Good(meta[p], head[p], ver[p]) /\ meta[p] \in Meta
  <2>1. CASE p \in legacy
    <3>1. 1 \in 0..MaxVersion
      BY <1>1, <2>1
    <3>2. meta[p] = FileMeta(EmptyContent, 1) /\ head[p] = 0 /\ ver[p] = [v \in {1} |-> LegacyRow]
      BY <1>1, <1>2, <2>1
    <3>3. LegacyRow \in Row /\ LegacyRow.change = "create" /\ LegacyRow.data = EmptyContent
      BY DEF LegacyRow, Row
    <3>4. ver[p] \in [1..1 -> Row] /\ ver[p][1] = LegacyRow
      BY <3>2, <3>3
    <3>5. GoodAt(1, meta[p], head[p], ver[p])
      BY <3>1, <3>2, <3>3, <3>4 DEF GoodAt, FileMeta, Meta
    <3> QED
      BY <3>1, <3>5 DEF Good, GoodAt
  <2>2. CASE p \notin legacy
    BY <1>1, <1>2, <2>2, GoodEmpty DEF GoodAt
  <2> QED
    BY <2>1, <2>2
<1>4. meta \in [Paths -> Meta]
  BY <1>1, <1>3
<1> QED
  BY <1>1, <1>2, <1>3, <1>4 DEF DBInv

\* A transaction that appends version Cur(p) + 1 to path p.
LEMMA ExtendDBInv ==
    ASSUME DBInv, NEW p \in Paths, NextVersion(p) <= MaxVersion,
           NEW row \in Row, NEW m \in Meta,
           \/ m = FileMeta(row.data, NextVersion(p)) /\ row.change # "delete"
           \/ m = NoMeta /\ row = DeleteRow,
           head' = [head EXCEPT ![p] = NextVersion(p)],
           meta' = [meta EXCEPT ![p] = m],
           ver' = [ver EXCEPT ![p] = Merge(@, [w \in {NextVersion(p)} |-> row])]
    PROVE  DBInv'
<1> USE MaxVersionAssumption
<1>1. PICK n \in 0..MaxVersion : GoodAt(n, meta[p], head[p], ver[p])
  BY DEF DBInv, Good
<1>2. NextVersion(p) = n + 1
  BY <1>1, GoodCur, CurIsCurOf DEF NextVersion
<1>3. Good(m, n + 1, Merge(ver[p], [w \in {n + 1} |-> row]))
  <2>1. ver[p] \in [1..n -> Row]
    BY <1>1 DEF GoodAt
  <2> QED
    BY <1>2, <2>1, GoodExtend
<1>4. meta' \in [Paths -> Meta] /\ head' \in [Paths -> 0..MaxVersion]
  BY <1>2 DEF DBInv
<1>5. ver' = [q \in Paths |-> ver'[q]]
  BY DEF DBInv
<1>6. ASSUME NEW q \in Paths PROVE Good(meta'[q], head'[q], ver'[q])
  <2>1. CASE q = p
    BY <1>2, <1>3, <2>1 DEF DBInv
  <2>2. CASE q # p
    BY <2>2 DEF DBInv
  <2> QED
    BY <2>1, <2>2
<1> QED
  BY <1>4, <1>5, <1>6 DEF DBInv

\* The rename transaction: a path loses its rows, receives rows, or keeps them.
LEMMA RenameDBInv ==
    ASSUME DBInv, NEW old \in Paths, NEW new \in Paths, RenamePathTree(old, new)
    PROVE  DBInv'
<1>1. ASSUME NEW q \in Paths PROVE Good(meta'[q], head'[q], ver'[q])
  <2>1. CASE q \in Tree(old)
    <3>1. meta'[q] = NoMeta /\ head'[q] = 0 /\ ver'[q] = NoRows
      BY <2>1 DEF RenamePathTree
    <3> QED
      BY <3>1, GoodEmpty
  <2>2. CASE q \notin Tree(old) /\ Arrives(old, new, q)
    <3> DEFINE s == Source(old, new, q)
    <3>1. s \in Tree(old) /\ s \in Paths
      BY <2>2 DEF Arrives, Tree
    <3>2. Rebase(old, new, s) = q
      <4>1. Under(new, q)
        BY <2>2 DEF Arrives, Tree
      <4> QED
        BY <4>1, RebaseBack, PathsAssumption DEF Source
    <3> HIDE DEF s
    <3>3. /\ meta[s].kind = "none" \/ meta[q].kind = "none"
          /\ head[s] = 0 \/ head[q] = 0
          /\ (DOMAIN ver[s]) \cap (DOMAIN ver[q]) = {}
      BY <3>1, <3>2 DEF RenamePathTree, KeyConflict
    <3>4. Good(IF meta[s].kind # "none" THEN meta[s] ELSE meta[q],
               IF head[s] # 0 THEN head[s] ELSE head[q],
               Merge(ver[q], ver[s]))
      BY <3>1, <3>3, GoodMerge DEF DBInv
    <3>5. /\ meta'[q] = IF meta[s].kind # "none" THEN meta[s] ELSE meta[q]
          /\ head'[q] = IF head[s] # 0 THEN head[s] ELSE head[q]
          /\ ver'[q] = Merge(ver[q], ver[s])
      BY <2>2 DEF RenamePathTree, s
    <3> QED
      BY <3>4, <3>5
  <2>3. CASE q \notin Tree(old) /\ ~Arrives(old, new, q)
    <3>1. meta'[q] = meta[q] /\ head'[q] = head[q] /\ ver'[q] = ver[q]
      BY <2>3 DEF RenamePathTree
    <3> QED
      BY <3>1 DEF DBInv
  <2> QED
    BY <2>1, <2>2, <2>3
<1>2. \A q \in Paths : meta'[q] \in Meta /\ head'[q] \in 0..MaxVersion
  BY <1>1, MaxVersionAssumption DEF Good, GoodAt
<1>3. /\ meta' = [q \in Paths |-> meta'[q]]
      /\ head' = [q \in Paths |-> head'[q]]
      /\ ver' = [q \in Paths |-> ver'[q]]
  BY DEF RenamePathTree
<1> QED
  BY <1>1, <1>2, <1>3 DEF DBInv

\* Every transaction preserves the invariant.
LEMMA NextDBInv == DBInv /\ [DBNext]_dbVars => DBInv'
<1> SUFFICES ASSUME DBInv, [DBNext]_dbVars PROVE DBInv'
  OBVIOUS
<1> USE MaxVersionAssumption, ContentAssumption
<1>1. ASSUME NEW p \in Paths, SaveAny(p) PROVE DBInv'
  <2>1. PICK data \in Contents, change \in {"create", "modify"}, blob \in BOOLEAN :
            SaveFileSnapshot(p, data, change, blob)
    BY <1>1 DEF SaveAny
  <2> DEFINE row == [change |-> change, data |-> data, blob |-> blob]
             m == FileMeta(data, NextVersion(p))
  <2>2. row \in Row /\ row.data = data /\ row.change # "delete"
    BY DEF Row
  <2>3. NextVersion(p) \in 0..MaxVersion
    <3>1. PICK n \in 0..MaxVersion : GoodAt(n, meta[p], head[p], ver[p])
      BY DEF DBInv, Good
    <3>2. NextVersion(p) = n + 1
      BY <3>1, GoodCur, CurIsCurOf DEF NextVersion
    <3> QED
      BY <2>1, <3>2 DEF SaveFileSnapshot
  <2>4. m \in Meta
    BY <2>3 DEF FileMeta, Meta
  <2>5. /\ NextVersion(p) <= MaxVersion
        /\ head' = [head EXCEPT ![p] = NextVersion(p)]
        /\ meta' = [meta EXCEPT ![p] = m]
        /\ ver' = [ver EXCEPT ![p] = Merge(@, [w \in {NextVersion(p)} |-> row])]
    BY <2>1 DEF SaveFileSnapshot, InsertSnapshot
  <2>6. m = FileMeta(row.data, NextVersion(p)) /\ row.change # "delete"
    BY <2>2
  <2> HIDE DEF row, m
  <2> QED
    BY <2>2, <2>4, <2>5, <2>6, ExtendDBInv
<1>2. ASSUME NEW p \in Paths, AppendDeleteSnapshot(p) PROVE DBInv'
  <2>1. DeleteRow \in Row /\ NoMeta \in Meta
    BY DEF DeleteRow, Row, NoMeta, Meta
  <2>2. /\ NextVersion(p) <= MaxVersion
        /\ head' = [head EXCEPT ![p] = NextVersion(p)]
        /\ meta' = [meta EXCEPT ![p] = NoMeta]
        /\ ver' = [ver EXCEPT ![p] = Merge(@, [w \in {NextVersion(p)} |-> DeleteRow])]
    BY <1>2 DEF AppendDeleteSnapshot, InsertSnapshot
  <2> QED
    BY <2>1, <2>2, ExtendDBInv
<1>3. ASSUME NEW p \in Paths, SetDirMeta(p) PROVE DBInv'
  <2>1. DirMeta \in Meta /\ DirMeta.kind = "dir" /\ DirMeta.version = 0
    BY DEF DirMeta, Meta
  <2>2. meta' \in [Paths -> Meta] /\ head' = head /\ ver' = ver
    BY <1>3, <2>1 DEF SetDirMeta, DBInv
  <2>3. ASSUME NEW q \in Paths PROVE Good(meta'[q], head[q], ver[q])
    <3>1. CASE q # p
      BY <1>3, <3>1 DEF SetDirMeta, DBInv
    <3>2. CASE q = p
      <4>1. meta'[q] = DirMeta
        BY <1>3, <3>2 DEF SetDirMeta, DBInv
      <4>2. PICK n \in 0..MaxVersion : GoodAt(n, meta[q], head[q], ver[q])
        BY DEF DBInv, Good
      <4>3. GoodAt(n, DirMeta, head[q], ver[q])
        BY <2>1, <4>2 DEF GoodAt
      <4> QED
        BY <4>1, <4>3 DEF Good
    <3> QED
      BY <3>1, <3>2
  <2> QED
    BY <2>2, <2>3 DEF DBInv
<1>4. ASSUME NEW old \in Paths, NEW new \in Paths, RenamePathTree(old, new) PROVE DBInv'
  BY <1>4, RenameDBInv
<1>5. CASE UNCHANGED dbVars
  BY <1>5 DEF DBInv, dbVars
<1> QED
  BY <1>1, <1>2, <1>3, <1>4, <1>5 DEF DBNext

-----------------------------------------------------------------------------
(* Theorems *)

\* Under the invariant the rows of a path are good for n = Cur(p).
LEMMA GoodAtCur ==
    ASSUME DBInv, NEW p \in Paths
    PROVE  Cur(p) \in 0..MaxVersion /\ GoodAt(Cur(p), meta[p], head[p], ver[p])
<1>1. PICK n \in 0..MaxVersion : GoodAt(n, meta[p], head[p], ver[p])
  BY DEF DBInv, Good
<1>2. Cur(p) = n
  BY <1>1, GoodCur, CurIsCurOf
<1> QED
  BY <1>1, <1>2

\* Version numbers stay within the bound.
LEMMA CurBound == DBInv => \A q \in Paths : Cur(q) \in 0..MaxVersion
  BY GoodAtCur

\* What the invariant implies.
LEMMA InvImplies ==
    DBInv => DBTypeOK /\ HistoryContiguous /\ MetaIsNewestSnapshot /\ UntrackedIsDeleted
<1> SUFFICES ASSUME DBInv
             PROVE  DBTypeOK /\ HistoryContiguous /\ MetaIsNewestSnapshot /\ UntrackedIsDeleted
  OBVIOUS
<1> USE MaxVersionAssumption
<1>1. \A p \in Paths : IsRows(ver[p])
  <2> SUFFICES ASSUME NEW p \in Paths PROVE IsRows(ver[p])
    OBVIOUS
  <2>1. Cur(p) \in 0..MaxVersion /\ ver[p] \in [1..Cur(p) -> Row]
    BY GoodAtCur DEF GoodAt
  <2>2. (1..Cur(p)) \in SUBSET (1..MaxVersion)
    BY <2>1
  <2> QED
    BY <2>1, <2>2 DEF IsRows
<1>2. DBTypeOK
  BY <1>1 DEF DBTypeOK, DBInv
<1>3. HistoryContiguous
  BY GoodAtCur DEF HistoryContiguous, GoodAt
<1>4. MetaIsNewestSnapshot
  <2> SUFFICES ASSUME NEW p \in Paths, meta[p].kind = "file"
               PROVE  /\ meta[p].version = Cur(p)
                      /\ meta[p].version \in DOMAIN ver[p]
                      /\ ver[p][meta[p].version].change # "delete"
                      /\ ver[p][meta[p].version].data = meta[p].data
    BY DEF MetaIsNewestSnapshot
  <2>1. Cur(p) \in 0..MaxVersion /\ GoodAt(Cur(p), meta[p], head[p], ver[p])
    BY GoodAtCur
  <2> QED
    BY <2>1 DEF GoodAt
<1>5. UntrackedIsDeleted
  <2> SUFFICES ASSUME NEW p \in Paths, meta[p].kind = "none"
               PROVE  ver[p] = NoRows \/ (Cur(p) \in DOMAIN ver[p] /\ ver[p][Cur(p)] = DeleteRow)
    BY DEF UntrackedIsDeleted
  <2>1. Cur(p) \in 0..MaxVersion /\ GoodAt(Cur(p), meta[p], head[p], ver[p])
    BY GoodAtCur
  <2>2. CASE Cur(p) = 0
    <3>1. ver[p] \in [1..0 -> Row] /\ NoRows \in [1..0 -> Row]
      BY <2>1, <2>2, GoodEmpty DEF GoodAt
    <3> QED
      BY <3>1
  <2>3. CASE Cur(p) # 0
    BY <2>1, <2>3 DEF GoodAt
  <2> QED
    BY <2>2, <2>3
<1> QED
  BY <1>2, <1>3, <1>4, <1>5

\* The rows of every path are good in every reachable state.
THEOREM DBInvariant == DBSpec => []DBInv
<1>1. DBInit => DBInv
  BY InitDBInv
<1>2. DBInv /\ [DBNext]_dbVars => DBInv'
  BY NextDBInv
<1> QED
  BY <1>1, <1>2, PTL DEF DBSpec

\* The tables keep their types: no version number beyond the bound, no row of an
\* unknown shape, no path outside the path set.
THEOREM DBTypeCorrect == DBSpec => []DBTypeOK
<1>1. DBInv => DBTypeOK
  BY InvImplies
<1> QED
  BY <1>1, DBInvariant, PTL

\* Version numbers are contiguous, so the insert of the next version never
\* meets its primary key.
THEOREM ContiguousHistory == DBSpec => []HistoryContiguous
<1>1. DBInv => HistoryContiguous
  BY InvImplies
<1> QED
  BY <1>1, DBInvariant, PTL

\* The meta row of a file describes the newest version in its history.
THEOREM MetaFollowsHistory == DBSpec => []MetaIsNewestSnapshot
<1>1. DBInv => MetaIsNewestSnapshot
  BY InvImplies
<1> QED
  BY <1>1, DBInvariant, PTL

\* A path without a meta row has no history or ends in a deletion.
THEOREM UntrackedHistory == DBSpec => []UntrackedIsDeleted
<1>1. DBInv => UntrackedIsDeleted
  BY InvImplies
<1> QED
  BY <1>1, DBInvariant, PTL

\* A path beneath old moves to a path beneath new, and comes from there only.
LEMMA ImageOf ==
    ASSUME NEW old \in Paths, NEW new \in Paths, NEW q \in Tree(old),
           Rebase(old, new, q) \in Paths
    PROVE  LET t == Rebase(old, new, q) IN Arrives(old, new, t) /\ Source(old, new, t) = q
<1> DEFINE t == Rebase(old, new, q)
           rest == SubSeq(q, Len(old) + 1, Len(q))
<1>1. old \in Seq(STRING) /\ new \in Seq(STRING) /\ q \in Seq(STRING) /\ Under(old, q)
  BY PathsAssumption DEF Tree
<1>2. Source(old, new, t) = q
  BY <1>1, RebaseBack DEF Source
<1>3. rest \in Seq(STRING)
  BY <1>1, SubSeqProperties, LenProperties DEF Under
<1>4. t = new \o rest
  BY DEF Rebase
<1> HIDE DEF rest
<1>5. t \in Seq(STRING) /\ Len(t) = Len(new) + Len(rest) /\ Len(new) \in Nat /\ Len(rest) \in Nat
  BY <1>1, <1>3, <1>4
<1>6. SubSeq(t, 1, Len(new)) = new
  <2>1. \A i \in 1..Len(new) : t[i] = new[i]
    BY <1>1, <1>3, <1>4
  <2>2. SubSeq(t, 1, Len(new)) \in Seq(STRING) /\ Len(SubSeq(t, 1, Len(new))) = Len(new)
    BY <1>1, <1>5
  <2>3. \A i \in 1..Len(new) : SubSeq(t, 1, Len(new))[i] = new[i]
    BY <1>1, <1>5, <2>1
  <2> HIDE DEF t
  <2> QED
    BY <1>1, <2>2, <2>3, SeqEqual
<1>7. Under(new, t)
  BY <1>5, <1>6 DEF Under
<1> QED
  BY <1>2, <1>7 DEF Arrives, Tree

\* One transaction keeps the versions of a path where they are, or empties the
\* path because they are at another path now.
LEMMA StepKeeps ==
    ASSUME DBInv, [DBNext]_dbVars, NEW p \in Paths
    PROVE  Keeps(p, p) \/ (ver'[p] = NoRows /\ \E q \in Paths \ {p} : Keeps(p, q))
<1>1. ASSUME NEW r \in Paths, NEW v, NEW row, InsertSnapshot(r, v, row) PROVE Keeps(p, p)
  <2>1. CASE p = r
    <3>1. v \notin DOMAIN ver[p] /\ ver'[p] = Merge(ver[p], [w \in {v} |-> row])
      BY <1>1, <2>1 DEF InsertSnapshot, DBInv
    <3> QED
      BY <3>1 DEF Keeps, Merge
  <2>2. CASE p # r
    BY <1>1, <2>2 DEF InsertSnapshot, DBInv, Keeps
  <2> QED
    BY <2>1, <2>2
<1>2. ASSUME NEW r \in Paths, SaveAny(r) PROVE Keeps(p, p)
  BY <1>1, <1>2 DEF SaveAny, SaveFileSnapshot
<1>3. ASSUME NEW r \in Paths, AppendDeleteSnapshot(r) PROVE Keeps(p, p)
  BY <1>1, <1>3 DEF AppendDeleteSnapshot
<1>4. CASE UNCHANGED ver
  BY <1>4 DEF Keeps
<1>5. ASSUME NEW old \in Paths, NEW new \in Paths, RenamePathTree(old, new)
      PROVE  Keeps(p, p) \/ (ver'[p] = NoRows /\ \E q \in Paths \ {p} : Keeps(p, q))
  <2> DEFINE t == Rebase(old, new, p)
  <2>1. CASE p \in Tree(old) /\ t \in Paths
    <3>1. Arrives(old, new, t) /\ Source(old, new, t) = p
      BY <2>1, ImageOf
    <3>2. t \in Tree(new) /\ t \notin Tree(old)
      BY <1>5, <3>1 DEF Arrives, RenamePathTree
    <3>3. ver'[p] = NoRows
      BY <1>5, <2>1 DEF RenamePathTree
    <3>4. ver'[t] = Merge(ver[t], ver[p])
      BY <1>5, <2>1, <3>1, <3>2 DEF RenamePathTree
    <3>5. Keeps(p, t)
      BY <3>4 DEF Keeps, Merge
    <3> QED
      BY <2>1, <3>2, <3>3, <3>5
  <2>2. CASE p \in Tree(old) /\ t \notin Paths
    <3>1. ver[p] = NoRows
      BY <1>5, <2>2 DEF RenamePathTree, MovesWithinPaths
    <3> QED
      BY <3>1 DEF Keeps, NoRows
  <2>3. CASE p \notin Tree(old) /\ Arrives(old, new, p)
    <3> DEFINE s == Source(old, new, p)
    <3>1. s \in Tree(old) /\ Under(new, p)
      BY <2>3 DEF Arrives, Tree
    <3>2. Rebase(old, new, s) = p
      BY <3>1, RebaseBack, PathsAssumption DEF Source
    <3>3. ver'[p] = Merge(ver[p], ver[s])
      BY <1>5, <2>3 DEF RenamePathTree
    <3> HIDE DEF s
    <3>4. (DOMAIN ver[s]) \cap (DOMAIN ver[p]) = {}
      BY <1>5, <3>1, <3>2 DEF RenamePathTree, KeyConflict
    <3> QED
      BY <3>3, <3>4 DEF Keeps, Merge
  <2>4. CASE p \notin Tree(old) /\ ~Arrives(old, new, p)
    <3>1. ver'[p] = ver[p]
      BY <1>5, <2>4 DEF RenamePathTree
    <3> QED
      BY <3>1 DEF Keeps
  <2> QED
    BY <2>1, <2>2, <2>3, <2>4
<1> QED
  BY <1>2, <1>3, <1>4, <1>5 DEF DBNext, dbVars, SetDirMeta

\* No transaction, a rename that merges two paths included, loses or rewrites a
\* recorded version.
THEOREM HistoryIsPreserved == DBSpec => HistoryPreserved
<1>1. DBInv /\ [DBNext]_dbVars =>
        [\A p \in Paths : Keeps(p, p) \/ \E q \in Paths \ {p} : Keeps(p, q)]_dbVars
  BY StepKeeps
<1> QED
  BY <1>1, DBInvariant, PTL DEF DBSpec, HistoryPreserved

\* The version number of a path with history never goes back, so a stale base
\* version is never taken for the current one on a path that keeps its history.
THEOREM VersionsNeverGoBack == DBSpec => VersionsAdvance
<1>1. ASSUME DBInv, DBInv', [DBNext]_dbVars
      PROVE  \A p \in Paths : Cur(p)' >= Cur(p) \/ ver'[p] = NoRows
  <2> SUFFICES ASSUME NEW p \in Paths, Keeps(p, p) PROVE Cur(p)' >= Cur(p)
    BY <1>1, StepKeeps
  <2>1. HistoryContiguous /\ HistoryContiguous'
    <3>1. HistoryContiguous
      BY <1>1, InvImplies
    <3>2. DBInv' => HistoryContiguous'
      BY InvImplies, PTL
    <3> QED
      BY <1>1, <3>1, <3>2
  <2>2. Cur(p) \in Nat /\ Cur(p)' \in Nat
    <3>1. Cur(p) \in 0..MaxVersion
      BY <1>1, GoodAtCur
    <3>2. DBInv' => (\A q \in Paths : Cur(q) \in 0..MaxVersion)'
      BY CurBound, PTL
    <3> QED
      BY <1>1, <3>1, <3>2, MaxVersionAssumption
  <2>3. 1..Cur(p) \subseteq 1..(Cur(p)')
    BY <2>1 DEF HistoryContiguous, Keeps
  <2> QED
    BY <2>2, <2>3
<1>2. DBInv /\ DBInv' /\ [DBNext]_dbVars =>
        [\A p \in Paths : Cur(p)' >= Cur(p) \/ ver'[p] = NoRows]_dbVars
  BY <1>1
<1> QED
  BY <1>2, DBInvariant, PTL DEF DBSpec, VersionsAdvance

-----------------------------------------------------------------------------
(* FileService *)


\* TypeOK without the database.
HandlerTypeOK ==
    /\ disk \in [Paths -> Entry]
    /\ copies \in [Paths -> Seq(Contents)]
    /\ owner \in [Paths -> Handlers \cup {Nobody}]
    /\ pc \in [Handlers -> Stages]
    /\ req \in [Handlers -> Requests]
    /\ resolved \in [Handlers -> FileHead]
    /\ buf \in [Handlers -> Contents]
    /\ reply \in [Handlers -> Reply]
    /\ served \in 0..MaxRequests
    /\ faults \in 0..MaxFaults
    /\ tainted \subseteq Paths

\* Stages of a handler that works on its request.
Work == Stages \ {"idle", "lock", "reply"}

LockInv ==
    \A h \in Handlers :
        /\ pc[h] = "idle" => Held(h) = {}
        /\ pc[h] = "lock" =>
            /\ Wanted(h) # {}
            /\ \A p \in Held(h), q \in Wanted(h) : Rank[p] < Rank[q]
        /\ pc[h] \in Work => LockSet(req[h]) \subseteq Held(h)

\* The inductive invariant.
ServiceInv == DBInv /\ HandlerTypeOK /\ LockInv

-----------------------------------------------------------------------------
(* Numbers *)

\* Every non-empty bounded set of naturals has a greatest element.
LEMMA GreatestNat ==
    ASSUME NEW T, NEW n \in Nat, T \subseteq 0..n, T # {}
    PROVE  \E x \in T : \A y \in T : y <= x
<1> DEFINE U == {u \in Nat : \E x \in T : u = n - x}
<1>1. \A x \in T : x \in 0..n /\ n - x \in U
  OBVIOUS
<1>2. U \subseteq Nat /\ U # {}
  BY <1>1
<1>3. PICK u \in U : \A y \in U : u <= y
  BY <1>2, LeastNat
<1>4. PICK x \in T : u = n - x
  BY <1>3
<1>5. ASSUME NEW y \in T PROVE y <= x
  <2>1. n - x <= n - y
    BY <1>1, <1>3, <1>4
  <2>2. x \in Int /\ y \in Int
    BY <1>1
  <2> QED
    BY <2>1, <2>2
<1> QED
  BY <1>5

-----------------------------------------------------------------------------
(* Helpers *)

\* What a request is made of.
LEMMA RequestFields ==
    ASSUME NEW r \in Requests
    PROVE  /\ r.path \in Paths /\ r.to \in Paths /\ r.op \in Ops
           /\ r.data \in Contents
           /\ LockSet(r) \subseteq Paths /\ LockSet(r) # {}
  BY RequestsAssumption DEF RequestType, LockSet

\* The history variable only ever holds paths.
LEMMA TaintType ==
    ASSUME tainted \subseteq Paths, NEW S \in SUBSET Paths, Taint(S)
    PROVE  tainted' \subseteq Paths
<1>1. Raced' \subseteq Paths
  BY DEF Raced, Tree
<1> QED
  BY <1>1 DEF Taint

\* The entries of the disk that MkdirAll and a rename produce.
LEMMA ParentsType ==
    ASSUME disk \in [Paths -> Entry], NEW p \in Paths
    PROVE  WithParents(p) \in [Paths -> Entry] /\ Opened(p) \in Contents
  BY ContentAssumption DEF WithParents, Dir, Entry, Opened

\* A rename keeps the types of the tree and of the conflict copies.
LEMMA DiskRenameType ==
    ASSUME disk \in [Paths -> Entry], copies \in [Paths -> Seq(Contents)],
           NEW old \in Paths, NEW new \in Paths, DiskRename(old, new)
    PROVE  disk' \in [Paths -> Entry] /\ copies' \in [Paths -> Seq(Contents)]
<1>1. Absent \in Entry
  BY ContentAssumption DEF Absent, Entry
<1>2. \A q \in Paths : Arrives(old, new, q) => Source(old, new, q) \in Paths
  BY DEF Arrives, Tree
<1>3. WithParents(new) \in [Paths -> Entry]
  BY ParentsType
<1>4. disk' \in [Paths -> Entry]
  BY <1>1, <1>2, <1>3 DEF DiskRename
<1>5. copies' \in [Paths -> Seq(Contents)]
  BY <1>2 DEF DiskRename
<1> QED
  BY <1>4, <1>5

\* The content a conflict copy gets.
LEMMA ConflictDataType ==
    ASSUME DBInv, NEW r \in Requests, r.op \in Writes
    PROVE  ConflictData(r) \subseteq Contents
<1>1. r.path \in Paths /\ r.data \in Contents
  BY RequestFields
<1>2. BaseSnapshot(r.path, r.base) \subseteq Contents
  <2>1. ver[r.path] \in [1..Cur(r.path) -> Row]
    BY <1>1, GoodAtCur DEF GoodAt
  <2> QED
    BY <2>1, ContentAssumption DEF BaseSnapshot, Row
<1>3. CASE r.op = "write"
  BY <1>1, <1>3 DEF ConflictData
<1>4. CASE r.op = "range"
  BY <1>2, <1>4, ContentsClosed DEF ConflictData
<1>5. CASE r.op = "resize"
  BY <1>2, <1>5, ContentsClosed DEF ConflictData
<1> QED
  BY <1>3, <1>4, <1>5 DEF Writes

\* Trimming keeps copies.
LEMMA TrimType ==
    ASSUME NEW s \in Seq(Contents)
    PROVE  Trim(s) \in Seq(Contents)
<1>1. CASE MaxCopies > 0 /\ Len(s) > MaxCopies
  <2>1. MaxCopies \in Nat /\ Len(s) \in Nat
    BY BoundsAssumption
  <2>2. \A i \in (Len(s) - MaxCopies + 1)..Len(s) : s[i] \in Contents
    BY <1>1, <2>1
  <2> QED
    BY <1>1, <2>1, <2>2 DEF Trim
<1>2. CASE ~(MaxCopies > 0 /\ Len(s) > MaxCopies)
  BY <1>2 DEF Trim
<1> QED
  BY <1>1, <1>2

-----------------------------------------------------------------------------
(* The database *)

\* Recording a write is one of VersionStore's transactions.
LEMMA CommitIsSave ==
    ASSUME HandlerTypeOK, NEW h \in Handlers, Commit(h)
    PROVE  \E p \in Paths : SaveAny(p)
<1>1. req[h] \in Requests /\ buf[h] \in Contents
  BY DEF HandlerTypeOK
<1>2. req[h].path \in Paths
  BY <1>1, RequestFields
<1> DEFINE change == IF resolved[h].exists THEN "modify" ELSE "create"
           blob == req[h].op # "write" \/ buf[h] # EmptyContent
<1>3. change \in {"create", "modify"} /\ blob \in BOOLEAN /\ (~blob => buf[h] = EmptyContent)
  OBVIOUS
<1>4. SaveFileSnapshot(req[h].path, buf[h], change, blob)
  BY DEF Commit
<1> HIDE DEF change, blob
<1> QED
  BY <1>1, <1>2, <1>3, <1>4 DEF SaveAny

\* Every step of the file services is a transaction or leaves the tables alone.
LEMMA StepIsTransaction ==
    ASSUME HandlerTypeOK, [Next]_vars
    PROVE  [DBNext]_dbVars
<1>1. ASSUME NEW h \in Handlers PROVE req[h].path \in Paths /\ req[h].to \in Paths
  BY RequestFields DEF HandlerTypeOK
<1>2. ASSUME NEW h \in Handlers, NEW r \in Requests, Begin(h, r) PROVE UNCHANGED dbVars
  BY <1>2 DEF Begin, dbVars
<1>3. ASSUME NEW h \in Handlers, Acquire(h) PROVE UNCHANGED dbVars
  BY <1>3 DEF Acquire, dbVars
<1>4. ASSUME NEW h \in Handlers, Step(h) PROVE [DBNext]_dbVars
  <2>1. CASE Write(h)
    <3>1. CASE Commit(h)
      BY <3>1, CommitIsSave DEF DBNext
    <3>2. CASE ~Commit(h)
      BY <2>1, <3>2 DEF Write, ResolveLatest, ResolveMeta, ResolveStat, Conflict, SkipWrite,
                        WriteDisk, ReadBack, dbVars
    <3> QED
      BY <3>1, <3>2
  <2>2. CASE Delete(h)
    BY <1>1, <2>2 DEF Delete, RemoveDisk, CommitDelete, DBNext, dbVars
  <2>3. CASE Rename(h)
    BY <1>1, <2>3 DEF Rename, RenameDisk, RenameRows, RenameRowsFails, Revert, DBNext, dbVars
  <2>4. CASE Mkdir(h)
    BY <1>1, <2>4 DEF Mkdir, MkdirDisk, RecordDir, DBNext, dbVars
  <2>5. CASE Finish(h)
    BY <2>5 DEF Finish, dbVars
  <2> QED
    BY <1>4, <2>1, <2>2, <2>3, <2>4, <2>5 DEF Step
<1>5. ASSUME NEW h \in Handlers, Failure(h) PROVE UNCHANGED dbVars
  BY <1>5 DEF Failure, StepFails, WriteDiskFails, CommitFails, RenameTxFails, dbVars
<1>6. CASE Crash
  BY <1>6 DEF Crash, dbVars
<1>7. ASSUME NEW p \in Paths, DropOldestCopy(p) PROVE UNCHANGED dbVars
  BY <1>7 DEF DropOldestCopy, dbVars
<1>8. CASE Quiescent \/ UNCHANGED vars
  BY <1>8 DEF Quiescent, vars, dbVars
<1> QED
  BY <1>2, <1>3, <1>4, <1>5, <1>6, <1>7, <1>8 DEF Next

-----------------------------------------------------------------------------
(* Types, action by action *)

\* The constants of the handlers' variables.
LEMMA ConstantTypes ==
    /\ NoRequest \in Requests /\ NoHead \in FileHead /\ NoReply \in Reply /\ Error \in Reply
    /\ EmptyContent \in Contents /\ Absent \in Entry /\ Dir \in Entry
    /\ \A c \in Contents : File(c) \in Entry
    /\ \A v \in 0..MaxVersion : Ok(v) \in Reply /\ \A b \in BOOLEAN : Conflicted(v, b) \in Reply
    /\ Ok(0) \in Reply
<1> USE ContentAssumption, MaxVersionAssumption
<1>1. NoRequest \in Requests
  BY RequestsAssumption DEF NoRequest
<1>2. NoHead \in FileHead
  BY DEF NoHead, FileHead
<1>3. Absent \in Entry /\ Dir \in Entry /\ \A c \in Contents : File(c) \in Entry
  BY DEF Absent, Dir, File, Entry
<1>4. NoReply \in Reply /\ Error \in Reply /\ Ok(0) \in Reply
  BY DEF NoReply, Error, Ok, Reply
<1>5. \A v \in 0..MaxVersion : Ok(v) \in Reply /\ \A b \in BOOLEAN : Conflicted(v, b) \in Reply
  BY DEF Ok, Conflicted, Reply
<1> QED
  BY <1>1, <1>2, <1>3, <1>4, <1>5

\* A handler's move to another stage, with or without a response.
LEMMA GotoType ==
    ASSUME HandlerTypeOK, NEW h \in Handlers
    PROVE  /\ \A s \in Stages : Goto(h, s) => pc' \in [Handlers -> Stages]
           /\ \A r \in Reply : Respond(h, r) =>
                pc' \in [Handlers -> Stages] /\ reply' \in [Handlers -> Reply]
<1>1. "reply" \in Stages
  BY DEF Stages
<1> QED
  BY <1>1 DEF HandlerTypeOK, Goto, Respond

\* Taking and giving back locks.
LEMMA LockingType ==
    ASSUME HandlerTypeOK, NEW h \in Handlers,
           (\E r \in Requests : Begin(h, r)) \/ Acquire(h) \/ Finish(h)
    PROVE  HandlerTypeOK'
<1> USE ConstantTypes, GotoType
<1>1. tainted' \subseteq Paths
  BY TaintType DEF HandlerTypeOK, Begin, Acquire, Finish
<1>2. CASE \E r \in Requests : Begin(h, r)
  <2>1. PICK r \in Requests : Begin(h, r)
    BY <1>2
  <2>2. pc' \in [Handlers -> Stages] /\ reply' \in [Handlers -> Reply]
    <3>1. "lock" \in Stages
      BY DEF Stages
    <3> QED
      BY <2>1, <3>1 DEF Begin, HandlerTypeOK
  <2>3. served' \in 0..MaxRequests
    BY <2>1, BoundsAssumption DEF Begin, HandlerTypeOK
  <2>4. req' \in [Handlers -> Requests]
    BY <2>1 DEF Begin, HandlerTypeOK
  <2> QED
    BY <1>1, <2>1, <2>2, <2>3, <2>4 DEF Begin, HandlerTypeOK
<1>3. CASE Acquire(h)
  <2>1. req[h].op \in Ops
    BY RequestFields DEF HandlerTypeOK
  <2>2. FirstStage(req[h].op) \in Stages
    BY <2>1 DEF FirstStage, Stages, Ops, Writes
  <2>3. pc' \in [Handlers -> Stages]
    BY <1>3, <2>2 DEF Acquire, HandlerTypeOK
  <2>4. owner' \in [Paths -> Handlers \cup {Nobody}]
    BY <1>3 DEF Acquire, HandlerTypeOK
  <2> QED
    BY <1>1, <1>3, <2>3, <2>4 DEF Acquire, HandlerTypeOK
<1>4. CASE Finish(h)
  <2>1. "idle" \in Stages
    BY DEF Stages
  <2>2. pc' \in [Handlers -> Stages]
    BY <1>4, <2>1 DEF Finish
  <2> QED
    BY <1>1, <1>4, <2>2 DEF Finish, HandlerTypeOK
<1> QED
  BY <1>2, <1>3, <1>4

\* Reading the head of a file.
LEMMA ResolveType ==
    ASSUME DBInv, HandlerTypeOK, NEW h \in Handlers,
           ResolveLatest(h) \/ ResolveMeta(h) \/ ResolveStat(h)
    PROVE  HandlerTypeOK'
<1> USE ConstantTypes
<1>1. tainted' \subseteq Paths
  BY TaintType DEF HandlerTypeOK, ResolveLatest, ResolveMeta, ResolveStat
<1>2. pc' \in [Handlers -> Stages]
  <2>1. {"meta", "stat", "decide"} \subseteq Stages
    BY DEF Stages
  <2> QED
    BY <2>1, GotoType DEF ResolveLatest, ResolveMeta, ResolveStat
<1>3. req[h].path \in Paths
  BY RequestFields DEF HandlerTypeOK
<1> DEFINE p == req[h].path
<1>4. CASE ResolveLatest(h)
  <2> DEFINE last == Max((DOMAIN ver[p]) \cup {0})
             head1 == IF last = 0 THEN NoHead
                      ELSE [version |-> last, exists |-> FALSE,
                            deleted |-> ver[p][last].change = "delete", data |-> ver[p][last].data]
  <2>1. Cur(p) \in 0..MaxVersion /\ ver[p] \in [1..Cur(p) -> Row]
    BY <1>3, GoodAtCur DEF GoodAt
  <2>2. last = Cur(p)
    <3>1. Cur(p) \in Nat /\ 0 \in 0..Cur(p) /\ DOMAIN ver[p] = 1..Cur(p)
      BY <2>1, MaxVersionAssumption
    <3> QED
      BY <3>1, MaxOfRange
  <2> HIDE DEF last, p
  <2>3. head1 \in FileHead
    <3>1. CASE last = 0
      BY <3>1
    <3>2. CASE last # 0
      <4>1. ver[p][last] \in Row /\ last \in 0..MaxVersion
        BY <2>1, <2>2, <3>2, MaxVersionAssumption
      <4> QED
        BY <3>2, <4>1 DEF FileHead, Row
    <3> QED
      BY <3>1, <3>2
  <2>4. resolved' = [resolved EXCEPT ![h] = head1]
    BY <1>4 DEF ResolveLatest, last, p
  <2> HIDE DEF head1
  <2>5. resolved' \in [Handlers -> FileHead]
    BY <2>3, <2>4 DEF HandlerTypeOK
  <2> QED
    BY <1>1, <1>2, <1>4, <2>5 DEF ResolveLatest, HandlerTypeOK
<1>5. CASE ResolveMeta(h)
  <2>1. meta[p] \in Meta
    BY <1>3 DEF DBInv
  <2>2. [version |-> meta[p].version, exists |-> TRUE, deleted |-> FALSE, data |-> meta[p].data] \in FileHead
    BY <2>1 DEF Meta, FileHead
  <2>3. resolved' \in [Handlers -> FileHead]
    BY <1>5, <2>2 DEF ResolveMeta, HandlerTypeOK
  <2> QED
    BY <1>1, <1>2, <1>5, <2>3 DEF ResolveMeta, HandlerTypeOK
<1>6. CASE ResolveStat(h)
  <2>1. disk[p] \in Entry /\ resolved[h] \in FileHead
    BY <1>3 DEF HandlerTypeOK
  <2>2. [resolved[h] EXCEPT !.exists = disk[p].kind # "absent", !.data = disk[p].data] \in FileHead
    BY <2>1 DEF Entry, FileHead
  <2>3. resolved' = [resolved EXCEPT ![h] =
            [resolved[h] EXCEPT !.exists = disk[p].kind # "absent", !.data = disk[p].data]]
    BY <1>6 DEF ResolveStat, HandlerTypeOK
  <2>4. resolved' \in [Handlers -> FileHead]
    BY <2>2, <2>3 DEF HandlerTypeOK
  <2> QED
    BY <1>1, <1>2, <1>6, <2>4 DEF ResolveStat, HandlerTypeOK
<1> QED
  BY <1>4, <1>5, <1>6

\* Writing a file, or a conflict copy of it.
LEMMA WriteType ==
    ASSUME DBInv, HandlerTypeOK, NEW h \in Handlers,
           Conflict(h) \/ SkipWrite(h) \/ WriteDisk(h) \/ ReadBack(h) \/ Commit(h)
    PROVE  HandlerTypeOK'
<1> USE ConstantTypes
<1> DEFINE r == req[h]
           p == req[h].path
<1>1. tainted' \subseteq Paths
  BY TaintType DEF HandlerTypeOK, Conflict, SkipWrite, WriteDisk, ReadBack, Commit
<1>2. r \in Requests /\ p \in Paths
  BY RequestFields DEF HandlerTypeOK
<1>3. resolved[h] \in FileHead /\ resolved[h].version \in 0..MaxVersion
  BY DEF HandlerTypeOK, FileHead
<1>4. WithParents(p) \in [Paths -> Entry] /\ Opened(p) \in Contents
  BY <1>2, ParentsType DEF HandlerTypeOK
<1>5. CASE Conflict(h)
  <2>1. pc' \in [Handlers -> Stages] /\ reply' \in [Handlers -> Reply]
    BY <1>3, <1>5, GotoType DEF Conflict, WithoutCopy
  <2>2. disk' \in [Paths -> Entry]
    BY <1>4, <1>5 DEF Conflict, HandlerTypeOK
  <2>3. copies' \in [Paths -> Seq(Contents)]
    <3>1. CASE copies' = copies
      BY <3>1 DEF HandlerTypeOK
    <3>2. CASE copies' # copies
      <4>1. PICK c \in ConflictData(r) :
                copies' = [copies EXCEPT ![p] =
                              IF r.op = "write" THEN Trim(Append(@, c)) ELSE Append(@, c)]
        BY <1>5, <3>2 DEF Conflict
      <4>2. c \in Contents
        BY <1>2, <1>5, <4>1, ConflictDataType DEF Conflict
      <4>3. Append(copies[p], c) \in Seq(Contents)
        BY <1>2, <4>2 DEF HandlerTypeOK
      <4>4. Trim(Append(copies[p], c)) \in Seq(Contents)
        BY <4>3, TrimType
      <4> QED
        BY <4>1, <4>3, <4>4 DEF HandlerTypeOK
    <3> QED
      BY <3>1, <3>2
  <2> QED
    BY <1>1, <1>5, <2>1, <2>2, <2>3 DEF Conflict, HandlerTypeOK
<1>6. CASE SkipWrite(h)
  <2>1. pc' \in [Handlers -> Stages] /\ reply' \in [Handlers -> Reply]
    BY <1>3, <1>6, GotoType DEF SkipWrite
  <2> QED
    BY <1>1, <1>6, <2>1 DEF SkipWrite, HandlerTypeOK
<1>7. CASE WriteDisk(h)
  <2> DEFINE c == Mutate(r, Opened(p))
  <2>1. c \in Contents
    BY <1>2, <1>4, <1>7, ContentsClosed DEF WriteDisk
  <2>2. File(c) \in Entry
    BY <2>1
  <2>3. /\ disk' = [WithParents(p) EXCEPT ![p] = File(c)] \/ disk' = disk
        /\ buf' = [buf EXCEPT ![h] = c] \/ buf' = buf
    BY <1>7 DEF WriteDisk
  <2> HIDE DEF c
  <2>4. disk' \in [Paths -> Entry] /\ buf' \in [Handlers -> Contents]
    BY <1>4, <2>1, <2>2, <2>3 DEF HandlerTypeOK
  <2>5. pc' \in [Handlers -> Stages] /\ reply' \in [Handlers -> Reply]
    <3>1. {"commit", "readback"} \subseteq Stages
      BY DEF Stages
    <3> QED
      BY <1>7, <3>1, GotoType DEF WriteDisk, HandlerTypeOK
  <2>6. faults' \in 0..MaxFaults
    BY <1>7, BoundsAssumption DEF WriteDisk, IsToWrite, Fault, HandlerTypeOK
  <2> QED
    BY <1>1, <1>7, <2>4, <2>5, <2>6 DEF WriteDisk, HandlerTypeOK
<1>8. CASE ReadBack(h)
  <2>1. disk[p].data \in Contents
    BY <1>2 DEF HandlerTypeOK, Entry
  <2>2. buf' \in [Handlers -> Contents]
    BY <1>8, <2>1 DEF ReadBack, HandlerTypeOK
  <2>3. pc' \in [Handlers -> Stages] /\ reply' \in [Handlers -> Reply]
    <3>1. "commit" \in Stages
      BY DEF Stages
    <3> QED
      BY <1>8, <3>1, GotoType DEF ReadBack, HandlerTypeOK
  <2> QED
    BY <1>1, <1>8, <2>2, <2>3 DEF ReadBack, HandlerTypeOK
<1>9. CASE Commit(h)
  <2>1. NextVersion(p) \in 0..MaxVersion
    <3>1. Cur(p) \in 0..MaxVersion
      BY <1>2, GoodAtCur
    <3>2. NextVersion(p) <= MaxVersion
      BY <1>9 DEF Commit, SaveFileSnapshot
    <3> QED
      BY <3>1, <3>2, MaxVersionAssumption DEF NextVersion
  <2>2. Ok(NextVersion(p)) \in Reply
    BY <2>1
  <2>3. pc' \in [Handlers -> Stages] /\ reply' \in [Handlers -> Reply]
    BY <1>9, <2>2, GotoType DEF Commit
  <2> QED
    BY <1>1, <1>9, <2>3 DEF Commit, HandlerTypeOK
<1> QED
  BY <1>5, <1>6, <1>7, <1>8, <1>9

\* Deleting a file and creating a directory.
LEMMA DeleteMkdirType ==
    ASSUME HandlerTypeOK, NEW h \in Handlers, Delete(h) \/ Mkdir(h)
    PROVE  HandlerTypeOK'
<1> USE ConstantTypes
<1>1. tainted' \subseteq Paths
  BY TaintType DEF HandlerTypeOK, Delete, Mkdir, RemoveDisk, CommitDelete, MkdirDisk, RecordDir
<1>2. req[h].path \in Paths
  BY RequestFields DEF HandlerTypeOK
<1>3. {"commitDelete", "setMeta"} \subseteq Stages
  BY DEF Stages
<1>4. pc' \in [Handlers -> Stages] /\ reply' \in [Handlers -> Reply]
  BY <1>3, GotoType DEF HandlerTypeOK, Delete, Mkdir, RemoveDisk, CommitDelete, MkdirDisk, RecordDir
<1>5. disk' \in [Paths -> Entry]
  BY <1>2, ParentsType DEF HandlerTypeOK, Delete, Mkdir, RemoveDisk, CommitDelete, MkdirDisk, RecordDir
<1> QED
  BY <1>1, <1>4, <1>5 DEF HandlerTypeOK, Delete, Mkdir, RemoveDisk, CommitDelete, MkdirDisk, RecordDir

\* Renaming.
LEMMA RenameType ==
    ASSUME HandlerTypeOK, NEW h \in Handlers, Rename(h)
    PROVE  HandlerTypeOK'
<1> USE ConstantTypes
<1> DEFINE old == req[h].path
           new == req[h].to
<1>1. old \in Paths /\ new \in Paths
  BY RequestFields DEF HandlerTypeOK
<1>2. tainted' \subseteq Paths
  <2>1. Carried(old, new) \subseteq Paths /\ Carried(new, old) \subseteq Paths
    BY DEF Carried
  <2>2. Tree(old) \subseteq Paths /\ Tree(new) \subseteq Paths
    BY DEF Tree
  <2>3. CASE RenameDisk(h)
    <3> DEFINE S == IF CanRename(old, new)
                    THEN Carried(old, new) \cup {p \in {new} : disk[p].kind = "file"}
                    ELSE {}
    <3>1. S \in SUBSET Paths
      BY <1>1, <2>1
    <3>2. Taint(S)
      BY <2>3 DEF RenameDisk
    <3> HIDE DEF S
    <3> QED
      BY <3>1, <3>2, TaintType DEF HandlerTypeOK
  <2>4. CASE Revert(h)
    <3> DEFINE S == IF CanRename(new, old) THEN Carried(new, old) ELSE Tree(old) \cup Tree(new)
    <3>1. S \in SUBSET Paths
      BY <2>1, <2>2
    <3>2. Taint(S)
      BY <2>4 DEF Revert
    <3> HIDE DEF S
    <3> QED
      BY <3>1, <3>2, TaintType DEF HandlerTypeOK
  <2>5. CASE RenameRows(h)
    <3>1. Taint(Carried(old, new))
      BY <2>5 DEF RenameRows
    <3> QED
      BY <2>1, <3>1, TaintType DEF HandlerTypeOK
  <2>6. CASE RenameRowsFails(h)
    BY <2>6, TaintType DEF HandlerTypeOK, RenameRowsFails
  <2> QED
    BY <2>3, <2>4, <2>5, <2>6 DEF Rename
<1>3. pc' \in [Handlers -> Stages] /\ reply' \in [Handlers -> Reply]
  <2>1. {"renameTx", "revert"} \subseteq Stages
    BY DEF Stages
  <2> QED
    BY <2>1, GotoType DEF HandlerTypeOK, Rename, RenameDisk, RenameRows, RenameRowsFails, Revert
<1>4. disk' \in [Paths -> Entry] /\ copies' \in [Paths -> Seq(Contents)]
  <2>1. /\ DiskRename(old, new) => disk' \in [Paths -> Entry] /\ copies' \in [Paths -> Seq(Contents)]
        /\ DiskRename(new, old) => disk' \in [Paths -> Entry] /\ copies' \in [Paths -> Seq(Contents)]
    BY <1>1, DiskRenameType DEF HandlerTypeOK
  <2>2. WithParents(new) \in [Paths -> Entry] /\ WithParents(old) \in [Paths -> Entry]
    BY <1>1, ParentsType DEF HandlerTypeOK
  <2> QED
    BY <2>1, <2>2 DEF HandlerTypeOK, Rename, RenameDisk, RenameRows, RenameRowsFails, Revert
<1> QED
  BY <1>2, <1>3, <1>4 DEF HandlerTypeOK, Rename, RenameDisk, RenameRows, RenameRowsFails, Revert

\* The paths on which a handler is ahead of the database.
LEMMA AheadType ==
    ASSUME HandlerTypeOK, NEW h \in Handlers
    PROVE  Ahead(h) \subseteq Paths
<1>1. req[h].path \in Paths
  BY RequestFields DEF HandlerTypeOK
<1>2. pc[h] \in Stages
  BY DEF HandlerTypeOK
<1>3. CASE pc[h] \in {"readback", "commit", "commitDelete", "setMeta"}
  BY <1>1, <1>3 DEF Ahead, Moving
<1>4. CASE pc[h] \in Moving
  BY <1>4 DEF Ahead, Moving, Tree
<1>5. CASE pc[h] \notin {"readback", "commit", "commitDelete", "setMeta"} \cup Moving
  BY <1>5 DEF Ahead
<1> QED
  BY <1>3, <1>4, <1>5

\* Failures, crashes and the removal of conflict copies.
LEMMA FailureType ==
    ASSUME HandlerTypeOK,
           (\E h \in Handlers : Failure(h)) \/ Crash \/ (\E p \in Paths : DropOldestCopy(p))
    PROVE  HandlerTypeOK'
<1> USE ConstantTypes
<1>1. ASSUME NEW h \in Handlers, Failure(h) PROVE HandlerTypeOK'
  <2>1. faults' \in 0..MaxFaults
    BY <1>1, BoundsAssumption
       DEF HandlerTypeOK, Failure, StepFails, WriteDiskFails, CommitFails, RenameTxFails, Fault
  <2>2. "revert" \in Stages
    BY DEF Stages
  <2>3. pc' \in [Handlers -> Stages] /\ reply' \in [Handlers -> Reply]
    <3>1. Error \in Reply /\ WithoutCopy(h) \in Reply
      <4>1. resolved[h].version \in 0..MaxVersion
        BY DEF HandlerTypeOK, FileHead
      <4> QED
        BY <4>1 DEF WithoutCopy
    <3>2. CASE RenameTxFails(h)
      BY <2>2, <3>2, GotoType DEF HandlerTypeOK, RenameTxFails
    <3>3. CASE ~RenameTxFails(h)
      <4>1. \E r \in Reply : Respond(h, r)
        BY <1>1, <3>1, <3>3 DEF Failure, StepFails, WriteDiskFails, CommitFails
      <4> QED
        BY <4>1, GotoType
    <3> QED
      BY <3>2, <3>3
  <2>4. req[h] \in Requests /\ req[h].path \in Paths
    BY RequestFields DEF HandlerTypeOK
  <2>5. tainted' \subseteq Paths
    <3>1. {req[h].path} \in SUBSET Paths /\ Ahead(h) \in SUBSET Paths /\ {} \in SUBSET Paths
      BY <2>4, AheadType
    <3> QED
      BY <1>1, <3>1, TaintType
         DEF HandlerTypeOK, Failure, StepFails, WriteDiskFails, CommitFails, RenameTxFails
  <2>6. disk' \in [Paths -> Entry]
    <3>1. CASE WriteDiskFails(h)
      <4> DEFINE c == IF req[h].op = "write" THEN EmptyContent ELSE Mutate(req[h], Opened(req[h].path))
      <4>1. WithParents(req[h].path) \in [Paths -> Entry] /\ Opened(req[h].path) \in Contents
        BY <2>4, ParentsType DEF HandlerTypeOK
      <4>2. c \in Contents
        BY <2>4, <3>1, <4>1, ContentsClosed DEF WriteDiskFails
      <4>3. disk' = [WithParents(req[h].path) EXCEPT ![req[h].path] = File(c)]
        BY <3>1 DEF WriteDiskFails
      <4> HIDE DEF c
      <4> QED
        BY <4>1, <4>2, <4>3
    <3>2. CASE ~WriteDiskFails(h)
      BY <1>1, <3>2 DEF HandlerTypeOK, Failure, StepFails, CommitFails, RenameTxFails
    <3> QED
      BY <3>1, <3>2
  <2> QED
    BY <1>1, <2>1, <2>3, <2>5, <2>6
       DEF HandlerTypeOK, Failure, StepFails, WriteDiskFails, CommitFails, RenameTxFails
<1>2. CASE Crash
  <2>1. "idle" \in Stages
    BY DEF Stages
  <2>2. faults' \in 0..MaxFaults
    BY <1>2, BoundsAssumption DEF HandlerTypeOK, Crash, Fault
  <2>3. UNION {Ahead(h) : h \in Handlers} \in SUBSET Paths
    BY AheadType
  <2>4. tainted' \subseteq Paths
    BY <1>2, <2>3, TaintType DEF HandlerTypeOK, Crash
  <2> QED
    BY <1>2, <2>1, <2>2, <2>4 DEF HandlerTypeOK, Crash
<1>3. ASSUME NEW p \in Paths, DropOldestCopy(p) PROVE HandlerTypeOK'
  <2>1. tainted' \subseteq Paths
    BY <1>3, TaintType DEF HandlerTypeOK, DropOldestCopy
  <2>2. copies[p] \in Seq(Contents) /\ copies[p] # << >>
    BY <1>3 DEF HandlerTypeOK, DropOldestCopy
  <2>3. Tail(copies[p]) \in Seq(Contents)
    BY <2>2
  <2>4. copies' \in [Paths -> Seq(Contents)]
    BY <1>3, <2>3 DEF HandlerTypeOK, DropOldestCopy
  <2> QED
    BY <1>3, <2>1, <2>4 DEF HandlerTypeOK, DropOldestCopy, handlerVars
<1> QED
  BY <1>1, <1>2, <1>3

-----------------------------------------------------------------------------
(* Locks *)

\* LockMany takes the first of the locks it still wants.
LEMMA NextLockIsFirst ==
    ASSUME HandlerTypeOK, NEW h \in Handlers, Wanted(h) # {}
    PROVE  /\ NextLock(h) \in Wanted(h) /\ NextLock(h) \in Paths
           /\ \A q \in Wanted(h) : Rank[NextLock(h)] <= Rank[q]
<1>1. Wanted(h) \subseteq Paths
  BY RequestFields DEF HandlerTypeOK, Wanted
<1> DEFINE T == {Rank[p] : p \in Wanted(h)}
<1>2. T \subseteq Nat /\ T # {}
  BY <1>1, RankAssumption
<1>3. PICK x \in T : \A y \in T : x <= y
  BY <1>2, LeastNat
<1>4. \E p \in Wanted(h) : \A q \in Wanted(h) : Rank[p] <= Rank[q]
  BY <1>3
<1> HIDE DEF T
<1>5. NextLock(h) \in Wanted(h) /\ \A q \in Wanted(h) : Rank[NextLock(h)] <= Rank[q]
  BY <1>4 DEF NextLock
<1> QED
  BY <1>1, <1>5

\* A step of a handler that works on its request moves it on, and touches
\* neither locks nor requests.
LEMMA WorkMovesOn ==
    ASSUME HandlerTypeOK, NEW h \in Handlers,
           Write(h) \/ Delete(h) \/ Rename(h) \/ Mkdir(h) \/ Failure(h)
    PROVE  /\ pc[h] \in Work /\ owner' = owner /\ req' = req
           /\ \E s \in Work \cup {"reply"} : pc' = [pc EXCEPT ![h] = s]
<1> USE DEF Work, Stages, Goto, Respond
<1>1. CASE Write(h)
  BY <1>1 DEF Write, ResolveLatest, ResolveMeta, ResolveStat, Conflict, SkipWrite, WriteDisk,
              ReadBack, Commit
<1>2. CASE Delete(h)
  BY <1>2 DEF Delete, RemoveDisk, CommitDelete
<1>3. CASE Rename(h)
  BY <1>3 DEF Rename, RenameDisk, RenameRows, RenameRowsFails, Revert
<1>4. CASE Mkdir(h)
  BY <1>4 DEF Mkdir, MkdirDisk, RecordDir
<1>5. CASE Failure(h)
  BY <1>5 DEF Failure, StepFails, WriteDiskFails, CommitFails, RenameTxFails
<1> QED
  BY <1>1, <1>2, <1>3, <1>4, <1>5

\* Such a step preserves the lock invariant.
LEMMA WorkLockInv ==
    ASSUME HandlerTypeOK, LockInv, NEW h \in Handlers,
           Write(h) \/ Delete(h) \/ Rename(h) \/ Mkdir(h) \/ Failure(h)
    PROVE  LockInv'
<1>1. pc[h] \in Work /\ owner' = owner /\ req' = req
  BY WorkMovesOn
<1>2. PICK s \in Work \cup {"reply"} : pc' = [pc EXCEPT ![h] = s]
  BY WorkMovesOn
<1>3. s # "idle" /\ s # "lock"
  BY <1>2 DEF Work
<1>4. ASSUME NEW g \in Handlers
      PROVE  /\ Held(g)' = Held(g) /\ Wanted(g)' = Wanted(g)
             /\ pc'[g] = IF g = h THEN s ELSE pc[g]
  BY <1>1, <1>2 DEF Held, Wanted, HandlerTypeOK
<1> QED
  BY <1>1, <1>3, <1>4 DEF LockInv

\* A request begins with no lock.
LEMMA BeginLockInv ==
    ASSUME HandlerTypeOK, LockInv, NEW h \in Handlers, NEW r \in Requests, Begin(h, r)
    PROVE  LockInv'
<1>1. pc[h] = "idle" /\ owner' = owner /\ req' = [req EXCEPT ![h] = r]
  BY DEF Begin
<1>2. PICK s \in {"lock", "reply"} : pc' = [pc EXCEPT ![h] = s]
  BY DEF Begin, Goto, Respond
<1>3. Held(h)' = {} /\ Wanted(h)' = LockSet(r)
  BY <1>1 DEF Held, Wanted, LockInv, HandlerTypeOK
<1>4. LockSet(r) # {}
  BY RequestFields
<1>5. ASSUME NEW g \in Handlers, g # h
      PROVE  Held(g)' = Held(g) /\ Wanted(g)' = Wanted(g) /\ pc'[g] = pc[g] /\ req'[g] = req[g]
  BY <1>1, <1>2, <1>5 DEF Held, Wanted, HandlerTypeOK
<1>6. pc'[h] \notin Work /\ pc'[h] # "idle"
  BY <1>2 DEF HandlerTypeOK, Work
<1> QED
  BY <1>3, <1>4, <1>5, <1>6 DEF LockInv

\* Taking the first lock that is still wanted keeps the order.
LEMMA AcquireLockInv ==
    ASSUME HandlerTypeOK, LockInv, NEW h \in Handlers, Acquire(h)
    PROVE  LockInv'
<1> DEFINE n == NextLock(h)
<1>1. pc[h] = "lock" /\ Wanted(h) # {}
  BY DEF Acquire, LockInv
<1>2. n \in Wanted(h) /\ n \in Paths /\ \A q \in Wanted(h) : Rank[n] <= Rank[q]
  BY <1>1, NextLockIsFirst
<1>3. owner[n] = Nobody /\ owner' = [owner EXCEPT ![n] = h] /\ req' = req
  BY DEF Acquire
<1> HIDE DEF n
<1>5. Held(h)' = Held(h) \cup {n}
  BY <1>2, <1>3 DEF Held, HandlerTypeOK
<1>6. Wanted(h)' = Wanted(h) \ {n}
  BY <1>3, <1>5 DEF Wanted
<1>7. ASSUME NEW g \in Handlers, g # h
      PROVE  Held(g)' = Held(g) /\ Wanted(g)' = Wanted(g) /\ pc'[g] = pc[g] /\ req'[g] = req[g]
  <2>1. Held(g)' = Held(g)
    BY <1>2, <1>3, <1>7, HandlersAssumption DEF Held, HandlerTypeOK
  <2>2. pc'[g] = pc[g]
    BY <1>7 DEF Acquire, Goto, HandlerTypeOK
  <2> QED
    BY <1>3, <2>1, <2>2 DEF Wanted
<1>8. CASE Wanted(h) = {n}
  <2>1. LockSet(req[h]) \subseteq Held(h)'
    BY <1>5, <1>8 DEF Wanted
  <2>2. pc'[h] = FirstStage(req[h].op)
    BY <1>8 DEF Acquire, Goto, HandlerTypeOK, n
  <2>3. req[h].op \in Ops
    BY RequestFields DEF HandlerTypeOK
  <2>4. pc'[h] # "idle" /\ pc'[h] # "lock"
    BY <2>2, <2>3 DEF FirstStage, Ops, Writes
  <2> QED
    BY <1>3, <1>7, <2>1, <2>4 DEF LockInv
<1>9. CASE Wanted(h) # {n}
  <2>1. pc'[h] = "lock"
    BY <1>1, <1>9 DEF Acquire, n
  <2>2. Wanted(h)' # {}
    BY <1>2, <1>6, <1>9
  <2>3. ASSUME NEW p \in Held(h)', NEW q \in Wanted(h)' PROVE Rank[p] < Rank[q]
    <3>1. q \in Wanted(h) /\ q # n /\ q \in Paths
      BY <1>6, RequestFields DEF Wanted, HandlerTypeOK
    <3>2. CASE p \in Held(h)
      BY <1>1, <3>1, <3>2 DEF LockInv
    <3>3. CASE p = n
      <4>1. Rank[n] <= Rank[q] /\ Rank[n] # Rank[q] /\ Rank[n] \in Nat /\ Rank[q] \in Nat
        BY <1>2, <3>1, RankAssumption
      <4> QED
        BY <3>3, <4>1
    <3> QED
      BY <1>5, <3>2, <3>3
  <2>4. pc'[h] \notin Work /\ pc'[h] # "idle"
    BY <2>1 DEF Work
  <2> QED
    BY <1>7, <2>2, <2>3, <2>4 DEF LockInv
<1> QED
  BY <1>8, <1>9

\* A handler that is done gives back its own locks and no others.
LEMMA FinishLockInv ==
    ASSUME HandlerTypeOK, LockInv, NEW h \in Handlers, Finish(h)
    PROVE  LockInv'
<1>1. owner' = [p \in Paths |-> IF owner[p] = h THEN Nobody ELSE owner[p]]
  BY DEF Finish
<1>2. Held(h)' = {} /\ pc'[h] = "idle"
  BY <1>1, HandlersAssumption DEF Held, Finish, Goto, HandlerTypeOK
<1>3. ASSUME NEW g \in Handlers, g # h
      PROVE  Held(g)' = Held(g) /\ Wanted(g)' = Wanted(g) /\ pc'[g] = pc[g] /\ req'[g] = req[g]
  <2>1. Held(g)' = Held(g)
    BY <1>1, <1>3, HandlersAssumption DEF Held
  <2>2. pc'[g] = pc[g] /\ req'[g] = req[g]
    BY <1>3 DEF Finish, Goto, HandlerTypeOK
  <2> QED
    BY <2>1, <2>2 DEF Wanted
<1>4. "idle" \notin Work
  BY DEF Work
<1> QED
  BY <1>2, <1>3, <1>4 DEF LockInv

-----------------------------------------------------------------------------
(* The inductive invariant *)

\* The service starts in the invariant.
LEMMA InitServiceInv == Init => ServiceInv
<1> SUFFICES ASSUME Init PROVE ServiceInv
  OBVIOUS
<1>1. DBInv
  BY InitDBInv DEF Init
<1>2. disk \in [Paths -> Entry]
  <2>1. {Absent, Dir, File(EmptyContent)} \cup {File(c) : c \in UntrackedData} \subseteq Entry
    BY ConstantTypes, BoundsAssumption
  <2> QED
    BY <2>1 DEF Init
<1>3. HandlerTypeOK
  <2>1. "idle" \in Stages /\ << >> \in Seq(Contents)
    BY DEF Stages
  <2>2. 0 \in 0..MaxRequests /\ 0 \in 0..MaxFaults
    BY BoundsAssumption
  <2> QED
    BY <1>2, <2>1, <2>2, ConstantTypes DEF Init, HandlerTypeOK
<1>4. LockInv
  <2>1. ASSUME NEW h \in Handlers PROVE Held(h) = {} /\ pc[h] = "idle"
    BY HandlersAssumption DEF Init, Held
  <2>2. "idle" \notin Work
    BY DEF Work
  <2> QED
    BY <2>1, <2>2 DEF LockInv
<1> QED
  BY <1>1, <1>3, <1>4 DEF ServiceInv

\* Every step preserves the types.
LEMMA NextHandlerType ==
    ASSUME DBInv, HandlerTypeOK, [Next]_vars
    PROVE  HandlerTypeOK'
<1>1. CASE UNCHANGED vars
  BY <1>1 DEF vars, handlerVars, HandlerTypeOK
<1>2. ASSUME NEW h \in Handlers, Step(h) PROVE HandlerTypeOK'
  BY <1>2, ResolveType, WriteType, DeleteMkdirType, RenameType, LockingType DEF Step, Write
<1> QED
  BY <1>1, <1>2, LockingType, FailureType DEF Next, Quiescent

\* Every step preserves the lock invariant.
LEMMA NextLockInv ==
    ASSUME HandlerTypeOK, LockInv, [Next]_vars
    PROVE  LockInv'
<1>1. CASE UNCHANGED <<owner, pc, req>>
  BY <1>1 DEF LockInv, Held, Wanted
<1>2. CASE Crash
  <2>1. ASSUME NEW h \in Handlers PROVE Held(h)' = {} /\ pc'[h] = "idle"
    BY <1>2, HandlersAssumption DEF Crash, Held
  <2>2. "idle" \notin Work
    BY DEF Work
  <2> QED
    BY <2>1, <2>2 DEF LockInv
<1>3. ASSUME NEW h \in Handlers, Step(h) PROVE LockInv'
  BY <1>3, WorkLockInv, FinishLockInv DEF Step
<1>4. ASSUME NEW h \in Handlers, Failure(h) PROVE LockInv'
  BY <1>4, WorkLockInv
<1>5. ASSUME NEW p \in Paths, DropOldestCopy(p) PROVE UNCHANGED <<owner, pc, req>>
  BY <1>5 DEF DropOldestCopy, handlerVars
<1>6. Quiescent \/ UNCHANGED vars => UNCHANGED <<owner, pc, req>>
  BY DEF Quiescent, vars, handlerVars
<1> QED
  BY <1>1, <1>2, <1>3, <1>4, <1>5, <1>6, BeginLockInv, AcquireLockInv DEF Next

\* The invariant holds in every reachable state.
THEOREM ServiceInvariant == Spec => []ServiceInv
<1>1. Init => ServiceInv
  BY InitServiceInv
<1>2. ServiceInv /\ [Next]_vars => ServiceInv'
  <2> SUFFICES ASSUME ServiceInv, [Next]_vars PROVE ServiceInv'
    OBVIOUS
  <2>1. DBInv'
    BY StepIsTransaction, NextDBInv DEF ServiceInv
  <2>2. HandlerTypeOK'
    BY NextHandlerType DEF ServiceInv
  <2>3. LockInv'
    BY NextLockInv DEF ServiceInv
  <2> QED
    BY <2>1, <2>2, <2>3 DEF ServiceInv
<1> QED
  BY <1>1, <1>2, PTL DEF Spec

-----------------------------------------------------------------------------
(* Theorems *)

\* The file services keep the types of tables, tree, copies and handlers: no
\* version number, response or recorded content is out of its range.
THEOREM TypeCorrect == Spec => []TypeOK
<1>1. ServiceInv => TypeOK
  BY InvImplies DEF ServiceInv, HandlerTypeOK, TypeOK
<1> QED
  BY <1>1, ServiceInvariant, PTL

\* Whatever the handlers do, and wherever they fail or die, the tables change
\* only by the transactions of VersionStore.
THEOREM ServiceImplementsStore == Spec => DBSpec
<1>1. Init => DBInit
  BY DEF Init
<1>2. ServiceInv /\ [Next]_vars => [DBNext]_dbVars
  BY StepIsTransaction DEF ServiceInv
<1> QED
  BY <1>1, <1>2, ServiceInvariant, PTL DEF Spec, DBSpec

\* With any number of handlers, failures and crashes, histories stay contiguous,
\* no version is lost, and the meta row of a file is its newest version.
THEOREM ServiceKeepsHistory ==
    Spec => []HistoryContiguous /\ []MetaIsNewestSnapshot /\ HistoryPreserved
  BY ServiceImplementsStore, ContiguousHistory, MetaFollowsHistory, HistoryIsPreserved, PTL

\* Two handlers that work on their requests at the same time have no path in
\* common: the locks of PathLocker exclude.
THEOREM MutualExclusion ==
    Spec => [](\A g, h \in Handlers :
                  g # h /\ pc[g] \in Work /\ pc[h] \in Work =>
                      LockSet(req[g]) \cap LockSet(req[h]) = {})
<1>1. ServiceInv => \A g, h \in Handlers :
                  g # h /\ pc[g] \in Work /\ pc[h] \in Work =>
                      LockSet(req[g]) \cap LockSet(req[h]) = {}
  BY DEF ServiceInv, LockInv, Held
<1> QED
  BY <1>1, ServiceInvariant, PTL

\* Under the invariant handlers do not wait for each other in a circle: the
\* waiter for the last of the wanted locks waits for a handler that can run.
LEMMA NoCircle == ServiceInv => NoCircularWait
<1> SUFFICES ASSUME ServiceInv,
                    \E h \in Handlers : pc[h] # "idle",
                    \A h \in Handlers :
                        pc[h] # "idle" => pc[h] = "lock" /\ owner[NextLock(h)] # Nobody
             PROVE  FALSE
  BY DEF NoCircularWait
<1> DEFINE Waiting == {h \in Handlers : pc[h] = "lock"}
           T == {Rank[NextLock(h)] : h \in Waiting}
<1>1. ASSUME NEW h \in Waiting
      PROVE  /\ NextLock(h) \in Wanted(h) /\ NextLock(h) \in Paths
             /\ owner[NextLock(h)] \in Waiting
             /\ NextLock(h) \in Held(owner[NextLock(h)])
  <2>1. Wanted(h) # {}
    BY <1>1 DEF ServiceInv, LockInv
  <2>2. NextLock(h) \in Wanted(h) /\ NextLock(h) \in Paths
    BY <1>1, <2>1, NextLockIsFirst DEF ServiceInv
  <2>3. owner[NextLock(h)] \in Handlers
    BY <1>1, <2>2 DEF ServiceInv, HandlerTypeOK
  <2>4. NextLock(h) \in Held(owner[NextLock(h)])
    BY <2>2 DEF Held
  <2>5. pc[owner[NextLock(h)]] # "idle"
    BY <2>3, <2>4 DEF ServiceInv, LockInv
  <2> QED
    BY <2>2, <2>3, <2>4, <2>5
<1>2. PICK l \in Paths : \A q \in Paths : Rank[q] <= Rank[l]
  BY RankAssumption
<1>3. Rank[l] \in Nat /\ T \subseteq 0..Rank[l] /\ T # {}
  BY <1>1, <1>2, RankAssumption
<1>4. PICK x \in T : \A y \in T : y <= x
  BY <1>3, GreatestNat
<1>5. PICK h \in Waiting : x = Rank[NextLock(h)]
  BY <1>4
<1> DEFINE o == owner[NextLock(h)]
<1>6. o \in Waiting /\ NextLock(h) \in Held(o) /\ NextLock(o) \in Wanted(o)
  BY <1>1
<1>7. Rank[NextLock(h)] < Rank[NextLock(o)]
  BY <1>6 DEF ServiceInv, LockInv
<1>8. Rank[NextLock(o)] \in T
  BY <1>6
<1>9. Rank[NextLock(o)] <= Rank[NextLock(h)]
  BY <1>4, <1>5, <1>8
<1>10. Rank[NextLock(o)] \in Nat /\ Rank[NextLock(h)] \in Nat
  BY <1>1, <1>6, RankAssumption
<1> QED
  BY <1>7, <1>9, <1>10

\* Handlers never block each other for good, whatever number of renames and
\* writes compete for locks.
THEOREM NeverCircular == Spec => []NoCircularWait
  BY NoCircle, ServiceInvariant, PTL

-----------------------------------------------------------------------------
(* Disk and database agree, writes are recorded against the version they   *)
(* were checked against, acknowledged writes are on disk, and conflict     *)
(* copies are kept.                                                        *)
(*                                                                         *)
(* The argument is about the paths a handler owns: the one path it has     *)
(* locked or, for a rename, both trees.  What a handler in flight owns     *)
(* stays as it is under the steps of the others, unless two handlers in    *)
(* flight own the same path; locks exclude that except for a rename of a   *)
(* directory above the other handler's path, and then the path is tainted. *)

\* An entry of the disk is what a row of the table meta says, and where there
\* is no row it is nothing that the server has written.
Matches(m, e) ==
    /\ m.kind = "file" => e = File(m.data)
    /\ m.kind = "dir" => e.kind = "dir"
    /\ m.kind = "none" /\ e.kind = "file" => e.data \in Strays

\* The paths of a handler's request.
Own(h) == IF req[h].op = "rename" THEN Tree(req[h].path) \cup Tree(req[h].to) ELSE {req[h].path}

\* Stages in which the disk is ahead of the database.
AheadStages == {"readback", "commit", "commitDelete", "setMeta", "renameTx", "revert"}

\* A handler's stage belongs to its operation.
StageInv ==
    \A h \in Handlers :
        /\ pc[h] \in {"latest", "meta", "stat", "decide", "readback", "commit"} => req[h].op \in Writes
        /\ pc[h] \in {"remove", "commitDelete"} => req[h].op = "delete"
        /\ pc[h] \in {"fsRename", "renameTx", "revert"} => req[h].op = "rename"
        /\ pc[h] \in {"fsMkdir", "setMeta"} => req[h].op = "mkdir"

\* What ResolveFileHead has read still is so.  The version of a path that is a
\* directory now is not looked at, but then the write fails.
ResolvedAt(h) ==
    LET p == req[h].path
        r == resolved[h]
    IN p \notin tainted =>
        /\ pc[h] = "meta" =>
            /\ r.version = Cur(p) /\ ~r.exists
            /\ meta[p].kind = "none" /\ ~r.deleted => Cur(p) = 0
        /\ pc[h] = "stat" => r.version = 0 /\ Cur(p) = 0
        /\ pc[h] = "decide" =>
            /\ r.version = Cur(p) \/ meta[p].kind = "dir"
            /\ r.exists /\ r.version # 0 => disk[p] = File(r.data)
        /\ pc[h] \in {"readback", "commit"} => r.version = Cur(p)

\* What a handler makes of the path p: of the content that is recorded, or of a
\* file that nobody has recorded.
MadeOf(r, m, c) ==
    /\ m.kind # "dir"
    /\ m.kind = "file" => c = Mutate(r, m.data)
    /\ m.kind = "none" => \E d \in Strays : c = Mutate(r, d)

\* What a handler has put on disk still is there, and is what was asked for.
WrittenAt(h) ==
    LET r == req[h] IN
    r.path \notin tainted =>
        /\ pc[h] \in {"readback", "commit"} =>
            /\ disk[r.path] = File(buf[h])
            /\ r.op = "write" => buf[h] = r.data
            /\ r.op = "resize" => Len(buf[h]) = r.size
            /\ ~Stale(h) /\ MadeOf(r, meta[r.path], buf[h])
        /\ pc[h] = "setMeta" => disk[r.path].kind = "dir" /\ meta[r.path].kind # "file"
        /\ pc[h] = "commitDelete" => disk[r.path].kind # "file"

\* What a rename has moved on disk matches the rows it is about to move, and
\* there are no rows in their way.
MovedAt(h) ==
    LET old == req[h].path
        new == req[h].to
    IN pc[h] \in Moving =>
        /\ Tree(old) \cap Tree(new) = {}
        /\ \A q \in Tree(new) \ tainted :
            /\ meta[q].kind = "none"
            /\ Arrives(old, new, q) /\ Source(old, new, q) \notin tainted =>
                Matches(meta[Source(old, new, q)], disk[q])
            /\ ~Arrives(old, new, q) => disk[q].kind # "file"
        /\ \A q \in Tree(old) \ tainted :
            /\ disk[q].kind # "file"
            /\ Rebase(old, new, q) \notin Paths => meta[q].kind = "none"

HandlersInv == \A h \in Handlers : ResolvedAt(h) /\ WrittenAt(h) /\ MovedAt(h)

\* The inductive invariant.
AgreeInv ==
    /\ StageInv
    /\ TreeShaped(disk)
    /\ Raced \subseteq tainted
    /\ HandlersInv
    /\ DiskMatchesDatabase

-----------------------------------------------------------------------------
(* Paths *)

\* A path lies under another when it begins with its names.
LEMMA UnderIff ==
    ASSUME NEW p \in Seq(STRING), NEW q \in Seq(STRING)
    PROVE  Under(p, q) <=> Len(p) <= Len(q) /\ \A i \in 1..Len(p) : q[i] = p[i]
<1>1. ASSUME Under(p, q) PROVE Len(p) <= Len(q) /\ \A i \in 1..Len(p) : q[i] = p[i]
  BY <1>1 DEF Under
<1>2. ASSUME Len(p) <= Len(q), \A i \in 1..Len(p) : q[i] = p[i] PROVE Under(p, q)
  <2>1. SubSeq(q, 1, Len(p)) \in Seq(STRING) /\ Len(SubSeq(q, 1, Len(p))) = Len(p)
    BY <1>2
  <2>2. \A i \in 1..Len(p) : SubSeq(q, 1, Len(p))[i] = p[i]
    BY <1>2
  <2>3. SubSeq(q, 1, Len(p)) = p
    BY <2>1, <2>2, SeqEqual
  <2> QED
    BY <1>2, <2>3 DEF Under
<1> QED
  BY <1>1, <1>2

\* Under is an order, and the paths above one path are a chain.
LEMMA UnderOrder ==
    ASSUME NEW a \in Seq(STRING), NEW b \in Seq(STRING), NEW c \in Seq(STRING)
    PROVE  /\ Under(a, a)
           /\ Under(a, b) /\ Under(b, c) => Under(a, c)
           /\ Under(a, c) /\ Under(b, c) => Under(a, b) \/ Under(b, a)
           /\ Under(a, b) /\ Under(b, a) => a = b
<1>1. /\ Under(a, b) <=> Len(a) <= Len(b) /\ \A i \in 1..Len(a) : b[i] = a[i]
      /\ Under(b, a) <=> Len(b) <= Len(a) /\ \A i \in 1..Len(b) : a[i] = b[i]
      /\ Under(b, c) <=> Len(b) <= Len(c) /\ \A i \in 1..Len(b) : c[i] = b[i]
      /\ Under(a, c) <=> Len(a) <= Len(c) /\ \A i \in 1..Len(a) : c[i] = a[i]
      /\ Under(a, a) <=> Len(a) <= Len(a) /\ \A i \in 1..Len(a) : a[i] = a[i]
  BY UnderIff
<1>2. Len(a) \in Nat /\ Len(b) \in Nat /\ Len(c) \in Nat
  OBVIOUS
<1>3. Under(a, a)
  BY <1>1, <1>2
<1>4. ASSUME Under(a, b), Under(b, c) PROVE Under(a, c)
  <2>1. \A i \in 1..Len(a) : i \in 1..Len(b)
    BY <1>1, <1>2, <1>4
  <2> QED
    BY <1>1, <1>2, <1>4, <2>1
<1>5. ASSUME Under(a, c), Under(b, c) PROVE Under(a, b) \/ Under(b, a)
  <2>1. CASE Len(a) <= Len(b)
    <3>1. \A i \in 1..Len(a) : i \in 1..Len(b)
      BY <1>2, <2>1
    <3> QED
      BY <1>1, <1>5, <2>1, <3>1
  <2>2. CASE Len(b) <= Len(a)
    <3>1. \A i \in 1..Len(b) : i \in 1..Len(a)
      BY <1>2, <2>2
    <3> QED
      BY <1>1, <1>5, <2>2, <3>1
  <2> QED
    BY <1>2, <2>1, <2>2
<1>6. ASSUME Under(a, b), Under(b, a) PROVE a = b
  BY <1>1, <1>2, <1>6, SeqEqual
<1> QED
  BY <1>3, <1>4, <1>5, <1>6

\* What a path beneath `new' looks like when it is moved beneath `old'.
LEMMA RebaseNames ==
    ASSUME NEW old \in Seq(STRING), NEW new \in Seq(STRING), NEW q \in Seq(STRING),
           Under(new, q)
    PROVE  LET s == Rebase(new, old, q)
           IN  /\ s \in Seq(STRING)
               /\ Len(s) = Len(old) + (Len(q) - Len(new))
               /\ \A i \in 1..Len(old) : s[i] = old[i]
               /\ \A i \in 1..(Len(q) - Len(new)) : s[Len(old) + i] = q[Len(new) + i]
<1> DEFINE rest == SubSeq(q, Len(new) + 1, Len(q))
           s == old \o rest
<1>1. rest \in Seq(STRING) /\ Len(rest) = Len(q) - Len(new)
  BY SubSeqProperties, LenProperties DEF Under
<1>2. \A i \in 1..Len(rest) : rest[i] = q[Len(new) + i]
  BY <1>1, SubSeqProperties, LenProperties DEF Under
<1> HIDE DEF rest
<1>3. s \in Seq(STRING) /\ Len(s) = Len(old) + Len(rest)
  BY <1>1, ConcatProperties
<1>4. \A i \in 1..Len(old) : s[i] = old[i]
  BY <1>1
<1>5. \A i \in 1..Len(rest) : s[Len(old) + i] = rest[i]
  BY <1>1, <1>3
<1>6. s = Rebase(new, old, q)
  BY DEF Rebase, rest
<1> HIDE DEF s
<1> QED
  BY <1>1, <1>2, <1>3, <1>4, <1>5, <1>6

\* A move keeps the shape of a tree: what lies between `new' and q comes from
\* between `old' and where q comes from.
LEMMA RebaseBetween ==
    ASSUME NEW old \in Seq(STRING), NEW new \in Seq(STRING),
           NEW a \in Seq(STRING), NEW q \in Seq(STRING), Under(new, a), Under(a, q)
    PROVE  LET sa == Rebase(new, old, a)
               sq == Rebase(new, old, q)
           IN  sa \in Seq(STRING) /\ sq \in Seq(STRING) /\ Under(old, sa) /\ Under(sa, sq)
<1>1. Under(new, q)
  BY UnderOrder
<1> DEFINE sa == Rebase(new, old, a)
           sq == Rebase(new, old, q)
<1>2. /\ sa \in Seq(STRING) /\ Len(sa) = Len(old) + (Len(a) - Len(new))
      /\ \A i \in 1..Len(old) : sa[i] = old[i]
      /\ \A i \in 1..(Len(a) - Len(new)) : sa[Len(old) + i] = a[Len(new) + i]
  BY RebaseNames, ZenonT(40)
<1>3. /\ sq \in Seq(STRING) /\ Len(sq) = Len(old) + (Len(q) - Len(new))
      /\ \A i \in 1..Len(old) : sq[i] = old[i]
      /\ \A i \in 1..(Len(q) - Len(new)) : sq[Len(old) + i] = q[Len(new) + i]
  BY <1>1, RebaseNames, ZenonT(40)
<1> HIDE DEF sa, sq
<1>4. Len(new) <= Len(a) /\ Len(a) <= Len(q) /\ \A i \in 1..Len(a) : q[i] = a[i]
  BY UnderIff
<1>5. Len(new) \in Nat /\ Len(a) \in Nat /\ Len(q) \in Nat /\ Len(old) \in Nat
  OBVIOUS
<1>6. Under(old, sa)
  BY <1>2, <1>4, <1>5, UnderIff, SMTT(20)
<1>7. ASSUME NEW i \in 1..Len(sa) PROVE sq[i] = sa[i]
  <2>1. CASE i <= Len(old)
    BY <1>2, <1>3, <1>5, <2>1
  <2>2. CASE i > Len(old)
    <3> DEFINE j == i - Len(old)
    <3>1. j \in 1..(Len(a) - Len(new)) /\ j \in 1..(Len(q) - Len(new)) /\ i = Len(old) + j
      BY <1>2, <1>4, <1>5, <2>2
    <3>2. Len(new) + j \in 1..Len(a)
      BY <1>4, <1>5, <3>1
    <3> HIDE DEF j
    <3> QED
      BY <1>2, <1>3, <1>4, <3>1, <3>2
  <2> QED
    BY <1>2, <1>5, <2>1, <2>2
<1>8. Under(sa, sq)
  BY <1>2, <1>3, <1>4, <1>5, <1>7, UnderIff, SMTT(20)
<1> QED
  BY <1>2, <1>3, <1>6, <1>8 DEF sa, sq

\* The trees of the paths: transitive, and two trees that meet are nested.
LEMMA TreeFacts ==
    ASSUME NEW a \in Paths, NEW b \in Paths, NEW q \in Paths
    PROVE  /\ a \in Tree(a)
           /\ b \in Tree(a) /\ q \in Tree(b) => q \in Tree(a)
           /\ q \in Tree(a) /\ q \in Tree(b) => b \in Tree(a) \/ a \in Tree(b)
           /\ b \in Tree(a) /\ a \in Tree(b) => a = b
           /\ a \in Ancestors(b) <=> a # b /\ b \in Tree(a)
<1>1. a \in Seq(STRING) /\ b \in Seq(STRING) /\ q \in Seq(STRING)
  BY PathsAssumption
<1> QED
  BY <1>1, UnderOrder DEF Tree, Ancestors

\* A directory between `new' and a path that a rename brings arrives as well.
LEMMA ArriveBetween ==
    ASSUME NEW old \in Paths, NEW new \in Paths, NEW a \in Tree(new), NEW q \in Tree(a),
           Arrives(old, new, q)
    PROVE  /\ Arrives(old, new, a)
           /\ Source(old, new, q) \in Tree(Source(old, new, a))
           /\ a # q => Source(old, new, a) # Source(old, new, q)
<1> DEFINE sa == Source(old, new, a)
           sq == Source(old, new, q)
<1>1. old \in Seq(STRING) /\ new \in Seq(STRING) /\ a \in Seq(STRING) /\ q \in Seq(STRING)
  BY PathsAssumption DEF Tree
<1>2. Under(new, a) /\ Under(a, q) /\ Under(new, q)
  BY <1>1, UnderOrder DEF Tree
<1>3. sa \in Seq(STRING) /\ Under(old, sa) /\ Under(sa, sq)
  BY <1>1, <1>2, RebaseBetween DEF Source
<1>4. sq \in Paths
  BY DEF Arrives, Tree
<1>5. Rebase(old, new, sa) = a /\ Rebase(old, new, sq) = q
  BY <1>1, <1>2, RebaseBack DEF Source
<1> HIDE DEF sa, sq
<1>6. Len(old) # 0
  BY <1>1, PathsAssumption, EmptySeq
<1>7. Len(sa) \in 1..Len(sq) /\ SubSeq(sq, 1, Len(sa)) = sa
  BY <1>1, <1>3, <1>6 DEF Under
<1>8. sa \in Paths
  BY <1>4, <1>7, PathsClosed
<1> QED
  BY <1>3, <1>4, <1>5, <1>8 DEF Arrives, Tree, sa, sq

-----------------------------------------------------------------------------
(* The shape of the tree on disk *)

\* MkdirAll turns nothing but missing entries above a path into directories.
LEMMA ParentsShaped ==
    ASSUME disk \in [Paths -> Entry], TreeShaped(disk), NEW p \in Paths, CanMkdirAll(p)
    PROVE  /\ TreeShaped(WithParents(p))
           /\ \A q \in Ancestors(p) : WithParents(p)[q] = Dir
           /\ \A q \in Paths : \/ WithParents(p)[q] = disk[q]
                               \/ disk[q].kind # "file" /\ WithParents(p)[q] = Dir
           /\ WithParents(p)[p] = disk[p]
<1> DEFINE d == WithParents(p)
<1>1. \A q \in Paths : d[q] = IF q \in Ancestors(p) THEN Dir ELSE disk[q]
  BY DEF WithParents
<1>2. Ancestors(p) \subseteq Paths /\ p \notin Ancestors(p)
  BY DEF Ancestors
<1>3. \A q \in Ancestors(p) : d[q] = Dir /\ disk[q].kind # "file"
  BY <1>1, <1>2 DEF CanMkdirAll
<1> HIDE DEF d
<1>4. ASSUME NEW a \in Paths, NEW q \in Paths, Under(a, q), a # q, d[q].kind # "absent"
      PROVE  d[a].kind = "dir"
  <2>1. CASE a \in Ancestors(p)
    BY <1>3, <2>1 DEF Dir
  <2>2. CASE a \notin Ancestors(p)
    <3>1. q \notin Ancestors(p)
      <4> SUFFICES ASSUME q \in Ancestors(p) PROVE FALSE
        OBVIOUS
      <4>1. q \in Tree(a) /\ p \in Tree(q) /\ a \in Paths /\ q # p
        BY <1>4 DEF Ancestors, Tree
      <4>2. p \in Tree(a)
        BY <4>1, TreeFacts
      <4>3. a # p
        BY <1>4, <4>1, TreeFacts
      <4> QED
        BY <2>2, <4>2, <4>3 DEF Ancestors, Tree
    <3> QED
      BY <1>1, <1>4, <2>2, <3>1 DEF TreeShaped
  <2> QED
    BY <2>1, <2>2
<1>5. TreeShaped(d)
  BY <1>4 DEF TreeShaped
<1> QED
  BY <1>1, <1>2, <1>3, <1>5 DEF d

\* An entry may be put below directories if it is one, or if nothing is below it.
LEMMA PutShaped ==
    ASSUME NEW d \in [Paths -> Entry], TreeShaped(d), NEW p \in Paths, NEW e \in Entry,
           e.kind = "absent" \/ \A a \in Ancestors(p) : d[a].kind = "dir",
           e.kind = "dir" \/ \A q \in Beneath(p) : d[q].kind = "absent"
    PROVE  TreeShaped([d EXCEPT ![p] = e])
<1> DEFINE f == [d EXCEPT ![p] = e]
<1>1. \A q \in Paths : f[q] = IF q = p THEN e ELSE d[q]
  OBVIOUS
<1> HIDE DEF f
<1>2. ASSUME NEW a \in Paths, NEW q \in Paths, Under(a, q), a # q, f[q].kind # "absent"
      PROVE  f[a].kind = "dir"
  <2>1. CASE q = p
    BY <1>1, <1>2, <2>1 DEF Ancestors
  <2>2. CASE q # p /\ a = p
    BY <1>1, <1>2, <2>2 DEF Beneath, Tree
  <2>3. CASE q # p /\ a # p
    BY <1>1, <1>2, <2>3 DEF TreeShaped
  <2> QED
    BY <2>1, <2>2, <2>3
<1> QED
  BY <1>2 DEF TreeShaped, f

\* Nothing is below what is no directory.
LEMMA NothingBelow ==
    ASSUME TreeShaped(disk), NEW p \in Paths, disk[p].kind # "dir"
    PROVE  \A q \in Beneath(p) : disk[q].kind = "absent"
  BY DEF TreeShaped, Beneath, Tree

\* A rename that the operating system allows moves a tree to where nothing is.
LEMMA RenameFacts ==
    ASSUME disk \in [Paths -> Entry], TreeShaped(disk),
           NEW old \in Paths, NEW new \in Paths, CanRename(old, new)
    PROVE  /\ CanMkdirAll(new)
           /\ Tree(old) \cap Tree(new) = {}
           /\ \A q \in Tree(old) : WithParents(new)[q] = disk[q]
           /\ \A q \in Tree(new) : WithParents(new)[q] = disk[q] /\ disk[q].kind # "dir"
           /\ \A q \in Beneath(new) : disk[q].kind = "absent"
           /\ \A q \in Tree(old) : Rebase(old, new, q) \notin Paths => disk[q] = Absent
<1> DEFINE d == WithParents(new)
<1>1. CanMkdirAll(new) /\ d[old].kind # "absent" /\ d[new].kind # "dir" /\ ~Under(old, new)
  BY DEF CanRename
<1>2. TreeShaped(d) /\ d[new] = disk[new] /\ \A q \in Paths \ Ancestors(new) : d[q] = disk[q]
  BY <1>1, ParentsShaped DEF WithParents
<1>3. ASSUME NEW q \in Paths, q \in Tree(old) \/ q \in Tree(new) PROVE d[q] = disk[q]
  <2> SUFFICES ASSUME q \in Ancestors(new) PROVE FALSE
    BY <1>2
  <2>1. new \in Tree(q) /\ new # q
    BY DEF Ancestors, Tree
  <2>2. CASE q \in Tree(old)
    <3>1. new \in Tree(old)
      BY <2>1, <2>2, TreeFacts
    <3> QED
      BY <1>1, <3>1 DEF Tree
  <2>3. CASE q \in Tree(new)
    BY <2>1, <2>3, TreeFacts
  <2> QED
    BY <1>3, <2>2, <2>3
<1>4. \A q \in Beneath(new) : disk[q].kind = "absent"
  BY <1>1, <1>2, NothingBelow
<1>5. Tree(old) \cap Tree(new) = {}
  <2> SUFFICES ASSUME NEW q \in Tree(old), q \in Tree(new) PROVE FALSE
    OBVIOUS
  <2>1. q \in Paths
    BY DEF Tree
  <2>2. new \in Tree(old) \/ old \in Tree(new)
    BY <2>1, TreeFacts
  <2>3. old \in Tree(new)
    BY <1>1, <2>2 DEF Tree
  <2>4. old # new
    BY <1>1, TreeFacts DEF Tree
  <2>5. disk[old].kind = "absent"
    BY <1>4, <2>3, <2>4 DEF Beneath
  <2>6. old \in Tree(old)
    BY TreeFacts
  <2>7. d[old] = disk[old]
    BY <1>3, <2>6
  <2> QED
    BY <1>1, <2>5, <2>7
<1>6. \A q \in Tree(new) : disk[q].kind # "dir"
  BY <1>1, <1>2, <1>4 DEF Beneath
<1>7. \A q \in Tree(old) : Rebase(old, new, q) \notin Paths => disk[q] = Absent
  <2>1. \A q \in Tree(old) : d[q] # Absent => Rebase(old, new, q) \in Paths
    BY DEF CanRename
  <2>2. Tree(old) \subseteq Paths
    BY DEF Tree
  <2> QED
    BY <1>3, <2>1, <2>2
<1>8. Tree(old) \subseteq Paths /\ Tree(new) \subseteq Paths
  BY DEF Tree
<1> QED
  BY <1>1, <1>3, <1>4, <1>5, <1>6, <1>7, <1>8

\* It keeps the tree a tree.
LEMMA RenameShaped ==
    ASSUME disk \in [Paths -> Entry], TreeShaped(disk),
           NEW old \in Paths, NEW new \in Paths, CanRename(old, new), DiskRename(old, new)
    PROVE  TreeShaped(disk')
<1> DEFINE d == WithParents(new)
<1>1. /\ CanMkdirAll(new) /\ Tree(old) \cap Tree(new) = {}
      /\ \A q \in Beneath(new) : disk[q].kind = "absent"
      /\ \A q \in Tree(new) : d[q] = disk[q]
  BY RenameFacts
<1>2. TreeShaped(d) /\ \A q \in Ancestors(new) : d[q] = Dir
  BY <1>1, ParentsShaped
<1>3. \A q \in Paths : disk'[q] = IF q \in Tree(old) THEN Absent
                                  ELSE IF Arrives(old, new, q) THEN d[Source(old, new, q)]
                                  ELSE d[q]
  BY DEF DiskRename
<1> HIDE DEF d
<1>4. ASSUME NEW a \in Paths, NEW q \in Paths, q \in Tree(a), a # q, disk'[q].kind # "absent"
      PROVE  disk'[a].kind = "dir"
  <2>1. q \notin Tree(old)
    BY <1>3, <1>4 DEF Absent
  <2>2. a \notin Tree(old)
    BY <1>4, <2>1, TreeFacts
  <2>3. CASE Arrives(old, new, q)
    <3>1. q \in Tree(new)
      BY <2>3 DEF Arrives
    <3>2. CASE a \in Tree(new)
      <4>1. /\ Arrives(old, new, a)
            /\ Source(old, new, q) \in Tree(Source(old, new, a))
            /\ Source(old, new, a) # Source(old, new, q)
        BY <1>4, <2>3, <3>2, ArriveBetween
      <4>2. disk'[q] = d[Source(old, new, q)] /\ disk'[a] = d[Source(old, new, a)]
        BY <1>3, <2>1, <2>2, <2>3, <4>1
      <4>3. Source(old, new, a) \in Paths /\ Source(old, new, q) \in Paths
        BY <2>3, <4>1 DEF Arrives, Tree
      <4> QED
        BY <1>2, <1>4, <4>1, <4>2, <4>3 DEF TreeShaped, Tree
    <3>3. CASE a \notin Tree(new)
      <4>1. new \in Tree(a)
        BY <1>4, <3>1, <3>3, TreeFacts
      <4>2. a # new
        BY <3>3, TreeFacts
      <4>3. a \in Ancestors(new)
        BY <4>1, <4>2, TreeFacts
      <4>4. ~Arrives(old, new, a)
        BY <3>3 DEF Arrives
      <4> QED
        BY <1>2, <1>3, <2>2, <4>3, <4>4 DEF Dir
    <3> QED
      BY <3>2, <3>3
  <2>4. CASE ~Arrives(old, new, q)
    <3>1. disk'[q] = d[q]
      BY <1>3, <2>1, <2>4
    <3>2. q \notin Beneath(new)
      BY <1>1, <1>4, <3>1 DEF Beneath
    <3>3. a \notin Tree(new)
      <4> SUFFICES ASSUME a \in Tree(new) PROVE FALSE
        OBVIOUS
      <4>1. q \in Tree(new)
        BY <1>4, TreeFacts
      <4>2. q = new
        BY <3>2, <4>1 DEF Beneath
      <4> QED
        BY <1>4, <4>2, TreeFacts
    <3>4. disk'[a] = d[a]
      BY <1>3, <2>2, <3>3 DEF Arrives
    <3> QED
      BY <1>2, <1>4, <3>1, <3>4 DEF TreeShaped, Tree
  <2> QED
    BY <2>3, <2>4
<1> QED
  BY <1>4 DEF TreeShaped, Tree

-----------------------------------------------------------------------------
(* Isolation *)

\* What a handler owns are paths, its own path among them, and it is ahead of
\* the database on all of them or on none.
LEMMA OwnFacts ==
    ASSUME HandlerTypeOK, StageInv, NEW h \in Handlers
    PROVE  /\ Own(h) \subseteq Paths /\ req[h].path \in Own(h)
           /\ Ahead(h) = IF pc[h] \in AheadStages THEN Own(h) ELSE {}
           /\ pc[h] \in InFlight /\ req[h].op = "rename" => pc[h] \in Moving
           /\ pc[h] \in AheadStages => pc[h] \in InFlight
<1>1. req[h].path \in Paths /\ req[h].to \in Paths
  BY RequestFields DEF HandlerTypeOK
<1>2. Own(h) \subseteq Paths /\ req[h].path \in Own(h)
  BY <1>1, TreeFacts DEF Own, Tree
<1>3. pc[h] \in InFlight /\ req[h].op = "rename" => pc[h] \in Moving
  BY DEF StageInv, InFlight, Moving, Writes
<1>4. pc[h] \in AheadStages => pc[h] \in InFlight
  BY DEF AheadStages, InFlight
<1>5. Ahead(h) = IF pc[h] \in AheadStages THEN Own(h) ELSE {}
  <2>1. CASE pc[h] \in {"readback", "commit", "commitDelete", "setMeta"}
    <3>1. req[h].op # "rename"
      BY <2>1 DEF StageInv, Writes
    <3> QED
      BY <2>1, <3>1 DEF Ahead, Own, AheadStages, Moving
  <2>2. CASE pc[h] \in Moving
    <3>1. req[h].op = "rename"
      BY <2>2 DEF StageInv, Moving
    <3> QED
      BY <2>2, <3>1 DEF Ahead, Own, AheadStages, Moving
  <2>3. CASE pc[h] \notin AheadStages
    BY <2>3 DEF Ahead, AheadStages, Moving
  <2> QED
    BY <2>1, <2>2, <2>3 DEF AheadStages, Moving
<1> QED
  BY <1>2, <1>3, <1>4, <1>5

\* The same, of all handlers.
AheadOfOwn == \A h \in Handlers : pc[h] \in AheadStages => Ahead(h) = Own(h)

\* It holds whenever the stages belong to the operations.
LEMMA AheadIsOwn == HandlerTypeOK /\ StageInv => AheadOfOwn
  BY OwnFacts DEF AheadOfOwn

\* A rename races with a handler in flight that has locked one of its paths.
LEMMA RacedBy ==
    ASSUME HandlerTypeOK, StageInv, NEW g \in Handlers, NEW h \in Handlers, g # h,
           pc[g] \in Moving, pc[h] \in InFlight, LockSet(req[h]) \cap Own(g) # {}
    PROVE  Own(g) \subseteq Raced
<1>1. Own(g) = Tree(req[g].path) \cup Tree(req[g].to)
  BY DEF StageInv, Moving, Own
<1> QED
  BY <1>1 DEF Raced

\* Two handlers in flight own no path in common, other than one on which a
\* rename races.
Isolated ==
    \A g, h \in Handlers :
        g # h /\ pc[g] \in InFlight /\ pc[h] \in InFlight => Own(g) \cap Own(h) \subseteq Raced

\* Locks and the history variable see to that.
LEMMA Isolation == HandlerTypeOK /\ LockInv /\ StageInv => Isolated
<1> SUFFICES ASSUME HandlerTypeOK, LockInv, StageInv,
                    NEW g \in Handlers, NEW h \in Handlers, g # h,
                    pc[g] \in InFlight, pc[h] \in InFlight,
                    NEW q \in Own(g), q \in Own(h)
             PROVE  q \in Raced
  BY DEF Isolated
<1>1. LockSet(req[g]) \cap LockSet(req[h]) = {}
  <2>1. pc[g] \in Work /\ pc[h] \in Work
    BY DEF InFlight, Work, Stages
  <2> QED
    BY <2>1 DEF LockInv, Held
<1>2. /\ req[g].path \in Paths /\ req[g].to \in Paths
      /\ req[h].path \in Paths /\ req[h].to \in Paths /\ q \in Paths
  BY RequestFields, OwnFacts DEF HandlerTypeOK
<1>3. CASE req[g].op # "rename" /\ req[h].op # "rename"
  BY <1>1, <1>3 DEF Own, LockSet
<1>4. CASE req[g].op = "rename" /\ req[h].op # "rename"
  <2>1. pc[g] \in Moving
    BY <1>4, OwnFacts
  <2>2. q \in LockSet(req[h])
    BY <1>4 DEF Own, LockSet
  <2> QED
    BY <2>1, <2>2, RacedBy
<1>5. CASE req[g].op # "rename" /\ req[h].op = "rename"
  <2>1. pc[h] \in Moving
    BY <1>5, OwnFacts
  <2>2. q \in LockSet(req[g])
    BY <1>5 DEF Own, LockSet
  <2> QED
    BY <2>1, <2>2, RacedBy
<1>6. CASE req[g].op = "rename" /\ req[h].op = "rename"
  <2>1. pc[g] \in Moving /\ pc[h] \in Moving
    BY <1>6, OwnFacts
  <2>2. PICK a \in LockSet(req[g]) : q \in Tree(a)
    BY <1>6 DEF Own, LockSet
  <2>3. PICK b \in LockSet(req[h]) : q \in Tree(b)
    BY <1>6 DEF Own, LockSet
  <2>4. a \in Paths /\ b \in Paths /\ Tree(a) \subseteq Own(g) /\ Tree(b) \subseteq Own(h)
    BY <1>2, <1>6 DEF Own, LockSet
  <2>5. b \in Tree(a) \/ a \in Tree(b)
    BY <1>2, <2>2, <2>3, <2>4, TreeFacts
  <2>6. Own(g) \subseteq Raced \/ Own(h) \subseteq Raced
    BY <2>1, <2>4, <2>5, RacedBy
  <2> QED
    BY <2>6
<1> QED
  BY <1>3, <1>4, <1>5, <1>6

\* A step leaves the path q alone: its rows stay, and so does its entry, except
\* that MkdirAll may have made it a directory.
Untouched(q) ==
    /\ meta'[q] = meta[q] /\ head'[q] = head[q] /\ ver'[q] = ver[q]
    /\ disk'[q] # disk[q] => disk[q].kind # "file" /\ disk'[q] = Dir

\* Handler g takes a step to stage s, which touches only what it owns, and that
\* only if it is in flight before or after.
Moves(g, s) ==
    /\ pc' = [pc EXCEPT ![g] = s] /\ req' = req
    /\ \A h \in Handlers \ {g} : resolved'[h] = resolved[h] /\ buf'[h] = buf[h]
    /\ \A q \in Paths : Untouched(q) \/ (q \in Own(g) /\ (pc[g] \in InFlight \/ s \in InFlight))

\* The facts about both states that every step proof starts from.
BothStates ==
    /\ HandlerTypeOK /\ LockInv /\ HandlerTypeOK' /\ LockInv'
    /\ AgreeInv /\ StageInv'
    /\ tainted \subseteq tainted' /\ Raced' \subseteq tainted'

\* No step of g touches an untainted path of another handler in flight.
LEMMA OthersUntouched ==
    ASSUME BothStates, NEW g \in Handlers, NEW s \in Stages, Moves(g, s),
           NEW h \in Handlers, h # g, pc[h] \in InFlight, NEW q \in Own(h), q \notin tainted'
    PROVE  Untouched(q)
<1> SUFFICES ASSUME q \in Own(g), pc[g] \in InFlight \/ s \in InFlight PROVE FALSE
  BY OwnFacts DEF Moves, BothStates, AgreeInv
<1>1. CASE pc[g] \in InFlight
  <2>1. Isolated
    BY Isolation DEF BothStates, AgreeInv
  <2>2. q \in Raced
    BY <1>1, <2>1 DEF Isolated
  <2> QED
    BY <2>2 DEF BothStates, AgreeInv
<1>2. CASE s \in InFlight
  <2>1. HandlerTypeOK' /\ LockInv' /\ StageInv' => Isolated'
    BY Isolation, PTL
  <2>2. Isolated'
    BY <2>1 DEF BothStates
  <2>3. pc'[g] = s /\ pc'[h] = pc[h] /\ Own(g)' = Own(g) /\ Own(h)' = Own(h)
    BY DEF Moves, BothStates, HandlerTypeOK, Own
  <2>4. q \in Raced'
    BY <1>2, <2>2, <2>3 DEF Isolated
  <2> QED
    BY <2>4 DEF BothStates
<1> QED
  BY <1>1, <1>2

\* The current version depends on the rows of the path only.
LEMMA UntouchedCur ==
    ASSUME NEW q \in Paths, Untouched(q)
    PROVE  Cur(q)' = Cur(q)
  BY DEF Untouched, Cur

\* What matched an entry matches it still.
LEMMA UntouchedMatches ==
    ASSUME NEW q, NEW m, Untouched(q), Matches(m, disk[q])
    PROVE  Matches(m, disk'[q])
  BY DEF Untouched, Matches, File, Dir

\* What a handler knows stays true under the steps of the others.
LEMMA OthersKeep ==
    ASSUME BothStates, NEW g \in Handlers, NEW s \in Stages, Moves(g, s),
           NEW h \in Handlers, h # g
    PROVE  ResolvedAt(h)' /\ WrittenAt(h)' /\ MovedAt(h)'
<1> DEFINE p == req[h].path
<1>1. /\ pc'[h] = pc[h] /\ req'[h] = req[h]
      /\ resolved'[h] = resolved[h] /\ buf'[h] = buf[h]
  BY DEF Moves, BothStates, HandlerTypeOK
<1>2. p \in Own(h) /\ p \in Paths
  BY OwnFacts DEF BothStates, AgreeInv
<1>3. tainted \subseteq tainted'
  BY DEF BothStates
<1>4. ResolvedAt(h) /\ WrittenAt(h) /\ MovedAt(h)
  BY DEF BothStates, AgreeInv, HandlersInv
<1>5. ASSUME pc[h] \in InFlight, p \notin tainted'
      PROVE  /\ Cur(p)' = Cur(p) /\ meta'[p] = meta[p]
             /\ disk[p].kind = "file" => disk'[p] = disk[p]
             /\ disk[p].kind = "dir" => disk'[p].kind = "dir"
  <2>1. Untouched(p)
    BY <1>2, <1>5, OthersUntouched
  <2>2. \A q \in Paths : Untouched(q) => Cur(q)' = Cur(q)
    BY UntouchedCur
  <2>3. Cur(p)' = Cur(p)
    BY <1>1, <1>2, <2>1, <2>2
  <2> QED
    BY <1>1, <2>1, <2>3 DEF Untouched, Dir
<1>6. ResolvedAt(h)'
  <2> SUFFICES ASSUME p \notin tainted', pc[h] \in {"meta", "stat", "decide", "readback", "commit"}
               PROVE  ResolvedAt(h)'
    BY <1>1 DEF ResolvedAt
  <2>1. pc[h] \in InFlight
    BY DEF InFlight
  <2>2. \A c : disk[p] = File(c) => disk'[p] = File(c)
    BY <1>5, <2>1 DEF File
  <2> QED
    BY <1>1, <1>3, <1>4, <1>5, <2>1, <2>2 DEF ResolvedAt
<1>7. WrittenAt(h)'
  <2> SUFFICES ASSUME p \notin tainted', pc[h] \in {"readback", "commit", "setMeta", "commitDelete"}
               PROVE  WrittenAt(h)'
    BY <1>1 DEF WrittenAt
  <2>1. pc[h] \in InFlight
    BY DEF InFlight
  <2>2. \A c : disk[p] = File(c) => disk'[p] = File(c)
    BY <1>5, <2>1 DEF File
  <2>3. Stale(h)' = Stale(h)
    BY <1>1 DEF Stale
  <2>4. disk[p].kind # "file" => disk'[p].kind # "file"
    BY <1>2, <2>1, OthersUntouched DEF Untouched, Dir
  <2> QED
    BY <1>1, <1>3, <1>4, <1>5, <2>1, <2>2, <2>3, <2>4 DEF WrittenAt
<1>8. MovedAt(h)'
  <2> SUFFICES ASSUME pc[h] \in Moving PROVE MovedAt(h)'
    BY <1>1 DEF MovedAt
  <2> DEFINE old == req[h].path
             new == req[h].to
  <2>1. pc[h] \in InFlight
    BY DEF InFlight, Moving
  <2>2. Own(h) = Tree(old) \cup Tree(new)
    BY DEF Own, BothStates, AgreeInv, StageInv, Moving
  <2>3. ASSUME NEW q \in Tree(old) \cup Tree(new), q \notin tainted' PROVE Untouched(q)
    BY <2>1, <2>2, <2>3, OthersUntouched
  <2>4. ASSUME NEW q \in Tree(new) \ tainted' PROVE meta'[q].kind = "none"
    BY <1>3, <1>4, <2>3 DEF MovedAt, Untouched
  <2>5. ASSUME NEW q \in Tree(new) \ tainted',
               Arrives(old, new, q), Source(old, new, q) \notin tainted'
        PROVE  Matches(meta'[Source(old, new, q)], disk'[q])
    <3>1. Source(old, new, q) \in Tree(old)
      BY <2>5 DEF Arrives
    <3>2. Untouched(q) /\ meta'[Source(old, new, q)] = meta[Source(old, new, q)]
      BY <2>3, <2>5, <3>1 DEF Untouched
    <3>3. Matches(meta[Source(old, new, q)], disk[q])
      BY <1>3, <1>4, <2>5 DEF MovedAt
    <3> QED
      BY <3>2, <3>3, UntouchedMatches
  <2>6. ASSUME NEW q \in Tree(old) \ tainted', Rebase(old, new, q) \notin Paths
        PROVE  meta'[q].kind = "none"
    BY <1>3, <1>4, <2>3, <2>6 DEF MovedAt, Untouched
  <2>7. Tree(old) \cap Tree(new) = {}
    BY <1>4 DEF MovedAt
  <2>8. ASSUME NEW q \in (Tree(old) \cup Tree(new)) \ tainted', disk[q].kind # "file"
        PROVE  disk'[q].kind # "file"
    BY <2>3, <2>8 DEF Untouched, Dir
  <2>9. /\ \A q \in Tree(new) \ tainted' : ~Arrives(old, new, q) => disk'[q].kind # "file"
        /\ \A q \in Tree(old) \ tainted' : disk'[q].kind # "file"
    BY <1>3, <1>4, <2>8 DEF MovedAt
  <2> QED
    BY <1>1, <2>4, <2>5, <2>6, <2>7, <2>9 DEF MovedAt
<1> QED
  BY <1>6, <1>7, <1>8

\* A step keeps the invariant if it does so for the handler that takes it and
\* for what this handler owns.
LEMMA StepKeepsInv ==
    ASSUME BothStates, NEW g \in Handlers, NEW s \in Stages, Moves(g, s),
           TreeShaped(disk'),
           ResolvedAt(g)', WrittenAt(g)', MovedAt(g)',
           \A q \in Own(g) :
              q \in tainted' \/ s \in AheadStages \/ Matches(meta'[q], disk'[q])
                \/ (Untouched(q) /\ pc[g] \notin AheadStages)
    PROVE  AgreeInv'
<1>1. HandlersInv'
  BY OthersKeep DEF HandlersInv
<1>2. DiskMatchesDatabase'
  <2> SUFFICES ASSUME NEW q \in Paths, q \notin tainted', \A h \in Handlers : q \notin Ahead(h)'
               PROVE  Matches(meta'[q], disk'[q])
    BY DEF DiskMatchesDatabase, Agrees, Explained, Matches
  <2>1. HandlerTypeOK /\ StageInv /\ tainted \subseteq tainted'
    BY DEF BothStates, AgreeInv
  <2>2. pc'[g] = s /\ Own(g)' = Own(g)
    BY <2>1 DEF Moves, HandlerTypeOK, Own
  <2>3. ASSUME NEW h \in Handlers, h # g PROVE Ahead(h)' = Ahead(h)
    BY <2>1, <2>3 DEF Moves, HandlerTypeOK, Ahead
  <2>4. q \in tainted \/ Matches(meta[q], disk[q]) \/ \E h \in Handlers : q \in Ahead(h)
    BY DEF BothStates, AgreeInv, DiskMatchesDatabase, Agrees, Explained, Matches
  <2>5. Matches(meta[q], disk[q]) \/ q \in Ahead(g)
    BY <2>1, <2>3, <2>4
  <2>6. ASSUME Matches(meta[q], disk[q]), Untouched(q) PROVE Matches(meta'[q], disk'[q])
    <3>1. meta'[q] = meta[q]
      BY <2>6 DEF Untouched
    <3> QED
      BY <2>6, <3>1, UntouchedMatches
  <2>7. CASE q \notin Own(g)
    <3>1. Untouched(q)
      BY <2>7 DEF Moves
    <3>2. q \notin Ahead(g)
      BY <2>1, <2>7, OwnFacts
    <3> QED
      BY <2>5, <2>6, <3>1, <3>2
  <2>8. CASE q \in Own(g)
    <3>1. s \notin AheadStages
      <4> SUFFICES ASSUME s \in AheadStages PROVE FALSE
        OBVIOUS
      <4>1. HandlerTypeOK' /\ StageInv'
        BY DEF BothStates
      <4>2. Ahead(g)' = Own(g)'
        <5>1. HandlerTypeOK' /\ StageInv' => AheadOfOwn'
          BY AheadIsOwn, PTL
        <5> QED
          BY <2>2, <4>1, <5>1 DEF AheadOfOwn
      <4> QED
        BY <2>2, <2>8, <4>2
    <3>2. CASE Untouched(q) /\ pc[g] \notin AheadStages
      <4>1. q \notin Ahead(g)
        BY <2>1, <3>2, OwnFacts
      <4> QED
        BY <2>5, <2>6, <3>2, <4>1
    <3> QED
      BY <2>8, <3>1, <3>2
  <2> QED
    BY <2>7, <2>8
<1> QED
  BY <1>1, <1>2 DEF AgreeInv, BothStates

-----------------------------------------------------------------------------
(* All steps *)

\* Every step leaves the handlers in stages of their operations.
LEMMA NextStageInv ==
    ASSUME HandlerTypeOK, StageInv, [Next]_vars
    PROVE  StageInv'
<1> USE DEF StageInv
<1>1. CASE UNCHANGED <<pc, req>>
  BY <1>1
<1>2. ASSUME NEW h \in Handlers, NEW r \in Requests, Begin(h, r) PROVE StageInv'
  BY <1>2 DEF Begin, Goto, Respond, HandlerTypeOK
<1>3. ASSUME NEW h \in Handlers, Acquire(h) PROVE StageInv'
  <2>1. req' = req /\ req[h].op \in Ops
    BY <1>3, RequestFields DEF Acquire, HandlerTypeOK
  <2>2. pc' = [pc EXCEPT ![h] = FirstStage(req[h].op)] \/ pc' = pc
    BY <1>3 DEF Acquire, Goto
  <2> QED
    BY <2>1, <2>2 DEF FirstStage, Ops, Writes, HandlerTypeOK
<1>4. ASSUME NEW h \in Handlers, Write(h) PROVE StageInv'
  BY <1>4, ZenonT(40) DEF Write, ResolveLatest, ResolveMeta, ResolveStat, Conflict, SkipWrite, WriteDisk,
              ReadBack, Commit, Goto, Respond, HandlerTypeOK
<1>5. ASSUME NEW h \in Handlers, Delete(h) \/ Rename(h) \/ Mkdir(h) PROVE StageInv'
  BY <1>5 DEF Delete, RemoveDisk, CommitDelete, Rename, RenameDisk, RenameRows, RenameRowsFails,
              Revert, Mkdir, MkdirDisk, RecordDir, Goto, Respond, HandlerTypeOK
<1>6. ASSUME NEW h \in Handlers, Finish(h) PROVE StageInv'
  BY <1>6 DEF Finish, Goto, HandlerTypeOK
<1>7. ASSUME NEW h \in Handlers, Failure(h) PROVE StageInv'
  BY <1>7 DEF Failure, StepFails, WriteDiskFails, CommitFails, RenameTxFails, Goto, Respond,
              HandlerTypeOK
<1>8. CASE Crash
  BY <1>8 DEF Crash
<1>9. (\E p \in Paths : DropOldestCopy(p)) \/ Quiescent \/ UNCHANGED vars => UNCHANGED <<pc, req>>
  BY DEF DropOldestCopy, Quiescent, vars, handlerVars
<1> QED
  BY <1>1, <1>2, <1>3, <1>4, <1>5, <1>6, <1>7, <1>8, <1>9 DEF Next, Step

\* The history variable grows, and takes in every race.
LEMMA NextTaints ==
    ASSUME [Next]_vars, Raced \subseteq tainted
    PROVE  tainted \subseteq tainted' /\ Raced' \subseteq tainted'
<1>1. ASSUME NEW S, Taint(S) PROVE tainted \subseteq tainted' /\ Raced' \subseteq tainted'
  BY <1>1 DEF Taint
<1>2. CASE UNCHANGED vars
  BY <1>2 DEF vars, handlerVars, Raced
<1>3. ASSUME NEW h \in Handlers, (\E r \in Requests : Begin(h, r)) \/ Acquire(h) \/ Finish(h)
      PROVE  \E S : Taint(S)
  BY <1>3 DEF Begin, Acquire, Finish
<1>4. ASSUME NEW h \in Handlers, Write(h) PROVE \E S : Taint(S)
  BY <1>4 DEF Write, ResolveLatest, ResolveMeta, ResolveStat, Conflict, SkipWrite, WriteDisk,
              ReadBack, Commit
<1>5. ASSUME NEW h \in Handlers, Delete(h) \/ Rename(h) \/ Mkdir(h) PROVE \E S : Taint(S)
  BY <1>5 DEF Delete, RemoveDisk, CommitDelete, Rename, RenameDisk, RenameRows, RenameRowsFails,
              Revert, Mkdir, MkdirDisk, RecordDir
<1>6. ASSUME NEW h \in Handlers, Failure(h) PROVE \E S : Taint(S)
  BY <1>6 DEF Failure, StepFails, WriteDiskFails, CommitFails, RenameTxFails
<1>7. Crash \/ (\E p \in Paths : DropOldestCopy(p)) => \E S : Taint(S)
  BY DEF Crash, DropOldestCopy
<1> QED
  BY <1>1, <1>2, <1>3, <1>4, <1>5, <1>6, <1>7 DEF Next, Step, Quiescent

\* A step that changes neither tables nor tree keeps the invariant, if the
\* handlers it moves do not rely on them afterwards.
LEMMA QuietStep ==
    ASSUME BothStates, UNCHANGED <<meta, head, ver, disk>>,
           \A h \in Handlers :
              \/ pc'[h] \notin InFlight /\ Ahead(h) \subseteq tainted'
              \/ /\ pc'[h] = pc[h] /\ req'[h] = req[h]
                 /\ resolved'[h] = resolved[h] /\ buf'[h] = buf[h]
    PROVE  AgreeInv'
<1> DEFINE Still(h) == /\ pc'[h] = pc[h] /\ req'[h] = req[h]
                       /\ resolved'[h] = resolved[h] /\ buf'[h] = buf[h]
<1>1. tainted \subseteq tainted'
  BY DEF BothStates
<1>2. \A p : Cur(p)' = Cur(p)
  BY DEF Cur
<1>3. ASSUME NEW h \in Handlers PROVE ResolvedAt(h)' /\ WrittenAt(h)' /\ MovedAt(h)'
  <2>1. CASE pc'[h] \notin InFlight
    BY <2>1 DEF ResolvedAt, WrittenAt, MovedAt, InFlight, Moving
  <2>2. CASE Still(h)
    <3>1. ResolvedAt(h) /\ WrittenAt(h) /\ MovedAt(h)
      BY DEF BothStates, AgreeInv, HandlersInv
    <3>2. ResolvedAt(h)'
      BY <1>1, <1>2, <2>2, <3>1 DEF ResolvedAt
    <3>3. WrittenAt(h)'
      BY <1>1, <2>2, <3>1 DEF WrittenAt, Stale
    <3>4. MovedAt(h)'
      BY <1>1, <2>2, <3>1 DEF MovedAt
    <3> QED
      BY <3>2, <3>3, <3>4
  <2> QED
    BY <2>1, <2>2
<1>4. DiskMatchesDatabase'
  <2>1. ASSUME NEW h \in Handlers PROVE Ahead(h) \subseteq tainted' \/ Ahead(h)' = Ahead(h)
    BY DEF Ahead
  <2> QED
    BY <1>1, <2>1 DEF BothStates, AgreeInv, DiskMatchesDatabase, Agrees, Explained
<1>5. TreeShaped(disk')
  BY DEF BothStates, AgreeInv, TreeShaped
<1> QED
  BY <1>3, <1>4, <1>5 DEF AgreeInv, HandlersInv, BothStates

\* What a handler in flight owns agrees, as long as it has not changed it.
LEMMA OwnAgrees ==
    ASSUME HandlerTypeOK, LockInv, AgreeInv, NEW h \in Handlers,
           pc[h] \in InFlight, pc[h] \notin AheadStages, NEW q \in Own(h), q \notin tainted
    PROVE  Matches(meta[q], disk[q])
<1>1. StageInv /\ Isolated
  BY Isolation DEF AgreeInv
<1>2. q \in Paths
  BY <1>1, OwnFacts
<1>3. ASSUME NEW g \in Handlers PROVE q \notin Ahead(g)
  <2> SUFFICES ASSUME q \in Ahead(g) PROVE FALSE
    OBVIOUS
  <2>1. pc[g] \in InFlight /\ q \in Own(g) /\ g # h
    BY <1>1, OwnFacts
  <2> QED
    BY <1>1, <2>1 DEF Isolated, AgreeInv
<1> QED
  BY <1>2, <1>3 DEF AgreeInv, DiskMatchesDatabase, Agrees, Explained, Matches

\* What a handler comes to own when it goes in flight agrees: no other handler
\* is ahead on it, or a race is noticed.
LEMMA EnterAgrees ==
    ASSUME BothStates, NEW g \in Handlers, NEW s \in InFlight, Moves(g, s),
           pc[g] \notin AheadStages, NEW q \in Own(g), q \notin tainted'
    PROVE  Matches(meta[q], disk[q])
<1>1. HandlerTypeOK /\ StageInv /\ q \in Paths
  BY OwnFacts DEF BothStates, AgreeInv
<1>2. Isolated'
  <2>1. HandlerTypeOK' /\ LockInv' /\ StageInv' => Isolated'
    BY Isolation, PTL
  <2> QED
    BY <2>1 DEF BothStates
<1>3. pc'[g] = s /\ Own(g)' = Own(g)
  BY <1>1 DEF Moves, HandlerTypeOK, Own
<1>4. ASSUME NEW h \in Handlers PROVE q \notin Ahead(h)
  <2> SUFFICES ASSUME q \in Ahead(h) PROVE FALSE
    OBVIOUS
  <2>1. h # g /\ pc[h] \in InFlight /\ q \in Own(h)
    BY <1>1, OwnFacts
  <2>2. pc'[h] = pc[h] /\ Own(h)' = Own(h)
    BY <1>1, <2>1 DEF Moves, HandlerTypeOK, Own
  <2>3. q \in Raced'
    BY <1>2, <1>3, <2>1, <2>2 DEF Isolated
  <2> QED
    BY <2>3 DEF BothStates
<1> QED
  BY <1>1, <1>4 DEF BothStates, AgreeInv, DiskMatchesDatabase, Agrees, Explained, Matches

-----------------------------------------------------------------------------
(* Reading the head *)

\* A step that changes neither tables nor tree touches no path.
LEMMA StillUntouched ==
    ASSUME meta' = meta, head' = head, ver' = ver, disk' = disk, NEW q
    PROVE  Untouched(q)
  BY DEF Untouched

\* A step of g that only reads.
LEMMA ReadsMove ==
    ASSUME HandlerTypeOK, NEW g \in Handlers, NEW s, pc' = [pc EXCEPT ![g] = s], req' = req,
           \E r : resolved' = [resolved EXCEPT ![g] = r],
           \E b : buf' = [buf EXCEPT ![g] = b],
           UNCHANGED <<meta, head, ver, disk>>
    PROVE  Moves(g, s) /\ \A q : Untouched(q)
<1>1. PICK r, b : resolved' = [resolved EXCEPT ![g] = r] /\ buf' = [buf EXCEPT ![g] = b]
  OBVIOUS
<1>2. \A h \in Handlers \ {g} : resolved'[h] = resolved[h] /\ buf'[h] = buf[h]
  BY <1>1 DEF HandlerTypeOK
<1>3. \A q : Untouched(q)
  BY StillUntouched
<1> QED
  BY <1>2, <1>3 DEF Moves

\* The version read first is the current one.
LEMMA ResolveLatestInv ==
    ASSUME DBInv, BothStates, NEW g \in Handlers, ResolveLatest(g)
    PROVE  AgreeInv'
<1> DEFINE p == req[g].path
           last == Max((DOMAIN ver[p]) \cup {0})
           new == IF last = 0 THEN NoHead
                  ELSE [version |-> last, exists |-> FALSE,
                        deleted |-> ver[p][last].change = "delete", data |-> ver[p][last].data]
<1>1. HandlerTypeOK /\ p \in Paths
  BY RequestFields DEF BothStates, HandlerTypeOK
<1>2. /\ pc[g] = "latest" /\ pc' = [pc EXCEPT ![g] = "meta"] /\ req' = req /\ buf' = buf
      /\ resolved' = [resolved EXCEPT ![g] = new] /\ UNCHANGED <<meta, head, ver, disk>>
  BY DEF ResolveLatest, Goto, dbVars
<1>3. GoodAt(Cur(p), meta[p], head[p], ver[p]) /\ Cur(p) \in 0..MaxVersion
  BY <1>1, GoodAtCur
<1>4. last = Cur(p)
  <2>1. Cur(p) \in Nat /\ 0 \in 0..Cur(p) /\ DOMAIN ver[p] = 1..Cur(p)
    BY <1>3, MaxVersionAssumption DEF GoodAt
  <2> QED
    BY <2>1, MaxOfRange
<1> HIDE DEF last
<1>5. new.version = Cur(p) /\ ~new.exists
  BY <1>4 DEF NoHead
<1>6. meta[p].kind = "none" /\ ~new.deleted => Cur(p) = 0
  <2>1. meta[p].kind = "none" /\ Cur(p) # 0 => ver[p][last].change = "delete"
    BY <1>3, <1>4 DEF GoodAt, DeleteRow
  <2>2. Cur(p) # 0 => new.deleted = (ver[p][last].change = "delete")
    BY <1>4
  <2> QED
    BY <2>1, <2>2
<1> HIDE DEF new
<1>7. Moves(g, "meta") /\ \A q : Untouched(q)
  <2>1. buf' = [buf EXCEPT ![g] = buf[g]]
    BY <1>1, <1>2 DEF HandlerTypeOK
  <2> QED
    BY <1>1, <1>2, <2>1, ReadsMove
<1>8. pc'[g] = "meta" /\ resolved'[g] = new /\ req'[g] = req[g]
  BY <1>1, <1>2 DEF HandlerTypeOK
<1>9. Cur(p)' = Cur(p)
  BY <1>2 DEF Cur
<1>10. ResolvedAt(g)'
  BY <1>2, <1>5, <1>6, <1>8, <1>9 DEF ResolvedAt
<1>11. WrittenAt(g)' /\ MovedAt(g)'
  BY <1>8 DEF WrittenAt, MovedAt, Moving
<1>12. TreeShaped(disk') /\ pc[g] \notin AheadStages /\ "meta" \in Stages
  BY <1>2 DEF BothStates, AgreeInv, TreeShaped, AheadStages, Stages
<1> QED
  BY <1>7, <1>10, <1>11, <1>12, StepKeepsInv

\* The row of meta, and the file itself, agree with it.
LEMMA ResolveMetaInv ==
    ASSUME DBInv, BothStates, NEW g \in Handlers, ResolveMeta(g)
    PROVE  AgreeInv'
<1> DEFINE p == req[g].path
           m == meta[p]
           new == IF m.kind = "none" THEN resolved[g]
                  ELSE [version |-> m.version, exists |-> TRUE, deleted |-> FALSE, data |-> m.data]
           s == IF m.kind = "none" /\ ~resolved[g].deleted THEN "stat" ELSE "decide"
<1>1. HandlerTypeOK /\ p \in Paths
  BY RequestFields DEF BothStates, HandlerTypeOK
<1>2. /\ pc[g] = "meta" /\ pc' = [pc EXCEPT ![g] = s] /\ req' = req /\ buf' = buf
      /\ resolved' = [resolved EXCEPT ![g] = new] /\ UNCHANGED <<meta, head, ver, disk>>
  BY <1>1 DEF ResolveMeta, Goto, dbVars, HandlerTypeOK
<1>3. GoodAt(Cur(p), m, head[p], ver[p])
  BY <1>1, GoodAtCur
<1>4. p \notin tainted =>
        /\ resolved[g].version = Cur(p) /\ ~resolved[g].exists
        /\ m.kind = "none" /\ ~resolved[g].deleted => Cur(p) = 0
  BY <1>2 DEF BothStates, AgreeInv, HandlersInv, ResolvedAt
<1>5. p \notin tainted => Matches(m, disk[p])
  <2>1. p \in Own(g) /\ pc[g] \in InFlight /\ pc[g] \notin AheadStages
    BY <1>1, <1>2, OwnFacts DEF BothStates, AgreeInv, InFlight, AheadStages
  <2> QED
    BY <2>1, OwnAgrees DEF BothStates
<1>6. s \in {"stat", "decide"} /\ (s = "stat" <=> m.kind = "none" /\ ~resolved[g].deleted)
  OBVIOUS
<1>7. p \notin tainted /\ s = "stat" => new.version = 0 /\ Cur(p) = 0
  BY <1>4
<1>8. p \notin tainted /\ s = "decide" =>
        /\ new.version = Cur(p) \/ m.kind = "dir"
        /\ new.exists /\ new.version # 0 => disk[p] = File(new.data)
  <2> SUFFICES ASSUME p \notin tainted, s = "decide"
               PROVE  /\ new.version = Cur(p) \/ m.kind = "dir"
                      /\ new.exists /\ new.version # 0 => disk[p] = File(new.data)
    OBVIOUS
  <2>1. CASE m.kind = "none"
    BY <1>4, <2>1
  <2>2. CASE m.kind = "file"
    BY <1>3, <1>5, <2>2 DEF GoodAt, Matches
  <2>3. CASE m.kind = "dir"
    BY <1>3, <2>3 DEF GoodAt
  <2>4. m.kind \in {"none", "file", "dir"}
    BY <1>3 DEF GoodAt, Meta
  <2> QED
    BY <2>1, <2>2, <2>3, <2>4
<1> HIDE DEF new, s
<1>9. Moves(g, s) /\ \A q : Untouched(q)
  <2>1. buf' = [buf EXCEPT ![g] = buf[g]]
    BY <1>1, <1>2 DEF HandlerTypeOK
  <2> QED
    BY <1>1, <1>2, <2>1, ReadsMove
<1>10. pc'[g] = s /\ resolved'[g] = new /\ req'[g] = req[g]
  BY <1>1, <1>2 DEF HandlerTypeOK
<1>11. Cur(p)' = Cur(p) /\ tainted \subseteq tainted'
  BY <1>2 DEF Cur, BothStates
<1>12. ResolvedAt(g)'
  BY <1>2, <1>6, <1>7, <1>8, <1>10, <1>11 DEF ResolvedAt
<1>13. WrittenAt(g)' /\ MovedAt(g)'
  BY <1>6, <1>10 DEF WrittenAt, MovedAt, Moving
<1>14. TreeShaped(disk') /\ pc[g] \notin AheadStages /\ s \in Stages
  BY <1>2, <1>6 DEF BothStates, AgreeInv, TreeShaped, AheadStages, Stages
<1> QED
  BY <1>9, <1>12, <1>13, <1>14, StepKeepsInv

\* A file without a row has no version, whatever the disk says.
LEMMA ResolveStatInv ==
    ASSUME BothStates, NEW g \in Handlers, ResolveStat(g)
    PROVE  AgreeInv'
<1> DEFINE p == req[g].path
           new == [resolved[g] EXCEPT !.exists = disk[p].kind # "absent", !.data = disk[p].data]
<1>1. HandlerTypeOK
  BY DEF BothStates
<1>2. /\ pc[g] = "stat" /\ pc' = [pc EXCEPT ![g] = "decide"] /\ req' = req /\ buf' = buf
      /\ resolved' = [resolved EXCEPT ![g] = new] /\ UNCHANGED <<meta, head, ver, disk>>
  BY <1>1 DEF ResolveStat, Goto, dbVars, HandlerTypeOK
<1>3. p \notin tainted => resolved[g].version = 0 /\ Cur(p) = 0
  BY <1>2 DEF BothStates, AgreeInv, HandlersInv, ResolvedAt
<1>4. resolved[g] \in FileHead
  BY <1>1 DEF HandlerTypeOK
<1>5. new.version = resolved[g].version
  BY <1>4 DEF FileHead
<1> HIDE DEF new
<1>6. Moves(g, "decide") /\ \A q : Untouched(q)
  <2>1. buf' = [buf EXCEPT ![g] = buf[g]]
    BY <1>1, <1>2 DEF HandlerTypeOK
  <2> QED
    BY <1>1, <1>2, <2>1, ReadsMove
<1>7. pc'[g] = "decide" /\ resolved'[g] = new /\ req'[g] = req[g]
  BY <1>1, <1>2 DEF HandlerTypeOK
<1>8. Cur(p)' = Cur(p) /\ tainted \subseteq tainted'
  BY <1>2 DEF Cur, BothStates
<1>9. ResolvedAt(g)'
  BY <1>3, <1>5, <1>7, <1>8 DEF ResolvedAt
<1>10. WrittenAt(g)' /\ MovedAt(g)'
  BY <1>7 DEF WrittenAt, MovedAt, Moving
<1>11. TreeShaped(disk') /\ pc[g] \notin AheadStages /\ "decide" \in Stages
  BY <1>2 DEF BothStates, AgreeInv, TreeShaped, AheadStages, Stages
<1> QED
  BY <1>6, <1>9, <1>10, <1>11, StepKeepsInv

-----------------------------------------------------------------------------
(* Steps that leave tables and tree as they are *)

\* Taking and giving back locks, answers, and failures after which nothing is
\* relied on.
LEMMA QuietInv ==
    ASSUME BothStates, NEW g \in Handlers,
           \/ \E r \in Requests : Begin(g, r)
           \/ Acquire(g) \/ Finish(g) \/ SkipWrite(g) \/ StepFails(g) \/ CommitFails(g)
    PROVE  AgreeInv'
<1>1. HandlerTypeOK /\ g \in DOMAIN pc /\ tainted \subseteq tainted'
  BY DEF BothStates, HandlerTypeOK
<1>2. \A h \in Handlers \ {g} : /\ pc'[h] = pc[h] /\ req'[h] = req[h]
                                /\ resolved'[h] = resolved[h] /\ buf'[h] = buf[h]
  BY <1>1 DEF Begin, Acquire, Finish, SkipWrite, StepFails, CommitFails, Goto, Respond, HandlerTypeOK
<1>3. UNCHANGED <<meta, head, ver, disk>>
  BY DEF Begin, Acquire, Finish, SkipWrite, StepFails, CommitFails, dbVars
<1>4. \/ pc'[g] \notin InFlight
      \/ UNCHANGED <<pc, req, resolved, buf>>
  <2>1. CASE \/ \E r \in Requests : Begin(g, r)
             \/ Finish(g) \/ SkipWrite(g) \/ StepFails(g) \/ CommitFails(g)
    <3>1. pc'[g] \in {"lock", "idle", "reply"}
      BY <1>1, <2>1 DEF Begin, Finish, SkipWrite, StepFails, CommitFails, Goto, Respond
    <3> QED
      BY <3>1 DEF InFlight
  <2>2. CASE Acquire(g)
    <3>1. UNCHANGED <<req, resolved, buf>> /\ req[g].op \in Ops
      BY <1>1, <2>2, RequestFields DEF Acquire, HandlerTypeOK
    <3>2. pc' = pc \/ pc'[g] = FirstStage(req[g].op)
      BY <1>1, <2>2 DEF Acquire, Goto
    <3>3. FirstStage(req[g].op) \in {"latest", "remove", "fsRename", "fsMkdir"}
      BY <3>1 DEF FirstStage, Ops, Writes
    <3> QED
      BY <3>1, <3>2, <3>3 DEF InFlight
  <2> QED
    BY <2>1, <2>2
<1>5. Ahead(g) \subseteq tainted'
  <2>1. CASE CommitFails(g)
    BY <2>1 DEF CommitFails, Taint
  <2>2. CASE ~CommitFails(g)
    <3>1. pc[g] \notin AheadStages
      BY <2>2 DEF Begin, Acquire, Finish, SkipWrite, StepFails, AheadStages
    <3> QED
      BY <3>1, OwnFacts DEF BothStates, AgreeInv
  <2> QED
    BY <2>1, <2>2
<1> QED
  BY <1>2, <1>3, <1>4, <1>5, QuietStep

\* The end of the process: what was ahead of the database is tainted.
LEMMA CrashInv ==
    ASSUME BothStates, Crash
    PROVE  AgreeInv'
<1>1. UNCHANGED <<meta, head, ver, disk>>
  BY DEF Crash, dbVars
<1>2. ASSUME NEW h \in Handlers PROVE pc'[h] \notin InFlight /\ Ahead(h) \subseteq tainted'
  BY DEF Crash, InFlight, Taint
<1> QED
  BY <1>1, <1>2, QuietStep

\* The removal of a conflict copy, and a step that changes nothing.
LEMMA StillInv ==
    ASSUME BothStates, (\E p \in Paths : DropOldestCopy(p)) \/ Quiescent \/ UNCHANGED vars
    PROVE  AgreeInv'
<1>1. UNCHANGED <<meta, head, ver, disk, pc, req, resolved, buf>>
  BY DEF DropOldestCopy, Quiescent, vars, handlerVars, dbVars
<1> QED
  BY <1>1, QuietStep

\* A rename whose transaction fails still knows what it has moved.
LEMMA ToRevertInv ==
    ASSUME BothStates, NEW g \in Handlers, RenameRowsFails(g) \/ RenameTxFails(g)
    PROVE  AgreeInv'
<1>1. HandlerTypeOK /\ tainted \subseteq tainted' /\ MovedAt(g)
  BY DEF BothStates, AgreeInv, HandlersInv
<1>2. /\ pc[g] = "renameTx" /\ pc' = [pc EXCEPT ![g] = "revert"] /\ req' = req
      /\ resolved' = resolved /\ buf' = buf /\ UNCHANGED <<meta, head, ver, disk>>
  BY DEF RenameRowsFails, RenameTxFails, Goto, dbVars
<1>3. Moves(g, "revert")
  <2>1. buf' = [buf EXCEPT ![g] = buf[g]] /\ resolved' = [resolved EXCEPT ![g] = resolved[g]]
    BY <1>1, <1>2 DEF HandlerTypeOK
  <2> QED
    BY <1>1, <1>2, <2>1, ReadsMove
<1>4. pc'[g] = "revert" /\ "revert" \in Stages /\ "revert" \in AheadStages
  BY <1>1, <1>2 DEF HandlerTypeOK, Stages, AheadStages
<1>5. ResolvedAt(g)' /\ WrittenAt(g)'
  BY <1>4 DEF ResolvedAt, WrittenAt
<1>6. MovedAt(g)'
  BY <1>1, <1>2 DEF MovedAt, Moving
<1>7. TreeShaped(disk')
  BY <1>2 DEF BothStates, AgreeInv, TreeShaped
<1> QED
  BY <1>3, <1>4, <1>5, <1>6, <1>7, StepKeepsInv

-----------------------------------------------------------------------------
(* Steps that change the disk *)

\* A step of g that puts an entry at its path, below directories.
LEMMA PutMoves ==
    ASSUME BothStates, NEW g \in Handlers, NEW s, NEW e \in Entry,
           CanMkdirAll(req[g].path), pc[g] \in InFlight \/ s \in InFlight,
           pc' = [pc EXCEPT ![g] = s], req' = req,
           \A h \in Handlers \ {g} : resolved'[h] = resolved[h] /\ buf'[h] = buf[h],
           disk' = [WithParents(req[g].path) EXCEPT ![req[g].path] = e],
           UNCHANGED <<meta, head, ver>>,
           e.kind = "dir" \/ disk[req[g].path].kind # "dir"
    PROVE  Moves(g, s) /\ TreeShaped(disk') /\ disk'[req[g].path] = e
<1> DEFINE p == req[g].path
           d == WithParents(p)
<1>1. HandlerTypeOK /\ p \in Paths /\ p \in Own(g) /\ TreeShaped(disk)
  BY RequestFields, OwnFacts DEF BothStates, AgreeInv, HandlerTypeOK
<1>2. disk \in [Paths -> Entry] /\ d \in [Paths -> Entry]
  BY <1>1, ParentsType DEF HandlerTypeOK
<1>3. /\ TreeShaped(d) /\ \A q \in Ancestors(p) : d[q] = Dir
      /\ \A q \in Paths : d[q] = disk[q] \/ (disk[q].kind # "file" /\ d[q] = Dir)
  BY <1>1, <1>2, ParentsShaped
<1>4. \A q \in Beneath(p) : d[q] = disk[q]
  <2>1. ASSUME NEW q \in Beneath(p) PROVE q \in Paths /\ q \notin Ancestors(p)
    <3>1. q \in Tree(p) /\ q \in Paths /\ q # p
      BY DEF Beneath, Tree
    <3> QED
      BY <1>1, <3>1, TreeFacts
  <2> QED
    BY <2>1 DEF WithParents
<1>5. \A q \in Paths : disk'[q] = IF q = p THEN e ELSE d[q]
  BY <1>2
<1> HIDE DEF d
<1>6. e.kind = "dir" \/ \A q \in Beneath(p) : d[q].kind = "absent"
  BY <1>1, <1>4, NothingBelow
<1>7. \A a \in Ancestors(p) : d[a].kind = "dir"
  BY <1>3 DEF Dir
<1>8. TreeShaped([d EXCEPT ![p] = e])
  BY <1>1, <1>2, <1>3, <1>6, <1>7, PutShaped
<1>9. \A q \in Paths \ {p} : Untouched(q)
  BY <1>3, <1>5 DEF Untouched
<1> QED
  BY <1>1, <1>5, <1>8, <1>9 DEF Moves, d

\* An answer after which at most directories were made above a path.
LEMMA ParentsStep ==
    ASSUME BothStates, NEW g \in Handlers, NEW p \in Paths,
           pc' = [pc EXCEPT ![g] = "reply"], req' = req, resolved' = resolved, buf' = buf,
           UNCHANGED <<meta, head, ver>>,
           disk' = (IF CanMkdirAll(p) THEN WithParents(p) ELSE disk),
           Ahead(g) \subseteq tainted'
    PROVE  AgreeInv'
<1>1. HandlerTypeOK /\ StageInv /\ TreeShaped(disk) /\ disk \in [Paths -> Entry]
  BY DEF BothStates, AgreeInv, HandlerTypeOK
<1>2. ASSUME NEW q \in Paths PROVE disk'[q] = disk[q] \/ (disk[q].kind # "file" /\ disk'[q] = Dir)
  BY <1>1, ParentsShaped
<1>3. TreeShaped(disk')
  BY <1>1, ParentsShaped
<1>4. \A q \in Paths : Untouched(q)
  BY <1>2 DEF Untouched
<1>5. Moves(g, "reply")
  BY <1>4 DEF Moves
<1>6. pc'[g] = "reply" /\ "reply" \in Stages
  BY <1>1 DEF HandlerTypeOK, Stages
<1>7. ResolvedAt(g)' /\ WrittenAt(g)' /\ MovedAt(g)'
  BY <1>6 DEF ResolvedAt, WrittenAt, MovedAt, Moving
<1>8. ASSUME NEW q \in Own(g)
      PROVE  q \in tainted' \/ (Untouched(q) /\ pc[g] \notin AheadStages)
  BY <1>1, <1>4, OwnFacts
<1> QED
  BY <1>3, <1>5, <1>6, <1>7, <1>8, StepKeepsInv

\* A conflict copy goes next to the file, below the same directories.
LEMMA ConflictInv ==
    ASSUME BothStates, NEW g \in Handlers, Conflict(g)
    PROVE  AgreeInv'
<1>1. req[g].path \in Paths /\ StageInv /\ HandlerTypeOK
  BY RequestFields DEF BothStates, HandlerTypeOK, AgreeInv
<1>2. /\ pc[g] = "decide" /\ pc' = [pc EXCEPT ![g] = "reply"]
      /\ req' = req /\ resolved' = resolved /\ buf' = buf /\ UNCHANGED <<meta, head, ver>>
  BY DEF Conflict, Respond, Goto, dbVars
<1>3. Ahead(g) = {}
  BY <1>1, <1>2, OwnFacts DEF AheadStages
<1>4. CASE CanMkdirAll(req[g].path) /\ disk' = WithParents(req[g].path)
  BY <1>1, <1>2, <1>3, <1>4, ParentsStep
<1>5. CASE disk' = disk
  <2>1. \A h \in Handlers \ {g} : pc'[h] = pc[h]
    BY <1>1, <1>2 DEF HandlerTypeOK
  <2>2. pc'[g] \notin InFlight
    BY <1>1, <1>2 DEF HandlerTypeOK, InFlight
  <2> QED
    BY <1>2, <1>3, <1>5, <2>1, <2>2, QuietStep
<1> QED
  BY <1>4, <1>5 DEF Conflict

\* What a write leaves on disk is what was asked for.
LEMMA MutateAsAsked ==
    ASSUME NEW r \in Requests, NEW c \in Contents
    PROVE  /\ r.op \in Writes => Mutate(r, c) \in Contents
           /\ r.op = "write" => Mutate(r, c) = r.data
           /\ r.op = "resize" => Len(Mutate(r, c)) = r.size
<1>1. r.op \in Writes => Mutate(r, c) \in Contents
  BY ContentsClosed
<1>2. r.op = "write" => Mutate(r, c) = r.data
  BY DEF Mutate
<1>3. ASSUME r.op = "resize" PROVE Len(Mutate(r, c)) = r.size
  <2>1. Mutate(r, c) = FileTruncate(c, r.size)
    BY <1>3 DEF Mutate
  <2>2. r.size \in Nat
    BY RequestsAssumption DEF RequestType
  <2>3. FileTruncate(c, r.size) \in Seq(Nat)
    BY <1>1, <1>3, <2>1, BytesAssumption DEF Writes
  <2>4. DOMAIN FileTruncate(c, r.size) = 1..r.size
    BY DEF FileTruncate
  <2> QED
    BY <2>1, <2>2, <2>3, <2>4, LenProperties
<1> QED
  BY <1>1, <1>2, <1>3

\* A write reaches the disk: the version it was checked against is current.
LEMMA WriteDiskInv ==
    ASSUME BothStates, NEW g \in Handlers, WriteDisk(g)
    PROVE  AgreeInv'
<1> DEFINE r == req[g]
           p == req[g].path
           c == Mutate(r, Opened(p))
           s == IF r.op = "write" THEN "commit" ELSE "readback"
<1>1. /\ HandlerTypeOK /\ StageInv /\ LockInv /\ AgreeInv /\ r \in Requests /\ p \in Paths
      /\ tainted \subseteq tainted' /\ p \in Own(g)
  BY RequestFields, OwnFacts DEF BothStates, HandlerTypeOK, AgreeInv
<1>2. pc[g] = "decide" /\ r.op \in Writes /\ req' = req /\ resolved' = resolved
      /\ UNCHANGED <<meta, head, ver>>
  BY DEF WriteDisk, dbVars
<1>3. pc[g] \in InFlight /\ pc[g] \notin AheadStages
  BY <1>2 DEF InFlight, AheadStages
<1>4. CASE CanWrite(p)
  <2>1. /\ disk' = [WithParents(p) EXCEPT ![p] = File(c)] /\ buf' = [buf EXCEPT ![g] = c]
        /\ pc' = [pc EXCEPT ![g] = s]
    BY <1>4 DEF WriteDisk, Goto
  <2>2. CanMkdirAll(p) /\ disk[p].kind # "dir"
    BY <1>4 DEF CanWrite
  <2>3. Opened(p) \in Contents
    BY <1>1, ParentsType DEF HandlerTypeOK
  <2>4. c \in Contents /\ (r.op = "write" => c = r.data) /\ (r.op = "resize" => Len(c) = r.size)
    BY <1>1, <1>2, <2>3, MutateAsAsked
  <2>5. s \in {"commit", "readback"}
    OBVIOUS
  <2> HIDE DEF c, s
  <2>6. File(c) \in Entry
    BY <2>4, ConstantTypes
  <2>7. \A h \in Handlers \ {g} : resolved'[h] = resolved[h] /\ buf'[h] = buf[h]
    BY <1>1, <1>2, <2>1 DEF HandlerTypeOK
  <2>8. Moves(g, s) /\ TreeShaped(disk') /\ disk'[p] = File(c)
    BY <1>2, <1>3, <2>1, <2>2, <2>6, <2>7, PutMoves
  <2>9. pc'[g] = s /\ buf'[g] = c /\ req'[g] = r /\ resolved'[g] = resolved[g]
    BY <1>1, <1>2, <2>1 DEF HandlerTypeOK
  <2>10. p \notin tainted => resolved[g].version = Cur(p)
    <3> SUFFICES ASSUME p \notin tainted PROVE resolved[g].version = Cur(p)
      OBVIOUS
    <3>1. meta[p].kind # "dir"
      BY <1>1, <1>3, <2>2, OwnAgrees DEF Matches
    <3> QED
      BY <1>1, <1>2, <3>1 DEF AgreeInv, HandlersInv, ResolvedAt
  <2>11. \A q : Cur(q)' = Cur(q)
    BY <1>2 DEF Cur
  <2>12. ResolvedAt(g)'
    BY <1>1, <2>5, <2>9, <2>10, <2>11 DEF ResolvedAt
  <2>13. p \notin tainted => MadeOf(r, meta[p], c)
    <3> SUFFICES ASSUME p \notin tainted PROVE MadeOf(r, meta[p], c)
      OBVIOUS
    <3>1. Matches(meta[p], disk[p])
      BY <1>1, <1>3, OwnAgrees
    <3>2. meta[p].kind = "none" => Opened(p) \in Strays
      BY <3>1 DEF Matches, Opened, Strays
    <3>3. meta[p].kind = "file" => Opened(p) = meta[p].data
      BY <3>1 DEF Matches, Opened, File
    <3> QED
      BY <2>2, <3>1, <3>2, <3>3 DEF MadeOf, Matches, c
  <2>14. ~Stale(g)'
    BY <1>2, <2>9 DEF WriteDisk, Stale
  <2>15. WrittenAt(g)'
    BY <1>1, <1>2, <2>4, <2>5, <2>8, <2>9, <2>13, <2>14 DEF WrittenAt
  <2>16. MovedAt(g)'
    BY <2>5, <2>9 DEF MovedAt, Moving
  <2>17. s \in Stages /\ s \in AheadStages
    BY <2>5 DEF Stages, AheadStages
  <2> QED
    BY <2>8, <2>12, <2>15, <2>16, <2>17, StepKeepsInv
<1>5. CASE ~CanWrite(p)
  <2>1. pc' = [pc EXCEPT ![g] = "reply"] /\ disk' = disk /\ buf' = buf
    BY <1>5 DEF WriteDisk, Goto, Respond
  <2>2. pc'[g] \notin InFlight /\ \A h \in Handlers \ {g} : pc'[h] = pc[h]
    BY <1>1, <2>1 DEF HandlerTypeOK, InFlight
  <2>3. Ahead(g) = {}
    BY <1>1, <1>3, OwnFacts
  <2> QED
    BY <1>2, <2>1, <2>2, <2>3, QuietStep
<1> QED
  BY <1>4, <1>5

\* A write that fails half way taints its path.
LEMMA WriteDiskFailsInv ==
    ASSUME BothStates, NEW g \in Handlers, WriteDiskFails(g)
    PROVE  AgreeInv'
<1> DEFINE r == req[g]
           p == req[g].path
           c == IF r.op = "write" THEN EmptyContent ELSE Mutate(r, Opened(p))
<1>1. HandlerTypeOK /\ StageInv /\ r \in Requests /\ p \in Paths
  BY RequestFields DEF BothStates, HandlerTypeOK, AgreeInv
<1>2. /\ pc[g] = "decide" /\ r.op \in Writes /\ CanWrite(p)
      /\ disk' = [WithParents(p) EXCEPT ![p] = File(c)]
      /\ pc' = [pc EXCEPT ![g] = "reply"] /\ req' = req /\ resolved' = resolved /\ buf' = buf
      /\ UNCHANGED <<meta, head, ver>> /\ p \in tainted'
  BY DEF WriteDiskFails, Respond, Goto, dbVars, Taint
<1>3. c \in Contents
  <2>1. Opened(p) \in Contents
    BY <1>1, ParentsType DEF HandlerTypeOK
  <2> QED
    BY <1>1, <1>2, <2>1, ContentsClosed, ContentAssumption
<1>4. Own(g) = {p}
  BY <1>2 DEF Own, Writes
<1> HIDE DEF c
<1>5. File(c) \in Entry /\ CanMkdirAll(p) /\ disk[p].kind # "dir" /\ pc[g] \in InFlight
  BY <1>2, <1>3, ConstantTypes DEF CanWrite, InFlight
<1>6. Moves(g, "reply") /\ TreeShaped(disk')
  BY <1>2, <1>5, PutMoves
<1>7. pc'[g] = "reply" /\ "reply" \in Stages
  BY <1>1, <1>2 DEF HandlerTypeOK, Stages
<1>8. ResolvedAt(g)' /\ WrittenAt(g)' /\ MovedAt(g)'
  BY <1>7 DEF ResolvedAt, WrittenAt, MovedAt, Moving
<1> QED
  BY <1>2, <1>4, <1>6, <1>7, <1>8, StepKeepsInv

\* Removing an entry that has nothing below it.
LEMMA RemoveDiskInv ==
    ASSUME BothStates, NEW g \in Handlers, RemoveDisk(g)
    PROVE  AgreeInv'
<1> DEFINE p == req[g].path
<1>1. /\ HandlerTypeOK /\ StageInv /\ TreeShaped(disk) /\ p \in Paths /\ p \in Own(g)
      /\ disk \in [Paths -> Entry]
  BY RequestFields, OwnFacts DEF BothStates, HandlerTypeOK, AgreeInv
<1>2. /\ pc[g] = "remove" /\ req' = req /\ resolved' = resolved /\ buf' = buf
      /\ UNCHANGED <<meta, head, ver>>
  BY DEF RemoveDisk, dbVars
<1>3. CASE CanRemove(p)
  <2>1. disk' = [disk EXCEPT ![p] = Absent] /\ pc' = [pc EXCEPT ![g] = "commitDelete"]
    BY <1>3 DEF RemoveDisk, Goto
  <2>2. \A q \in Beneath(p) : disk[q].kind = "absent"
    BY <1>1, <1>3, NothingBelow DEF CanRemove, Absent
  <2>3. Absent \in Entry /\ Absent.kind = "absent"
    BY ConstantTypes DEF Absent
  <2>4. TreeShaped(disk')
    BY <1>1, <2>1, <2>2, <2>3, PutShaped
  <2>5. \A q \in Paths \ {p} : Untouched(q)
    BY <1>1, <1>2, <2>1 DEF Untouched
  <2>6. "commitDelete" \in Stages /\ "commitDelete" \in AheadStages /\ "commitDelete" \in InFlight
    BY DEF Stages, AheadStages, InFlight
  <2>7. Moves(g, "commitDelete")
    BY <1>1, <1>2, <2>1, <2>5, <2>6 DEF Moves
  <2>8. pc'[g] = "commitDelete"
    BY <1>1, <2>1 DEF HandlerTypeOK
  <2>9. ResolvedAt(g)' /\ WrittenAt(g)' /\ MovedAt(g)'
    BY <1>1, <1>2, <2>1, <2>3, <2>8 DEF ResolvedAt, WrittenAt, MovedAt, Moving
  <2> QED
    BY <2>4, <2>6, <2>7, <2>9, StepKeepsInv
<1>4. CASE ~CanRemove(p)
  <2>1. pc' = [pc EXCEPT ![g] = "reply"] /\ disk' = disk
    BY <1>4 DEF RemoveDisk, Goto, Respond
  <2>2. pc'[g] \notin InFlight /\ \A h \in Handlers \ {g} : pc'[h] = pc[h]
    BY <1>1, <2>1 DEF HandlerTypeOK, InFlight
  <2>3. Ahead(g) = {}
    BY <1>1, <1>2, OwnFacts DEF AheadStages
  <2> QED
    BY <1>2, <2>1, <2>2, <2>3, QuietStep
<1> QED
  BY <1>3, <1>4

\* Making a directory.
LEMMA MkdirDiskInv ==
    ASSUME BothStates, NEW g \in Handlers, MkdirDisk(g)
    PROVE  AgreeInv'
<1> DEFINE p == req[g].path
           can == CanMkdirAll(p) /\ disk[p].kind # "file"
<1>1. HandlerTypeOK /\ StageInv /\ p \in Paths
  BY RequestFields DEF BothStates, HandlerTypeOK, AgreeInv
<1>2. /\ pc[g] = "fsMkdir" /\ req' = req /\ resolved' = resolved /\ buf' = buf
      /\ UNCHANGED <<meta, head, ver>>
  BY DEF MkdirDisk, dbVars
<1>3. CASE can
  <2>1. disk' = [WithParents(p) EXCEPT ![p] = Dir] /\ pc' = [pc EXCEPT ![g] = "setMeta"]
    BY <1>3 DEF MkdirDisk, Goto
  <2>2. "setMeta" \in Stages /\ "setMeta" \in AheadStages /\ "setMeta" \in InFlight
    BY DEF Stages, AheadStages, InFlight
  <2>3. Dir \in Entry /\ Dir.kind = "dir"
    BY ConstantTypes DEF Dir
  <2>4. Moves(g, "setMeta") /\ TreeShaped(disk') /\ disk'[p] = Dir
    BY <1>2, <1>3, <2>1, <2>2, <2>3, PutMoves
  <2>5. pc'[g] = "setMeta" /\ req'[g] = req[g]
    BY <1>1, <1>2, <2>1 DEF HandlerTypeOK
  <2>6. p \notin tainted' => meta[p].kind # "file"
    <3>1. p \in Own(g) /\ pc[g] \notin AheadStages
      BY <1>1, <1>2, OwnFacts DEF AheadStages
    <3>2. p \notin tainted' => Matches(meta[p], disk[p])
      BY <2>2, <2>4, <3>1, EnterAgrees
    <3> QED
      BY <1>3, <3>2 DEF Matches, File
  <2>7. ResolvedAt(g)' /\ WrittenAt(g)' /\ MovedAt(g)'
    BY <1>2, <2>3, <2>4, <2>5, <2>6 DEF ResolvedAt, WrittenAt, MovedAt, Moving
  <2> QED
    BY <2>2, <2>4, <2>7, StepKeepsInv
<1>4. CASE ~can
  <2>1. pc' = [pc EXCEPT ![g] = "reply"] /\ disk' = disk
    BY <1>4 DEF MkdirDisk, Goto, Respond
  <2>2. pc'[g] \notin InFlight /\ \A h \in Handlers \ {g} : pc'[h] = pc[h]
    BY <1>1, <2>1 DEF HandlerTypeOK, InFlight
  <2>3. Ahead(g) = {}
    BY <1>1, <1>2, OwnFacts DEF AheadStages
  <2> QED
    BY <1>2, <2>1, <2>2, <2>3, QuietStep
<1> QED
  BY <1>3, <1>4

-----------------------------------------------------------------------------
(* Steps that read back and record *)

\* What is read back is what was written.
LEMMA ReadBackInv ==
    ASSUME BothStates, NEW g \in Handlers, ReadBack(g)
    PROVE  AgreeInv'
<1> DEFINE r == req[g]
           p == req[g].path
<1>1. HandlerTypeOK /\ StageInv /\ tainted \subseteq tainted' /\ WrittenAt(g) /\ ResolvedAt(g)
  BY DEF BothStates, AgreeInv, HandlersInv
<1>2. /\ pc[g] = "readback" /\ req' = req /\ resolved' = resolved
      /\ UNCHANGED <<meta, head, ver, disk>>
  BY DEF ReadBack, dbVars
<1>3. p \notin tainted => disk[p] = File(buf[g])
  BY <1>1, <1>2 DEF WrittenAt
<1>4. TreeShaped(disk')
  BY <1>2 DEF BothStates, AgreeInv, TreeShaped
<1>5. resolved' = [resolved EXCEPT ![g] = resolved[g]] /\ buf[g] \in Contents
  BY <1>1, <1>2 DEF HandlerTypeOK
<1>6. CASE disk[p].kind = "file"
  <2>1. buf' = [buf EXCEPT ![g] = disk[p].data] /\ pc' = [pc EXCEPT ![g] = "commit"]
    BY <1>6 DEF ReadBack, Goto
  <2>2. Moves(g, "commit")
    BY <1>1, <1>2, <1>5, <2>1, ReadsMove
  <2>3. /\ pc'[g] = "commit" /\ req'[g] = r /\ resolved'[g] = resolved[g]
        /\ buf'[g] = disk[p].data
    BY <1>1, <1>2, <2>1 DEF HandlerTypeOK
  <2>4. p \notin tainted => buf'[g] = buf[g]
    BY <1>3, <2>3 DEF File
  <2>5. \A q : Cur(q)' = Cur(q)
    BY <1>2 DEF Cur
  <2>6. ResolvedAt(g)'
    BY <1>1, <1>2, <2>3, <2>5 DEF ResolvedAt
  <2>7. WrittenAt(g)' /\ MovedAt(g)'
    BY <1>1, <1>2, <2>3, <2>4 DEF WrittenAt, MovedAt, Moving, Stale
  <2>8. "commit" \in Stages /\ "commit" \in AheadStages
    BY DEF Stages, AheadStages
  <2> QED
    BY <1>4, <2>2, <2>6, <2>7, <2>8, StepKeepsInv
<1>7. CASE disk[p].kind # "file"
  <2>1. buf' = buf /\ pc' = [pc EXCEPT ![g] = "reply"]
    BY <1>7 DEF ReadBack, Goto, Respond
  <2>2. pc'[g] \notin InFlight /\ \A h \in Handlers \ {g} : pc'[h] = pc[h]
    BY <1>1, <2>1 DEF HandlerTypeOK, InFlight
  <2>3. p \in tainted'
    BY <1>1, <1>3, <1>7 DEF File
  <2>4. Ahead(g) \subseteq tainted'
    <3>1. Own(g) = {p}
      BY <1>1, <1>2 DEF StageInv, Own, Writes
    <3> QED
      BY <1>1, <1>2, <2>3, <3>1, OwnFacts DEF AheadStages
  <2> QED
    BY <1>2, <2>1, <2>2, <2>4, QuietStep
<1> QED
  BY <1>6, <1>7

\* An answer after a transaction on the path of g alone, whose row then says
\* what is on disk.
LEMMA RecordStep ==
    ASSUME BothStates, NEW g \in Handlers, pc[g] \in InFlight, req[g].op # "rename",
           pc' = [pc EXCEPT ![g] = "reply"], req' = req, resolved' = resolved, buf' = buf,
           disk' = disk,
           \A q \in Paths \ {req[g].path} :
              meta'[q] = meta[q] /\ head'[q] = head[q] /\ ver'[q] = ver[q],
           req[g].path \in tainted' \/ Matches(meta'[req[g].path], disk[req[g].path])
    PROVE  AgreeInv'
<1>1. HandlerTypeOK /\ StageInv /\ Own(g) = {req[g].path} /\ TreeShaped(disk')
  BY DEF BothStates, AgreeInv, Own, TreeShaped
<1>2. \A q \in Paths \ {req[g].path} : Untouched(q)
  BY DEF Untouched
<1>3. Moves(g, "reply")
  BY <1>1, <1>2 DEF Moves
<1>4. pc'[g] = "reply" /\ "reply" \in Stages
  BY <1>1 DEF HandlerTypeOK, Stages
<1>5. ResolvedAt(g)' /\ WrittenAt(g)' /\ MovedAt(g)'
  BY <1>4 DEF ResolvedAt, WrittenAt, MovedAt, Moving
<1> QED
  BY <1>1, <1>3, <1>4, <1>5, StepKeepsInv

\* Recording a write, a deletion or a directory.
LEMMA RecordInv ==
    ASSUME DBInv, BothStates, NEW g \in Handlers, Commit(g) \/ CommitDelete(g) \/ RecordDir(g)
    PROVE  AgreeInv'
<1> DEFINE p == req[g].path
<1>1. /\ HandlerTypeOK /\ StageInv /\ tainted \subseteq tainted' /\ WrittenAt(g) /\ p \in Paths
      /\ meta \in [Paths -> Meta] /\ head \in [Paths -> 0..MaxVersion] /\ DOMAIN ver = Paths
  BY RequestFields DEF BothStates, AgreeInv, HandlersInv, HandlerTypeOK, DBInv
<1>2. /\ pc[g] \in {"commit", "commitDelete", "setMeta"}
      /\ pc' = [pc EXCEPT ![g] = "reply"] /\ req' = req /\ resolved' = resolved /\ buf' = buf
      /\ disk' = disk
  BY DEF Commit, CommitDelete, RecordDir, Goto, Respond
<1>3. pc[g] \in InFlight /\ req[g].op # "rename"
  BY <1>1, <1>2 DEF InFlight, StageInv, Writes
<1>4. CASE Commit(g)
  <2>1. /\ pc[g] = "commit"
        /\ head' = [head EXCEPT ![p] = NextVersion(p)]
        /\ meta' = [meta EXCEPT ![p] = FileMeta(buf[g], NextVersion(p))]
        /\ \E x : ver' = [ver EXCEPT ![p] = x]
    BY <1>4 DEF Commit, SaveFileSnapshot, InsertSnapshot
  <2>2. \A q \in Paths \ {p} : meta'[q] = meta[q] /\ head'[q] = head[q] /\ ver'[q] = ver[q]
    BY <1>1, <2>1
  <2>3. p \notin tainted => disk[p] = File(buf[g])
    BY <1>1, <2>1 DEF WrittenAt
  <2>4. meta'[p] = FileMeta(buf[g], NextVersion(p))
    BY <1>1, <2>1
  <2>5. p \in tainted' \/ Matches(meta'[p], disk[p])
    BY <1>1, <2>3, <2>4 DEF Matches, FileMeta
  <2> QED
    BY <1>2, <1>3, <2>2, <2>5, RecordStep
<1>5. CASE CommitDelete(g)
  <2>1. /\ pc[g] = "commitDelete"
        /\ head' = [head EXCEPT ![p] = NextVersion(p)]
        /\ meta' = [meta EXCEPT ![p] = NoMeta]
        /\ \E x : ver' = [ver EXCEPT ![p] = x]
    BY <1>5 DEF CommitDelete, AppendDeleteSnapshot, InsertSnapshot
  <2>2. \A q \in Paths \ {p} : meta'[q] = meta[q] /\ head'[q] = head[q] /\ ver'[q] = ver[q]
    BY <1>1, <2>1
  <2>3. p \in tainted' \/ Matches(meta'[p], disk[p])
    BY <1>1, <2>1 DEF Matches, NoMeta, WrittenAt
  <2> QED
    BY <1>2, <1>3, <2>2, <2>3, RecordStep
<1>6. CASE RecordDir(g)
  <2>1. pc[g] = "setMeta" /\ meta' = [meta EXCEPT ![p] = DirMeta] /\ head' = head /\ ver' = ver
    BY <1>6 DEF RecordDir, SetDirMeta
  <2>2. \A q \in Paths \ {p} : meta'[q] = meta[q] /\ head'[q] = head[q] /\ ver'[q] = ver[q]
    BY <1>1, <2>1
  <2>3. p \in tainted' \/ Matches(meta'[p], disk[p])
    BY <1>1, <2>1 DEF Matches, DirMeta, WrittenAt
  <2> QED
    BY <1>2, <1>3, <2>2, <2>3, RecordStep
<1> QED
  BY <1>4, <1>5, <1>6

-----------------------------------------------------------------------------
(* Renames *)

\* What a rename leaves on disk.
RenamedOnDisk(old, new) ==
    /\ \A q \in Tree(new) : Arrives(old, new, q) => disk'[q] = disk[Source(old, new, q)]
    /\ \A q \in Tree(old) : disk'[q] = Absent
    /\ \A q \in Paths \ Tree(old) :
         ~Arrives(old, new, q) /\ disk[q].kind # "file" => disk'[q].kind # "file"

\* A rename on disk touches the two trees only.
LEMMA DiskRenameMoves ==
    ASSUME BothStates, NEW g \in Handlers, NEW s, NEW old \in Paths, NEW new \in Paths,
           Own(g) = Tree(old) \cup Tree(new), pc[g] \in InFlight \/ s \in InFlight,
           CanRename(old, new), DiskRename(old, new),
           pc' = [pc EXCEPT ![g] = s], req' = req, resolved' = resolved, buf' = buf,
           UNCHANGED <<meta, head, ver>>
    PROVE  Moves(g, s) /\ TreeShaped(disk') /\ RenamedOnDisk(old, new)
<1>1. disk \in [Paths -> Entry] /\ TreeShaped(disk)
  BY DEF BothStates, HandlerTypeOK, AgreeInv
<1>2. TreeShaped(disk')
  BY <1>1, RenameShaped
<1>3. /\ CanMkdirAll(new) /\ Tree(old) \cap Tree(new) = {}
      /\ \A q \in Tree(old) : WithParents(new)[q] = disk[q]
  BY <1>1, RenameFacts
<1>4. \A q \in Paths : disk'[q] = IF q \in Tree(old) THEN Absent
                                  ELSE IF Arrives(old, new, q)
                                  THEN WithParents(new)[Source(old, new, q)]
                                  ELSE WithParents(new)[q]
  BY DEF DiskRename
<1>5. \A q \in Paths : \/ WithParents(new)[q] = disk[q]
                       \/ disk[q].kind # "file" /\ WithParents(new)[q] = Dir
  BY <1>1, <1>3, ParentsShaped
<1>6. ASSUME NEW q \in Paths, q \notin Own(g) PROVE Untouched(q)
  <2>1. disk'[q] = WithParents(new)[q]
    BY <1>4, <1>6 DEF Arrives
  <2> QED
    BY <1>5, <2>1 DEF Untouched
<1>7. Moves(g, s)
  BY <1>6 DEF Moves
<1>8. Tree(old) \subseteq Paths /\ Tree(new) \subseteq Paths
  BY DEF Tree
<1>9. ASSUME NEW q \in Tree(new), Arrives(old, new, q) PROVE disk'[q] = disk[Source(old, new, q)]
  BY <1>3, <1>4, <1>8, <1>9 DEF Arrives
<1>10. ASSUME NEW q \in Tree(old) PROVE disk'[q] = Absent
  BY <1>4, <1>8
<1>11. ASSUME NEW q \in Paths \ Tree(old), ~Arrives(old, new, q), disk[q].kind # "file"
       PROVE  disk'[q].kind # "file"
  BY <1>4, <1>5, <1>11 DEF Dir
<1> QED
  BY <1>2, <1>7, <1>9, <1>10, <1>11 DEF RenamedOnDisk

\* A rename on disk: what it has moved matches the rows it is going to move.
LEMMA RenameDiskInv ==
    ASSUME DBInv, BothStates, NEW g \in Handlers, RenameDisk(g)
    PROVE  AgreeInv'
<1> DEFINE old == req[g].path
           new == req[g].to
<1>1. /\ HandlerTypeOK /\ StageInv /\ TreeShaped(disk) /\ old \in Paths /\ new \in Paths
      /\ disk \in [Paths -> Entry] /\ tainted \subseteq tainted'
  BY RequestFields DEF BothStates, HandlerTypeOK, AgreeInv
<1>2. /\ pc[g] = "fsRename" /\ req' = req /\ resolved' = resolved /\ buf' = buf
      /\ UNCHANGED <<meta, head, ver>>
  BY DEF RenameDisk, dbVars
<1>3. Own(g) = Tree(old) \cup Tree(new) /\ pc[g] \notin AheadStages
  BY <1>1, <1>2 DEF StageInv, Own, AheadStages
<1>4. CASE CanRename(old, new)
  <2>1. DiskRename(old, new) /\ pc' = [pc EXCEPT ![g] = "renameTx"]
    BY <1>4 DEF RenameDisk, Goto
  <2>2. "renameTx" \in InFlight /\ "renameTx" \in Stages /\ "renameTx" \in AheadStages
    BY DEF InFlight, Stages, AheadStages
  <2>3. Moves(g, "renameTx") /\ TreeShaped(disk') /\ RenamedOnDisk(old, new)
    BY <1>1, <1>2, <1>3, <1>4, <2>1, <2>2, DiskRenameMoves
  <2>4. pc'[g] = "renameTx"
    BY <1>1, <2>1 DEF HandlerTypeOK
  <2>5. ASSUME NEW q \in Tree(old) \cup Tree(new), q \notin tainted' PROVE Matches(meta[q], disk[q])
    BY <1>3, <2>2, <2>3, <2>5, EnterAgrees
  <2>6. /\ Tree(old) \cap Tree(new) = {}
        /\ \A q \in Tree(new) : disk[q].kind # "dir"
        /\ \A q \in Beneath(new) : disk[q].kind = "absent"
        /\ \A q \in Tree(old) : Rebase(old, new, q) \notin Paths => disk[q] = Absent
    BY <1>1, <1>4, RenameFacts
  <2>7. disk[new].kind = "file" => new \in tainted'
    BY <1>4 DEF RenameDisk, Taint
  <2>8. \A q \in Paths : meta[q].kind \in {"none", "dir", "file"}
    BY DEF DBInv, Meta
  <2>9. Tree(old) \subseteq Paths /\ Tree(new) \subseteq Paths
    BY DEF Tree
  <2>10. ASSUME NEW q \in Tree(new) \ tainted' PROVE meta[q].kind = "none"
    <3>1. disk[q].kind # "file" /\ disk[q].kind # "dir"
      BY <2>6, <2>7 DEF Beneath
    <3>2. Matches(meta[q], disk[q]) /\ meta[q].kind \in {"none", "dir", "file"}
      BY <2>5, <2>8, <2>9
    <3> QED
      BY <3>1, <3>2 DEF Matches, File
  <2>11. ASSUME NEW q \in Tree(new) \ tainted',
                Arrives(old, new, q), Source(old, new, q) \notin tainted'
         PROVE  Matches(meta[Source(old, new, q)], disk'[q])
    <3>1. Source(old, new, q) \in Tree(old)
      BY <2>11 DEF Arrives
    <3> QED
      BY <2>3, <2>5, <2>11, <3>1 DEF RenamedOnDisk
  <2>12. ASSUME NEW q \in Tree(old) \ tainted', Rebase(old, new, q) \notin Paths
         PROVE  meta[q].kind = "none"
    <3>1. disk[q] = Absent /\ Matches(meta[q], disk[q])
      BY <2>5, <2>6, <2>12
    <3> QED
      BY <2>8, <2>9, <3>1 DEF Matches, File, Absent
  <2>13. req'[g] = req[g] /\ meta' = meta
    BY <1>2
  <2>14. MovedAt(g)'
    <3>1. \A q \in Tree(old) : disk'[q].kind # "file"
      BY <2>3 DEF RenamedOnDisk, Absent
    <3>2. \A q \in Tree(new) \ tainted' : ~Arrives(old, new, q) => disk'[q].kind # "file"
      <4>1. \A q \in Tree(new) \ tainted' : disk[q].kind # "file"
        BY <2>6, <2>7 DEF Beneath
      <4> QED
        BY <2>3, <2>6, <2>9, <4>1 DEF RenamedOnDisk
    <3> QED
      BY <2>6, <2>10, <2>11, <2>12, <2>13, <3>1, <3>2 DEF MovedAt
  <2>15. ResolvedAt(g)' /\ WrittenAt(g)'
    BY <2>4 DEF ResolvedAt, WrittenAt
  <2> QED
    BY <2>2, <2>3, <2>14, <2>15, StepKeepsInv
<1>5. CASE ~CanRename(old, new)
  <2>1. /\ disk' = (IF CanMkdirAll(new) THEN WithParents(new) ELSE disk)
        /\ pc' = [pc EXCEPT ![g] = "reply"]
    BY <1>5 DEF RenameDisk, Goto, Respond
  <2>2. Ahead(g) = {}
    BY <1>1, <1>3, OwnFacts
  <2> QED
    BY <1>1, <1>2, <2>1, <2>2, ParentsStep
<1> QED
  BY <1>4, <1>5

\* The rows follow what was moved on disk.
LEMMA RenameRowsInv ==
    ASSUME BothStates, NEW g \in Handlers, RenameRows(g)
    PROVE  AgreeInv'
<1> DEFINE old == req[g].path
           new == req[g].to
<1>1. /\ HandlerTypeOK /\ StageInv /\ tainted \subseteq tainted' /\ MovedAt(g)
  BY DEF BothStates, AgreeInv, HandlersInv
<1>2. /\ pc[g] = "renameTx" /\ req' = req /\ resolved' = resolved /\ buf' = buf /\ disk' = disk
      /\ pc' = [pc EXCEPT ![g] = "reply"] /\ Carried(old, new) \subseteq tainted'
      /\ RenamePathTree(old, new)
  BY DEF RenameRows, Respond, Goto, Taint
<1>3. Own(g) = Tree(old) \cup Tree(new) /\ pc[g] \in InFlight
  BY <1>1, <1>2 DEF StageInv, Own, InFlight
<1>4. Tree(old) \subseteq Paths /\ Tree(new) \subseteq Paths
  BY DEF Tree
<1>5. ASSUME NEW q \in Paths, q \notin Own(g) PROVE Untouched(q)
  <2>1. q \notin Tree(old) /\ ~Arrives(old, new, q)
    BY <1>3, <1>5 DEF Arrives
  <2> QED
    BY <1>2, <2>1 DEF RenamePathTree, Untouched
<1>6. Moves(g, "reply")
  BY <1>2, <1>3, <1>5 DEF Moves
<1>7. ASSUME NEW q \in Own(g), q \notin tainted' PROVE Matches(meta'[q], disk'[q])
  <2>1. q \in Paths
    BY <1>3, <1>4
  <2>2. CASE q \in Tree(old)
    <3>1. meta'[q] = NoMeta
      BY <1>2, <2>1, <2>2 DEF RenamePathTree
    <3>2. disk[q].kind # "file"
      BY <1>1, <1>2, <1>7, <2>2 DEF MovedAt, Moving
    <3> QED
      BY <1>2, <3>1, <3>2 DEF Matches, NoMeta
  <2>3. CASE q \notin Tree(old) /\ Arrives(old, new, q) /\ meta[Source(old, new, q)].kind # "none"
    <3>1. meta'[q] = meta[Source(old, new, q)]
      BY <1>2, <2>1, <2>3 DEF RenamePathTree
    <3>2. Source(old, new, q) \notin tainted /\ q \in Tree(new)
      BY <1>2, <1>7, <2>1, <2>3 DEF Carried, Arrives
    <3>3. Matches(meta[Source(old, new, q)], disk[q])
      BY <1>1, <1>2, <1>7, <2>3, <3>2 DEF MovedAt, Moving
    <3> QED
      BY <1>2, <3>1, <3>3
  <2>4. CASE /\ q \notin Tree(old)
             /\ ~(Arrives(old, new, q) /\ meta[Source(old, new, q)].kind # "none")
    <3>1. meta'[q] = meta[q]
      BY <1>2, <2>1, <2>4 DEF RenamePathTree
    <3>2. meta[q].kind = "none"
      BY <1>1, <1>2, <1>3, <1>7, <2>4 DEF MovedAt, Moving
    <3>3. CASE ~Arrives(old, new, q)
      <4>1. disk[q].kind # "file"
        BY <1>1, <1>2, <1>3, <1>7, <2>4, <3>3 DEF MovedAt, Moving
      <4> QED
        BY <1>2, <3>1, <3>2, <4>1 DEF Matches
    <3>4. CASE Arrives(old, new, q)
      <4>1. Source(old, new, q) \notin tainted /\ q \in Tree(new)
        BY <1>2, <1>7, <2>1, <3>4 DEF Carried, Arrives
      <4>2. Matches(meta[Source(old, new, q)], disk[q])
        BY <1>1, <1>2, <1>7, <3>4, <4>1 DEF MovedAt, Moving
      <4> QED
        BY <1>2, <2>4, <3>1, <3>2, <3>4, <4>2 DEF Matches
    <3> QED
      BY <3>3, <3>4
  <2> QED
    BY <2>2, <2>3, <2>4
<1>8. pc'[g] = "reply" /\ "reply" \in Stages
  BY <1>1, <1>2 DEF HandlerTypeOK, Stages
<1>9. ResolvedAt(g)' /\ WrittenAt(g)' /\ MovedAt(g)'
  BY <1>8 DEF ResolvedAt, WrittenAt, MovedAt, Moving
<1>10. TreeShaped(disk')
  BY <1>2 DEF BothStates, AgreeInv, TreeShaped
<1> QED
  BY <1>6, <1>7, <1>8, <1>9, <1>10, StepKeepsInv

\* Moving everything back on disk restores what the rows say; if that fails,
\* both trees are tainted.
LEMMA RevertInv ==
    ASSUME BothStates, NEW g \in Handlers, Revert(g)
    PROVE  AgreeInv'
<1> DEFINE old == req[g].path
           new == req[g].to
<1>1. /\ HandlerTypeOK /\ StageInv /\ tainted \subseteq tainted' /\ MovedAt(g)
      /\ old \in Paths /\ new \in Paths
  BY RequestFields DEF BothStates, AgreeInv, HandlersInv, HandlerTypeOK
<1>2. /\ pc[g] = "revert" /\ req' = req /\ resolved' = resolved /\ buf' = buf
      /\ pc' = [pc EXCEPT ![g] = "reply"] /\ UNCHANGED <<meta, head, ver>>
  BY DEF Revert, Respond, Goto, dbVars
<1>3. Own(g) = Tree(old) \cup Tree(new) /\ pc[g] \in InFlight
  BY <1>1, <1>2 DEF StageInv, Own, InFlight
<1>4. CASE CanRename(new, old)
  <2>1. DiskRename(new, old) /\ Carried(new, old) \subseteq tainted'
    BY <1>4 DEF Revert, Taint
  <2>2. Own(g) = Tree(new) \cup Tree(old)
    BY <1>3
  <2>3. Moves(g, "reply") /\ TreeShaped(disk') /\ RenamedOnDisk(new, old)
    BY <1>1, <1>2, <1>3, <1>4, <2>1, <2>2, DiskRenameMoves
  <2>4. ASSUME NEW q \in Own(g), q \notin tainted' PROVE Matches(meta'[q], disk'[q])
    <3>1. CASE q \in Tree(new)
      <4>1. meta[q].kind = "none"
        BY <1>1, <1>2, <2>4, <3>1 DEF MovedAt, Moving
      <4>2. disk'[q].kind # "file"
        BY <2>3, <3>1 DEF RenamedOnDisk, Absent
      <4> QED
        BY <1>2, <4>1, <4>2 DEF Matches
    <3>2. CASE q \in Tree(old)
      <4> DEFINE t == Rebase(old, new, q)
      <4>1. q \in Paths /\ t = Source(new, old, q)
        BY <3>2 DEF Tree, Source
      <4>2. CASE t \in Paths
        <5>1. Arrives(old, new, t) /\ Source(old, new, t) = q
          BY <1>1, <3>2, <4>2, ImageOf
        <5>2. t \in Tree(new)
          BY <5>1 DEF Arrives
        <5>3. Arrives(new, old, q)
          BY <3>2, <4>1, <5>2 DEF Arrives
        <5>4. t \notin tainted
          BY <2>1, <2>4, <4>1, <5>3 DEF Carried
        <5>5. Matches(meta[q], disk[t])
          BY <1>1, <1>2, <2>4, <5>1, <5>2, <5>4 DEF MovedAt, Moving
        <5>6. disk'[q] = disk[t]
          BY <2>3, <3>2, <4>1, <5>3 DEF RenamedOnDisk
        <5> QED
          BY <1>2, <5>5, <5>6
      <4>3. CASE t \notin Paths
        <5>1. meta[q].kind = "none"
          BY <1>1, <1>2, <2>4, <3>2, <4>3 DEF MovedAt, Moving
        <5>2. q \notin Tree(new) /\ disk[q].kind # "file"
          BY <1>1, <1>2, <2>4, <3>2 DEF MovedAt, Moving
        <5>3. ~Arrives(new, old, q)
          BY <4>1, <4>3 DEF Arrives, Tree
        <5>4. disk'[q].kind # "file"
          BY <2>3, <4>1, <5>2, <5>3 DEF RenamedOnDisk
        <5> QED
          BY <1>2, <5>1, <5>4 DEF Matches
      <4> QED
        BY <4>2, <4>3
    <3> QED
      BY <1>3, <3>1, <3>2
  <2>5. pc'[g] = "reply" /\ "reply" \in Stages
    BY <1>1, <1>2 DEF HandlerTypeOK, Stages
  <2>6. ResolvedAt(g)' /\ WrittenAt(g)' /\ MovedAt(g)'
    BY <2>5 DEF ResolvedAt, WrittenAt, MovedAt, Moving
  <2> QED
    BY <2>3, <2>4, <2>5, <2>6, StepKeepsInv
<1>5. CASE ~CanRename(new, old)
  <2>1. disk' = (IF CanMkdirAll(old) THEN WithParents(old) ELSE disk)
    BY <1>5 DEF Revert
  <2>2. Tree(old) \cup Tree(new) \subseteq tainted'
    BY <1>5 DEF Revert, Taint
  <2>3. Ahead(g) \subseteq tainted'
    BY <1>1, <1>3, <2>2, OwnFacts
  <2> QED
    BY <1>1, <1>2, <2>1, <2>3, ParentsStep
<1> QED
  BY <1>4, <1>5

-----------------------------------------------------------------------------
(* Theorems *)

\* A root without requests agrees with the rows of its database.
LEMMA InitAgreeInv == Init => AgreeInv
<1> SUFFICES ASSUME Init PROVE AgreeInv
  OBVIOUS
<1>1. \A h \in Handlers : pc[h] = "idle"
  BY DEF Init
<1>2. StageInv /\ HandlersInv
  BY <1>1 DEF StageInv, HandlersInv, ResolvedAt, WrittenAt, MovedAt, Moving
<1>3. Raced \subseteq tainted
  BY <1>1 DEF Raced, Moving
<1>4. \A p \in Paths : meta[p].kind # "dir"
  <2>1. PICK legacy : meta = [p \in Paths |-> IF p \in legacy THEN FileMeta(EmptyContent, 1) ELSE NoMeta]
    BY DEF Init, DBInit
  <2>2. FileMeta(EmptyContent, 1).kind # "dir" /\ NoMeta.kind # "dir"
    BY DEF NoMeta, FileMeta
  <2> QED
    BY <2>1, <2>2
<1>5. DiskMatchesDatabase
  <2>1. \A p \in Paths : Explained(p)
    BY DEF Init, Explained, Strays, Absent, Dir, File
  <2> QED
    BY <1>4, <2>1 DEF Init, DiskMatchesDatabase, Agrees
<1>6. TreeShaped(disk)
  BY DEF Init
<1> QED
  BY <1>2, <1>3, <1>5, <1>6 DEF AgreeInv

\* Every step keeps the invariant.
LEMMA NextAgreeInv ==
    ASSUME ServiceInv, AgreeInv, [Next]_vars
    PROVE  AgreeInv'
<1>1. DBInv /\ HandlerTypeOK /\ LockInv
  BY DEF ServiceInv
<1>2. BothStates
  <2>1. HandlerTypeOK' /\ LockInv'
    BY <1>1, NextHandlerType, NextLockInv
  <2>2. StageInv'
    BY <1>1, NextStageInv DEF AgreeInv
  <2>3. tainted \subseteq tainted' /\ Raced' \subseteq tainted'
    BY NextTaints DEF AgreeInv
  <2> QED
    BY <1>1, <2>1, <2>2, <2>3 DEF BothStates
<1>3. ASSUME NEW h \in Handlers, Write(h) PROVE AgreeInv'
  BY <1>1, <1>2, <1>3, ResolveLatestInv, ResolveMetaInv, ResolveStatInv, ConflictInv, QuietInv,
     WriteDiskInv, ReadBackInv, RecordInv DEF Write
<1>4. ASSUME NEW h \in Handlers, Delete(h) \/ Mkdir(h) PROVE AgreeInv'
  BY <1>1, <1>2, <1>4, RemoveDiskInv, MkdirDiskInv, RecordInv DEF Delete, Mkdir
<1>5. ASSUME NEW h \in Handlers, Rename(h) PROVE AgreeInv'
  BY <1>1, <1>2, <1>5, RenameDiskInv, RenameRowsInv, ToRevertInv, RevertInv DEF Rename
<1>6. ASSUME NEW h \in Handlers, Failure(h) PROVE AgreeInv'
  BY <1>2, <1>6, QuietInv, WriteDiskFailsInv, ToRevertInv DEF Failure
<1> QED
  BY <1>2, <1>3, <1>4, <1>5, <1>6, QuietInv, CrashInv, StillInv DEF Next, Step

\* The invariant holds in every reachable state.
THEOREM AgreeInvariant == Spec => [](ServiceInv /\ AgreeInv)
<1>1. ServiceInv /\ AgreeInv /\ [Next]_vars => AgreeInv'
  BY NextAgreeInv
<1> QED
  BY <1>1, InitAgreeInv, ServiceInvariant, PTL DEF Spec

\* With any number of handlers, requests, failures and crashes, and any tree of
\* paths, disk and database part only on the paths that the history variable
\* accounts for.
THEOREM DiskAndDatabaseAgree == Spec => []DiskMatchesDatabase
<1>1. AgreeInv => DiskMatchesDatabase
  BY DEF AgreeInv
<1> QED
  BY <1>1, AgreeInvariant, PTL

\* No update is lost between the check of a write's base version and the
\* transaction that records it, although no transaction spans them.
THEOREM NoLostUpdate == Spec => []BaseStillCurrentAtCommit
<1>1. AgreeInv => BaseStillCurrentAtCommit
  BY DEF AgreeInv, HandlersInv, ResolvedAt, BaseStillCurrentAtCommit
<1> QED
  BY <1>1, AgreeInvariant, PTL

\* Only a conflict, a skipped write and a recorded one answer with a copy or
\* with the version of a write.
Plain(h) == {Error, Ok(0), Conflicted(resolved[h].version, FALSE)}
LEMMA WhoResponds ==
    ASSUME HandlerTypeOK, [Next]_vars, NEW h \in Handlers, Responds(h)
    PROVE  reply'[h] \in Plain(h) \/ Conflict(h) \/ SkipWrite(h) \/ Commit(h)
<1> DEFINE Goal == reply'[h] \in Plain(h) \/ Conflict(h) \/ SkipWrite(h) \/ Commit(h)
<1>0. {Error, Ok(0)} \subseteq Plain(h)
  BY DEF Plain
<1>1. pc'[h] # pc[h] /\ pc'[h] = "reply" /\ reply \in [Handlers -> Reply] /\ pc \in [Handlers -> Stages]
  BY DEF Responds, HandlerTypeOK
<1>2. ASSUME NEW g \in Handlers, NEW s, Goto(g, s) PROVE g = h /\ s = "reply"
  BY <1>1, <1>2 DEF Goto
<1>3. ASSUME NEW g \in Handlers, NEW r, Respond(g, r) PROVE g = h /\ reply'[h] = r
  BY <1>1, <1>2, <1>3 DEF Respond
<1>4. ASSUME NEW g \in Handlers, NEW r \in Requests, Begin(g, r) PROVE Goal
  BY <1>0, <1>2, <1>3, <1>4 DEF Begin
<1>5. ASSUME NEW g \in Handlers, Acquire(g) PROVE FALSE
  <2>1. req[g].op \in Ops
    BY RequestFields DEF HandlerTypeOK
  <2>2. FirstStage(req[g].op) # "reply"
    BY <2>1 DEF FirstStage, Ops, Writes
  <2> QED
    BY <1>1, <1>2, <1>5, <2>2 DEF Acquire
<1>6. ASSUME NEW g \in Handlers, Finish(g) PROVE FALSE
  BY <1>2, <1>6 DEF Finish
<1>7. ASSUME NEW g \in Handlers, Write(g) PROVE Goal
  <2>1. CASE ResolveLatest(g) \/ ResolveMeta(g) \/ ResolveStat(g)
    BY <1>2, <2>1 DEF ResolveLatest, ResolveMeta, ResolveStat
  <2>2. CASE Conflict(g) \/ SkipWrite(g) \/ Commit(g)
    <3>1. g = h
      BY <1>3, <2>2 DEF Conflict, SkipWrite, Commit
    <3> QED
      BY <2>2, <3>1
  <2>3. CASE WriteDisk(g)
    BY <1>0, <1>2, <1>3, <2>3 DEF WriteDisk
  <2>4. CASE ReadBack(g)
    BY <1>0, <1>2, <1>3, <2>4 DEF ReadBack
  <2> QED
    BY <1>7, <2>1, <2>2, <2>3, <2>4 DEF Write
<1>8. ASSUME NEW g \in Handlers, Delete(g) \/ Mkdir(g) PROVE Goal
  BY <1>0, <1>2, <1>3, <1>8 DEF Delete, RemoveDisk, CommitDelete, Mkdir, MkdirDisk, RecordDir
<1>9. ASSUME NEW g \in Handlers, Rename(g) PROVE Goal
  BY <1>0, <1>2, <1>3, <1>9 DEF Rename, RenameDisk, RenameRows, RenameRowsFails, Revert
<1>10. ASSUME NEW g \in Handlers, Failure(g) PROVE Goal
  <2>1. CASE StepFails(g)
    <3>1. \E r \in {Error, WithoutCopy(g)} : Respond(g, r)
      BY <2>1 DEF StepFails
    <3>2. WithoutCopy(h) \in Plain(h)
      BY DEF WithoutCopy, Plain
    <3> QED
      BY <1>0, <1>3, <3>1, <3>2
  <2>2. CASE WriteDiskFails(g) \/ CommitFails(g) \/ RenameTxFails(g)
    BY <1>0, <1>2, <1>3, <2>2 DEF WriteDiskFails, CommitFails, RenameTxFails
  <2> QED
    BY <1>10, <2>1, <2>2 DEF Failure
<1>11. CASE Crash
  BY <1>1, <1>11 DEF Crash
<1>12. CASE (\E p \in Paths : DropOldestCopy(p)) \/ Quiescent \/ UNCHANGED vars
  BY <1>1, <1>12 DEF DropOldestCopy, Quiescent, vars, handlerVars
<1> QED
  BY <1>4, <1>5, <1>6, <1>7, <1>8, <1>9, <1>10, <1>11, <1>12 DEF Next, Step

\* A write is acknowledged with a version only when the disk holds it, whether
\* it was recorded or found to be there already.
THEOREM AcknowledgedWritesAreOnDisk == Spec => AcknowledgedIsOnDisk
<1> DEFINE Ack == \A h \in Handlers :
                    LET r == req[h]
                        e == disk'[r.path]
                    IN Responds(h) /\ reply'[h].kind = "ok" /\ reply'[h].version # 0
                         /\ r.path \notin tainted' =>
                       /\ e.kind = "file"
                       /\ r.op = "write" => e.data = r.data
                       /\ r.op = "resize" => Len(e.data) = r.size
<1>1. ASSUME ServiceInv, AgreeInv, [Next]_vars PROVE Ack
  <2> SUFFICES ASSUME NEW h \in Handlers, Responds(h), reply'[h].kind = "ok",
                      reply'[h].version # 0, req[h].path \notin tainted'
               PROVE  /\ disk'[req[h].path].kind = "file"
                      /\ req[h].op = "write" => disk'[req[h].path].data = req[h].data
                      /\ req[h].op = "resize" => Len(disk'[req[h].path].data) = req[h].size
    OBVIOUS
  <2>1. /\ HandlerTypeOK /\ tainted \subseteq tainted' /\ ResolvedAt(h) /\ WrittenAt(h)
        /\ reply \in [Handlers -> Reply]
    BY <1>1, NextTaints DEF ServiceInv, AgreeInv, HandlersInv, HandlerTypeOK
  <2>2. req[h].path \notin tainted
    BY <2>1
  <2>3. reply'[h] \notin Plain(h)
    BY DEF Plain, Error, Ok, Conflicted
  <2>4. CASE SkipWrite(h)
    <3>1. pc[h] = "decide" /\ AlreadyThere(h) /\ disk' = disk /\ reply'[h] = Ok(resolved[h].version)
      BY <2>1, <2>4 DEF SkipWrite, Respond
    <3>2. resolved[h].version # 0 /\ resolved[h].exists
      BY <3>1 DEF Ok, AlreadyThere
    <3>3. disk[req[h].path] = File(resolved[h].data)
      BY <2>1, <2>2, <3>1, <3>2 DEF ResolvedAt
    <3>4. \/ req[h].op = "write" /\ resolved[h].data = req[h].data
          \/ req[h].op = "resize" /\ Len(resolved[h].data) = req[h].size
      BY <3>1 DEF AlreadyThere
    <3> QED
      BY <3>1, <3>3, <3>4 DEF File
  <2>5. CASE Commit(h)
    <3>1. pc[h] = "commit" /\ disk' = disk
      BY <2>5 DEF Commit
    <3>2. /\ disk[req[h].path] = File(buf[h])
          /\ req[h].op = "write" => buf[h] = req[h].data
          /\ req[h].op = "resize" => Len(buf[h]) = req[h].size
      BY <2>1, <2>2, <3>1 DEF WrittenAt
    <3> QED
      BY <3>1, <3>2 DEF File
  <2>6. ~Conflict(h)
    <3> SUFFICES ASSUME Conflict(h) PROVE FALSE
      OBVIOUS
    <3>1. \E r \in {Error, Conflicted(resolved[h].version, TRUE),
                    Conflicted(resolved[h].version, FALSE)} : Respond(h, r)
      BY DEF Conflict, WithoutCopy
    <3>2. reply'[h] \in {Error, Conflicted(resolved[h].version, TRUE),
                         Conflicted(resolved[h].version, FALSE)}
      BY <2>1, <3>1 DEF Respond
    <3> QED
      BY <3>2 DEF Error, Conflicted
  <2> QED
    BY <1>1, <2>1, <2>3, <2>4, <2>5, <2>6, WhoResponds
<1>2. ServiceInv /\ AgreeInv /\ [Next]_vars => [Ack]_vars
  BY <1>1
<1>3. AcknowledgedIsOnDisk <=> [][Ack]_vars
  BY PTL DEF AcknowledgedIsOnDisk
<1> HIDE DEF Ack
<1> QED
  BY <1>2, <1>3, AgreeInvariant, PTL DEF Spec

\* The copy just written is the last one, trimmed or not.
LEMMA LastCopyStays ==
    ASSUME NEW s \in Seq(Contents), NEW c \in Contents
    PROVE  /\ Append(s, c) # << >> /\ Append(s, c)[Len(Append(s, c))] = c
           /\ Trim(Append(s, c)) # << >> /\ Trim(Append(s, c))[Len(Trim(Append(s, c)))] = c
<1> DEFINE t == Append(s, c)
<1>1. t \in Seq(Contents) /\ Len(t) \in Nat /\ Len(t) > 0 /\ t[Len(t)] = c /\ t # << >>
  BY AppendProperties, LenProperties
<1> HIDE DEF t
<1>2. Trim(t) # << >> /\ Trim(t)[Len(Trim(t))] = c
  <2>1. CASE MaxCopies > 0 /\ Len(t) > MaxCopies
    <3> DEFINE m == Len(t) - MaxCopies + 1
               u == SubSeq(t, m, Len(t))
    <3>1. MaxCopies \in Nat /\ m \in 1..Len(t)
      BY <1>1, <2>1, BoundsAssumption
    <3>2. Len(u) = MaxCopies /\ \A i \in 1..MaxCopies : u[i] = t[m + i - 1]
      BY <1>1, <2>1, <3>1, SubSeqProperties, SMTT(20)
    <3>3. u \in Seq(Contents) /\ Trim(t) = u
      BY <1>1, <2>1, <3>1, SubSeqProperties DEF Trim
    <3>4. u[MaxCopies] = t[m + MaxCopies - 1] /\ m + MaxCopies - 1 = Len(t)
      BY <1>1, <2>1, <3>1, <3>2
    <3> HIDE DEF u
    <3>5. u # << >>
      BY <2>1, <3>1, <3>2, <3>3, EmptySeq
    <3> QED
      BY <1>1, <3>2, <3>3, <3>4, <3>5
  <2>2. CASE ~(MaxCopies > 0 /\ Len(t) > MaxCopies)
    BY <1>1, <2>2 DEF Trim
  <2> QED
    BY <2>1, <2>2
<1> QED
  BY <1>1, <1>2 DEF t

\* A reply that names a conflict copy is given only when the copy is on disk: it
\* holds the client's data, as the newest of the path's copies, and neither file
\* nor tables have changed.  Replies that name none are not spoken of: a
\* range or size conflict gets one when the base version cannot be loaded or the
\* copy cannot be made (Conflict, StepFails), and the client's data is not kept.
THEOREM ConflictCopiesAreKept == Spec => ConflictCopyKept
<1> DEFINE Kept == \A h \in Handlers :
                     LET s == copies'[req[h].path]
                     IN Responds(h) /\ reply'[h].copied =>
                        /\ s # << >> /\ s[Len(s)] \in ConflictData(req[h])
                        /\ disk'[req[h].path] = disk[req[h].path]
                        /\ UNCHANGED dbVars
<1>1. ASSUME ServiceInv, [Next]_vars PROVE Kept
  <2> SUFFICES ASSUME NEW h \in Handlers, Responds(h), reply'[h].copied
               PROVE  /\ copies'[req[h].path] # << >>
                      /\ copies'[req[h].path][Len(copies'[req[h].path])] \in ConflictData(req[h])
                      /\ disk'[req[h].path] = disk[req[h].path]
                      /\ UNCHANGED dbVars
    OBVIOUS
  <2> DEFINE r == req[h]
             p == req[h].path
  <2>1. /\ HandlerTypeOK /\ DBInv /\ r \in Requests /\ p \in Paths
        /\ copies \in [Paths -> Seq(Contents)] /\ reply \in [Handlers -> Reply]
    BY <1>1, RequestFields DEF ServiceInv, HandlerTypeOK
  <2>2. \A v : ~Ok(v).copied
    BY DEF Ok
  <2>3. ~Error.copied /\ \A v : ~Conflicted(v, FALSE).copied
    BY DEF Error, Conflicted
  <2>4. ~SkipWrite(h) /\ ~Commit(h)
    BY <2>1, <2>2 DEF SkipWrite, Commit, Respond
  <2>5. Conflict(h)
    BY <1>1, <2>1, <2>2, <2>3, <2>4, WhoResponds DEF Plain
  <2>6. ConflictData(r) # {} /\ CanMkdirAll(p)
    BY <2>1, <2>3, <2>5 DEF Conflict, Respond, WithoutCopy
  <2>7. PICK c \in ConflictData(r) :
           copies' = [copies EXCEPT ![p] =
                        IF r.op = "write" THEN Trim(Append(@, c)) ELSE Append(@, c)]
    BY <2>5, <2>6 DEF Conflict
  <2>8. c \in Contents
    BY <2>1, <2>5, ConflictDataType DEF Conflict
  <2>9. copies'[p] = IF r.op = "write" THEN Trim(Append(copies[p], c)) ELSE Append(copies[p], c)
    BY <2>1, <2>7
  <2>10. copies'[p] # << >> /\ copies'[p][Len(copies'[p])] = c
    BY <2>1, <2>8, <2>9, LastCopyStays
  <2>11. disk' = WithParents(p) /\ UNCHANGED dbVars
    BY <2>5, <2>6 DEF Conflict
  <2>12. disk'[p] = disk[p]
    BY <2>1, <2>11 DEF WithParents, Ancestors
  <2> QED
    BY <2>10, <2>11, <2>12
<1>2. ServiceInv /\ [Next]_vars => [Kept]_vars
  BY <1>1
<1>3. ConflictCopyKept <=> [][Kept]_vars
  BY PTL DEF ConflictCopyKept
<1> HIDE DEF Kept
<1> QED
  BY <1>2, <1>3, ServiceInvariant, PTL DEF Spec

-----------------------------------------------------------------------------
(* The versioned register.  Every transaction is an operation on the       *)
(* registers of the paths that are not tainted, and every other step       *)
(* leaves those registers alone.                                           *)

\* The register of a path, lost once the path is tainted.
FileOf(p) == IF p \in tainted THEN LostRegister ELSE RegisterOf(p)

\* The registers of both states, and what the step proofs need of them.
Registers == [p \in Paths |-> FileOf(p)]
BothRegisters ==
    /\ DBInv /\ DBInv' /\ HandlerTypeOK /\ StageInv /\ HandlersInv
    /\ tainted \subseteq tainted'

\* A register that is recorded is not a lost one.
LEMMA NotLost == DBInv => \A p \in Paths : RegisterOf(p) # LostRegister
<1> SUFFICES ASSUME DBInv, NEW p \in Paths PROVE RegisterOf(p) # LostRegister
  OBVIOUS
<1>1. meta[p].kind \in {"none", "dir", "file"}
  BY DEF DBInv, Meta
<1>2. RegisterOf(p).state # "lost" /\ LostRegister.state = "lost"
  BY <1>1 DEF RegisterOf, LostRegister
<1> QED
  BY <1>2

\* The register depends on the rows of its path only.
LEMMA SameRegister ==
    ASSUME NEW p, meta'[p] = meta[p], head'[p] = head[p], ver'[p] = ver[p]
    PROVE  RegisterOf(p)' = RegisterOf(p)
<1>1. Cur(p)' = Cur(p)
  BY DEF Cur
<1> QED
  BY <1>1 DEF RegisterOf

\* It is enough to look at the paths that are not tainted after a step.
LEMMA BecomesIf ==
    ASSUME BothRegisters, NEW next,
           \A p \in Paths : p \notin tainted' => RegisterOf(p)' = next[p]
    PROVE  \A p \in Paths :
              FileOf(p)' = IF FileOf(p) = LostRegister \/ FileOf(p)' = LostRegister
                           THEN LostRegister ELSE next[p]
<1>1. /\ \A p \in Paths : RegisterOf(p) # LostRegister
      /\ \A p \in Paths : (RegisterOf(p) # LostRegister)'
  <2>1. DBInv' => (\A p \in Paths : RegisterOf(p) # LostRegister)'
    BY NotLost, PTL
  <2> QED
    BY <2>1, NotLost DEF BothRegisters
<1> QED
  BY <1>1 DEF FileOf, BothRegisters

\* A step that leaves the registers alone, except for some that are lost.
LEMMA PartIf ==
    ASSUME BothRegisters, \A p \in Paths : p \notin tainted' => RegisterOf(p)' = RegisterOf(p)
    PROVE  Register!Part
<1>1. \A p \in Paths : p \notin tainted' => RegisterOf(p)' = Registers[p]
  BY DEF Registers, FileOf, BothRegisters
<1>2. \A p \in Paths : FileOf(p)' = IF FileOf(p) = LostRegister \/ FileOf(p)' = LostRegister
                                     THEN LostRegister ELSE Registers[p]
  BY <1>1, BecomesIf
<1> QED
  BY <1>2 DEF Register!Part, Register!Becomes, Register!Lost, LostRegister, Registers, FileOf

\* One register changes, and its path is not tainted.
LEMMA OneBecomes ==
    ASSUME BothRegisters, NEW p \in Paths, p \notin tainted', NEW f,
           RegisterOf(p)' = f,
           \A q \in Paths \ {p} : RegisterOf(q)' = RegisterOf(q)
    PROVE  \A q \in Paths : FileOf(q)' = IF FileOf(q) = LostRegister \/ FileOf(q)' = LostRegister
                                          THEN LostRegister ELSE [Registers EXCEPT ![p] = f][q]
<1> DEFINE next == [Registers EXCEPT ![p] = f]
<1>1. \A q \in Paths : q \notin tainted' => RegisterOf(q)' = next[q]
  BY DEF Registers, FileOf, BothRegisters
<1> HIDE DEF next
<1>2. \A q \in Paths : FileOf(q)' = IF FileOf(q) = LostRegister \/ FileOf(q)' = LostRegister
                                     THEN LostRegister ELSE next[q]
  BY <1>1, BecomesIf
<1> QED
  BY <1>2 DEF next

\* Recording a write is a compare-and-swap.
LEMMA CommitIsWrite ==
    ASSUME BothRegisters, NEW h \in Handlers, Commit(h),
           NEW r \in Requests, r = req[h], r.path \notin tainted'
    PROVE  Register!AtomicWrite(r)
<1> DEFINE p == r.path
           f == [state |-> "file", data |-> buf[h], version |-> Cur(p) + 1]
<1>1. /\ p \in Paths /\ p \notin tainted /\ pc[h] = "commit" /\ r.op \in Writes
      /\ WrittenAt(h) /\ ResolvedAt(h)
      /\ meta \in [Paths -> Meta] /\ head \in [Paths -> 0..MaxVersion] /\ DOMAIN ver = Paths
  BY RequestFields DEF BothRegisters, HandlerTypeOK, StageInv, HandlersInv, Commit, DBInv
<1>2. /\ Cur(p) \in 0..MaxVersion /\ NextVersion(p) = Cur(p) + 1
      /\ Cur(p) = resolved[h].version /\ ~Stale(h) /\ MadeOf(r, meta[p], buf[h])
  BY <1>1, GoodAtCur DEF BothRegisters, NextVersion, WrittenAt, ResolvedAt
<1>3. /\ head' = [head EXCEPT ![p] = NextVersion(p)]
      /\ meta' = [meta EXCEPT ![p] = FileMeta(buf[h], NextVersion(p))]
      /\ \E x : ver' = [ver EXCEPT ![p] = x]
  BY DEF Commit, SaveFileSnapshot, InsertSnapshot
<1>4. \A q \in Paths \ {p} : RegisterOf(q)' = RegisterOf(q)
  <2>1. \A q \in Paths \ {p} : meta'[q] = meta[q] /\ head'[q] = head[q] /\ ver'[q] = ver[q]
    BY <1>1, <1>3
  <2> QED
    BY <2>1, SameRegister
<1>5. RegisterOf(p)' = f
  <2>1. head'[p] = Cur(p) + 1 /\ meta'[p] = FileMeta(buf[h], Cur(p) + 1)
    BY <1>1, <1>2, <1>3
  <2>2. Cur(p)' = Cur(p) + 1
    BY <1>2, <2>1, MaxVersionAssumption DEF Cur
  <2> QED
    BY <2>1, <2>2 DEF RegisterOf, FileMeta
<1>6. \A q \in Paths : FileOf(q)' = IF FileOf(q) = LostRegister \/ FileOf(q)' = LostRegister
                                     THEN LostRegister ELSE [Registers EXCEPT ![p] = f][q]
  <2> HIDE DEF f
  <2> QED
    BY <1>1, <1>4, <1>5, OneBecomes
<1>7. /\ Registers[p].data = meta[p].data /\ Registers[p].version = Cur(p)
      /\ Registers[p].state = "file" <=> meta[p].kind = "file"
      /\ Registers[p].state # "dir"
  BY <1>1, <1>2 DEF Registers, FileOf, RegisterOf, MadeOf
<1>8. meta[p].kind \in {"none", "file"}
  BY <1>1, <1>2 DEF Meta, MadeOf
<1>9. Register!Accepts(r)
  <2>1. r.base = 0 \/ Cur(p) = 0 \/ r.base = Cur(p)
    BY <1>2 DEF Stale
  <2> QED
    BY <1>1, <1>7, <2>1 DEF Register!Accepts, Registers, FileOf
<1>10. buf[h] \in Register!Outcomes(r)
  BY <1>1, <1>2, <1>7, <1>8 DEF Register!Outcomes, MadeOf, Registers, FileOf
<1> QED
  BY <1>1, <1>6, <1>7, <1>9, <1>10
  DEF Register!AtomicWrite, Register!Becomes, Register!Lost, LostRegister, Registers, FileOf, Writes

\* Recording a deletion ends the file; its history goes on.
LEMMA CommitDeleteIsDelete ==
    ASSUME BothRegisters, NEW h \in Handlers, CommitDelete(h),
           NEW r \in Requests, r = req[h], r.path \notin tainted'
    PROVE  Register!AtomicDelete(r)
<1> DEFINE p == r.path
           f == [state |-> "gone", data |-> EmptyContent, version |-> Cur(p) + 1]
<1>1. /\ p \in Paths /\ p \notin tainted /\ req[h].op = "delete"
      /\ meta \in [Paths -> Meta] /\ head \in [Paths -> 0..MaxVersion] /\ DOMAIN ver = Paths
  BY RequestFields DEF BothRegisters, HandlerTypeOK, StageInv, CommitDelete, DBInv
<1>2. Cur(p) \in 0..MaxVersion /\ NextVersion(p) = Cur(p) + 1
  BY <1>1, GoodAtCur DEF BothRegisters, NextVersion
<1>3. /\ head' = [head EXCEPT ![p] = NextVersion(p)]
      /\ meta' = [meta EXCEPT ![p] = NoMeta]
      /\ ver' = [ver EXCEPT ![p] = Merge(@, [w \in {NextVersion(p)} |-> DeleteRow])]
  BY DEF CommitDelete, AppendDeleteSnapshot, InsertSnapshot
<1>4. \A q \in Paths \ {p} : RegisterOf(q)' = RegisterOf(q)
  <2>1. \A q \in Paths \ {p} : meta'[q] = meta[q] /\ head'[q] = head[q] /\ ver'[q] = ver[q]
    BY <1>1, <1>3
  <2> QED
    BY <2>1, SameRegister
<1>5. RegisterOf(p)' = f
  <2>1. head'[p] = Cur(p) + 1 /\ meta'[p] = NoMeta
    BY <1>1, <1>2, <1>3
  <2>2. ver'[p] # NoRows
    <3>1. NextVersion(p) \in DOMAIN ver'[p]
      BY <1>1, <1>3 DEF Merge
    <3> QED
      BY <3>1 DEF NoRows
  <2>3. Cur(p)' = Cur(p) + 1
    BY <1>2, <1>3, <2>1, MaxVersionAssumption DEF Cur
  <2> QED
    BY <1>3, <2>1, <2>2, <2>3 DEF RegisterOf, NoMeta
<1>6. \A q \in Paths : FileOf(q)' = IF FileOf(q) = LostRegister \/ FileOf(q)' = LostRegister
                                     THEN LostRegister ELSE [Registers EXCEPT ![p] = f][q]
  <2> HIDE DEF f
  <2> QED
    BY <1>1, <1>4, <1>5, OneBecomes
<1>7. Registers[p].version = Cur(p)
  BY <1>1 DEF Registers, FileOf, RegisterOf
<1> QED
  BY <1>1, <1>6, <1>7
  DEF Register!AtomicDelete, Register!Becomes, Register!Lost, LostRegister, Registers, FileOf

\* Recording a directory makes the path one, and keeps its version.
LEMMA RecordDirIsMkdir ==
    ASSUME BothRegisters, NEW h \in Handlers, RecordDir(h),
           NEW r \in Requests, r = req[h], r.path \notin tainted'
    PROVE  Register!AtomicMkdir(r)
<1> DEFINE p == r.path
           f == [state |-> "dir", data |-> EmptyContent, version |-> Cur(p)]
<1>1. /\ p \in Paths /\ p \notin tainted /\ req[h].op = "mkdir"
      /\ meta \in [Paths -> Meta] /\ WrittenAt(h) /\ pc[h] = "setMeta"
  BY RequestFields DEF BothRegisters, HandlerTypeOK, HandlersInv, StageInv, RecordDir, DBInv
<1>2. meta[p].kind # "file"
  BY <1>1 DEF WrittenAt
<1>3. meta' = [meta EXCEPT ![p] = DirMeta] /\ head' = head /\ ver' = ver
  BY DEF RecordDir, SetDirMeta
<1>4. \A q \in Paths \ {p} : RegisterOf(q)' = RegisterOf(q)
  <2>1. \A q \in Paths \ {p} : meta'[q] = meta[q] /\ head'[q] = head[q] /\ ver'[q] = ver[q]
    BY <1>1, <1>3
  <2> QED
    BY <2>1, SameRegister
<1>5. RegisterOf(p)' = f
  <2>1. meta'[p] = DirMeta /\ DirMeta.version = 0
    BY <1>1, <1>3 DEF DirMeta
  <2>2. meta[p].version = 0
    BY <1>1, <1>2, GoodAtCur DEF BothRegisters, GoodAt
  <2>3. Cur(p)' = Cur(p)
    BY <1>3, <2>1, <2>2 DEF Cur
  <2> QED
    BY <1>3, <2>1, <2>3 DEF RegisterOf, DirMeta
<1>6. \A q \in Paths : FileOf(q)' = IF FileOf(q) = LostRegister \/ FileOf(q)' = LostRegister
                                     THEN LostRegister ELSE [Registers EXCEPT ![p] = f][q]
  <2> HIDE DEF f
  <2> QED
    BY <1>1, <1>4, <1>5, OneBecomes
<1>7. Registers[p].version = Cur(p) /\ Registers[p].state # "file"
  BY <1>1, <1>2 DEF Registers, FileOf, RegisterOf
<1> QED
  BY <1>1, <1>6, <1>7
  DEF Register!AtomicMkdir, Register!Becomes, Register!Lost, LostRegister, Registers, FileOf

\* The register that a path has after the rows of another one have joined its
\* own.
LEMMA MergedRegister ==
    ASSUME BothRegisters, NEW old \in Paths, NEW new \in Paths, RenamePathTree(old, new),
           NEW q \in Paths, q \notin Tree(old), Arrives(old, new, q)
    PROVE  LET s == Source(old, new, q) IN
           /\ Register!CanMove(RegisterOf(s), RegisterOf(q))
           /\ RegisterOf(q)' = Register!Moved(RegisterOf(s), RegisterOf(q))
<1> DEFINE s == Source(old, new, q)
           f == RegisterOf(s)
           g == RegisterOf(q)
<1> USE MaxVersionAssumption
<1>1. s \in Tree(old) /\ s \in Paths
  BY DEF Arrives, Tree
<1>2. Rebase(old, new, s) = q
  <2>1. Under(new, q)
    BY DEF Arrives, Tree
  <2> QED
    BY <2>1, RebaseBack, PathsAssumption DEF Source
<1>3. /\ meta'[q] = IF meta[s].kind # "none" THEN meta[s] ELSE meta[q]
      /\ head'[q] = IF head[s] # 0 THEN head[s] ELSE head[q]
      /\ ver'[q] = Merge(ver[q], ver[s])
  BY DEF RenamePathTree
<1> HIDE DEF s
<1>4. /\ meta[s].kind = "none" \/ meta[q].kind = "none"
      /\ head[s] = 0 \/ head[q] = 0
      /\ (DOMAIN ver[s]) \cap (DOMAIN ver[q]) = {}
  BY <1>1, <1>2 DEF RenamePathTree, KeyConflict
<1>5. /\ Cur(s) \in 0..MaxVersion /\ GoodAt(Cur(s), meta[s], head[s], ver[s])
      /\ Cur(q) \in 0..MaxVersion /\ GoodAt(Cur(q), meta[q], head[q], ver[q])
  BY <1>1, GoodAtCur DEF BothRegisters
<1>6. /\ Cur(q) = 0 \/ Cur(s) = 0
      /\ Cur(s) = 0 => ver'[q] = ver[q]
      /\ Cur(q) = 0 => ver'[q] = ver[s]
      /\ GoodAt(Cur(q) + Cur(s), meta'[q], head'[q], ver'[q])
  BY <1>3, <1>4, <1>5, MergeAt
<1>7. Cur(q)' = Cur(s) + Cur(q)
  <2>1. Cur(q)' = CurOf(meta'[q], head'[q], ver'[q])
    BY DEF Cur, CurOf
  <2>2. Cur(q) + Cur(s) \in 0..MaxVersion
    BY <1>5, <1>6
  <2>3. CurOf(meta'[q], head'[q], ver'[q]) = Cur(q) + Cur(s)
    BY <1>6, <2>2, GoodCur
  <2> QED
    BY <1>5, <2>1, <2>3
<1>8. /\ meta[s].kind \in {"none", "dir", "file"} /\ meta[q].kind \in {"none", "dir", "file"}
      /\ meta[s].kind = "none" => meta[s].data = EmptyContent
      /\ meta[q].kind = "none" => meta[q].data = EmptyContent
  BY <1>5 DEF GoodAt, Meta, NoMeta
<1>9. \A p \in {s, q} : Cur(p) = 0 <=> ver[p] = NoRows
  BY <1>5 DEF GoodAt, NoRows
<1>10. Register!CanMove(f, g)
  BY <1>4, <1>6, <1>8 DEF Register!CanMove, Register!Present, RegisterOf
<1>11. RegisterOf(q)'.version = f.version + g.version
  BY <1>7 DEF RegisterOf
<1>12. f.state \notin {"lost"} /\ f # Register!Lost
  BY <1>8 DEF RegisterOf, Register!Lost
<1> DEFINE stays == IF Register!Present(f) \/ g.state = "never" THEN f ELSE g
<1>13. RegisterOf(q)'.state = stays.state /\ RegisterOf(q)'.data = stays.data
  <2>1. CASE meta[s].kind # "none"
    BY <1>3, <1>8, <2>1 DEF RegisterOf, Register!Present
  <2>2. CASE meta[s].kind = "none" /\ meta[q].kind # "none"
    BY <1>3, <1>8, <2>2 DEF RegisterOf, Register!Present
  <2>3. CASE meta[s].kind = "none" /\ meta[q].kind = "none"
    <3>1. ver[q] = NoRows => ver'[q] = ver[s]
      BY <1>6, <1>9
    <3>2. ver[q] # NoRows => ver'[q] = ver[q]
      BY <1>6, <1>9
    <3>3. meta'[q] = meta[q]
      BY <1>3, <2>3
    <3> QED
      BY <1>8, <2>3, <3>1, <3>2, <3>3 DEF RegisterOf, Register!Present
  <2> QED
    BY <2>1, <2>2, <2>3
<1>14. RegisterOf(q)' = [state |-> stays.state, data |-> stays.data, version |-> f.version + g.version]
  <2>1. RegisterOf(q)' = [state |-> RegisterOf(q)'.state, data |-> RegisterOf(q)'.data,
                          version |-> RegisterOf(q)'.version]
    BY DEF RegisterOf
  <2> QED
    BY <1>11, <1>13, <2>1
<1>15. RegisterOf(q)' = Register!Moved(f, g)
  BY <1>12, <1>14 DEF Register!Moved
<1> QED
  BY <1>10, <1>15 DEF s

\* The rename transaction moves the registers of a tree at once.
LEMMA RenameRowsIsRename ==
    ASSUME BothRegisters, NEW h \in Handlers, RenameRows(h), NEW r \in Requests, r = req[h]
    PROVE  Register!AtomicRename(r)
<1> DEFINE old == r.path
           new == r.to
           From(q) == Registers[Source(old, new, q)]
           next == [q \in Paths |->
                      IF q \in Tree(old) THEN Register!Never
                      ELSE IF Arrives(old, new, q) THEN Register!Moved(From(q), Registers[q])
                      ELSE Registers[q]]
<1>1. old \in Paths /\ new \in Paths /\ r.op = "rename" /\ tainted \subseteq tainted'
  BY RequestFields DEF BothRegisters, HandlerTypeOK, StageInv, RenameRows
<1>2. RenamePathTree(old, new) /\ Carried(old, new) \subseteq tainted'
  BY DEF RenameRows, Taint
<1>3. Tree(old) \cap Tree(new) = {}
  BY <1>2 DEF RenamePathTree
<1>4. \A q \in Paths : Arrives(old, new, q) => q \notin Tree(old) /\ Source(old, new, q) \in Paths
  BY <1>3 DEF Arrives, Tree
<1>5. ASSUME NEW q \in Paths, Arrives(old, new, q), Source(old, new, q) \notin tainted, q \notin tainted
      PROVE  /\ Register!CanMove(From(q), Registers[q])
             /\ RegisterOf(q)' = Register!Moved(From(q), Registers[q])
  <2>1. From(q) = RegisterOf(Source(old, new, q)) /\ Registers[q] = RegisterOf(q)
    BY <1>4, <1>5 DEF Registers, FileOf
  <2> HIDE DEF old, new, From
  <2> QED
    BY <1>1, <1>2, <1>4, <1>5, <2>1, MergedRegister
<1>6. ASSUME NEW q \in Paths, Arrives(old, new, q)
      PROVE  LostRegister \in {From(q), Registers[q]} \/ Register!CanMove(From(q), Registers[q])
  <2>1. CASE Source(old, new, q) \in tainted \/ q \in tainted
    BY <1>4, <1>6, <2>1 DEF Registers, FileOf
  <2> QED
    BY <1>5, <1>6, <2>1
<1>7. ASSUME NEW q \in Paths, q \notin tainted' PROVE RegisterOf(q)' = next[q]
  <2>1. CASE q \in Tree(old)
    <3>1. meta'[q] = NoMeta /\ head'[q] = 0 /\ ver'[q] = NoRows
      BY <1>2, <2>1 DEF RenamePathTree
    <3>2. Cur(q)' = 0
      <4>1. Cur(q)' = CurOf(meta'[q], head'[q], ver'[q])
        BY DEF Cur, CurOf
      <4> QED
        BY <3>1, <4>1, GoodEmpty, GoodCur, MaxVersionAssumption
    <3> QED
      BY <2>1, <3>1, <3>2 DEF RegisterOf, NoMeta, Register!Never
  <2>2. CASE Arrives(old, new, q)
    <3>1. Source(old, new, q) \notin tainted /\ q \notin tainted
      BY <1>1, <1>2, <1>7, <2>2 DEF Carried
    <3> QED
      BY <1>4, <1>5, <2>2, <3>1
  <2>3. CASE q \notin Tree(old) /\ ~Arrives(old, new, q)
    <3>1. meta'[q] = meta[q] /\ head'[q] = head[q] /\ ver'[q] = ver[q]
      BY <1>2, <2>3 DEF RenamePathTree
    <3>2. RegisterOf(q)' = RegisterOf(q) /\ q \notin tainted
      BY <1>1, <1>7, <3>1, SameRegister
    <3> QED
      BY <2>3, <3>2 DEF Registers, FileOf
  <2> QED
    BY <2>1, <2>2, <2>3
<1>8. \A q \in Paths : FileOf(q)' = IF FileOf(q) = LostRegister \/ FileOf(q)' = LostRegister
                                     THEN LostRegister ELSE next[q]
  <2> HIDE DEF next
  <2> QED
    BY <1>7, BecomesIf
<1>9. /\ \A p : Register!Tree(p) = Tree(p)
      /\ \A a, b, q : Register!Source(a, b, q) = Source(a, b, q)
      /\ \A a, b, q : Register!Arrives(a, b, q) <=> Arrives(a, b, q)
  BY DEF Register!Tree, Register!Source, Register!Arrives, Register!Under, Register!Rebase,
         Tree, Source, Arrives, Under, Rebase
<1> QED
  BY <1>1, <1>3, <1>6, <1>8, <1>9
  DEF Register!AtomicRename, Register!Becomes, Register!Lost, LostRegister, Registers, FileOf

\* A database of any age is a map of registers.
LEMMA InitRegisters == Init => Register!RegisterInit
<1> SUFFICES ASSUME Init PROVE Register!RegisterInit
  OBVIOUS
<1> USE MaxVersionAssumption
<1>1. DBInv /\ tainted = {}
  BY InitDBInv DEF Init
<1>2. PICK legacy \in SUBSET Paths :
        /\ MaxVersion = 0 => legacy = {}
        /\ meta = [p \in Paths |-> IF p \in legacy THEN FileMeta(EmptyContent, 1) ELSE NoMeta]
        /\ ver = [p \in Paths |-> IF p \in legacy THEN [v \in {1} |-> LegacyRow] ELSE NoRows]
  BY DEF Init, DBInit
<1>3. ASSUME NEW p \in Paths
      PROVE  FileOf(p) \in [state : {"never", "file"}, data : {EmptyContent}, version : {0, 1}]
  <2>1. DOMAIN ver[p] = 1..Cur(p) /\ Cur(p) \in 0..MaxVersion
    BY <1>1, GoodAtCur DEF GoodAt
  <2>2. CASE p \in legacy
    <3>1. meta[p] = FileMeta(EmptyContent, 1) /\ DOMAIN ver[p] = {1}
      BY <1>2, <2>2
    <3>2. 1 \in 1..Cur(p) /\ \A v \in 1..Cur(p) : v = 1
      BY <2>1, <3>1
    <3>3. Cur(p) = 1
      BY <2>1, <3>2
    <3> QED
      BY <1>1, <3>1, <3>3 DEF FileOf, RegisterOf, FileMeta
  <2>3. CASE p \notin legacy
    <3>1. meta[p] = NoMeta /\ ver[p] = NoRows
      BY <1>2, <2>3
    <3>2. Cur(p) = 0
      BY <2>1, <3>1 DEF NoRows
    <3> QED
      BY <1>1, <3>1, <3>2 DEF FileOf, RegisterOf, NoMeta
  <2> QED
    BY <2>2, <2>3
<1> QED
  BY <1>3 DEF Register!RegisterInit, FileOf

\* Every step is an operation on the registers, or parts disk and database on
\* some paths.
LEMMA NextRegisters ==
    ASSUME ServiceInv, ServiceInv', AgreeInv, [Next]_vars
    PROVE  Register!RegisterNext
<1>1. BothRegisters
  <2>1. tainted \subseteq tainted'
    BY NextTaints DEF AgreeInv
  <2> QED
    BY <2>1 DEF BothRegisters, ServiceInv, AgreeInv
<1>2. \A h \in Handlers : \E r \in Requests : r = req[h]
  BY <1>1 DEF BothRegisters, HandlerTypeOK
<1>3. CASE UNCHANGED dbVars
  <2>1. \A p \in Paths : RegisterOf(p)' = RegisterOf(p)
    BY <1>3, SameRegister DEF dbVars
  <2> QED
    BY <1>1, <2>1, PartIf DEF Register!RegisterNext
<1>4. ASSUME NEW h \in Handlers, Commit(h) \/ CommitDelete(h) \/ RecordDir(h)
      PROVE  Register!RegisterNext
  <2> PICK r \in Requests : r = req[h]
    BY <1>2
  <2>1. CASE r.path \notin tainted'
    BY <1>1, <1>4, <2>1, CommitIsWrite, CommitDeleteIsDelete, RecordDirIsMkdir
    DEF Register!RegisterNext
  <2>2. CASE r.path \in tainted'
    <3>1. \A q \in Paths \ {r.path} : meta'[q] = meta[q] /\ head'[q] = head[q] /\ ver'[q] = ver[q]
      <4>1. meta \in [Paths -> Meta] /\ head \in [Paths -> 0..MaxVersion] /\ DOMAIN ver = Paths
        BY <1>1 DEF BothRegisters, DBInv
      <4> QED
        BY <1>4, <4>1 DEF Commit, SaveFileSnapshot, CommitDelete, AppendDeleteSnapshot,
                          InsertSnapshot, RecordDir, SetDirMeta
    <3>2. \A q \in Paths : q \notin tainted' => RegisterOf(q)' = RegisterOf(q)
      BY <2>2, <3>1, SameRegister
    <3> QED
      BY <1>1, <3>2, PartIf DEF Register!RegisterNext
  <2> QED
    BY <2>1, <2>2
<1>5. ASSUME NEW h \in Handlers, RenameRows(h) PROVE Register!RegisterNext
  BY <1>1, <1>2, <1>5, RenameRowsIsRename DEF Register!RegisterNext
<1>6. ASSUME NEW h \in Handlers,
             Step(h), ~Commit(h), ~CommitDelete(h), ~RecordDir(h), ~RenameRows(h)
      PROVE  UNCHANGED dbVars
  <2>1. CASE Write(h)
    BY <1>6, <2>1 DEF Write, ResolveLatest, ResolveMeta, ResolveStat, Conflict, SkipWrite,
                      WriteDisk, ReadBack, dbVars
  <2>2. CASE ~Write(h)
    BY <1>6, <2>2 DEF Step, Delete, RemoveDisk, Rename, RenameDisk, RenameRowsFails, Revert,
                      Mkdir, MkdirDisk, Finish, dbVars
  <2> QED
    BY <2>1, <2>2
<1>7. ASSUME NEW h \in Handlers, (\E r \in Requests : Begin(h, r)) \/ Acquire(h) \/ Failure(h)
      PROVE  UNCHANGED dbVars
  BY <1>7 DEF Begin, Acquire, Failure, StepFails, WriteDiskFails, CommitFails, RenameTxFails, dbVars
<1>8. Crash \/ (\E p \in Paths : DropOldestCopy(p)) \/ Quiescent \/ UNCHANGED vars => UNCHANGED dbVars
  BY DEF Crash, DropOldestCopy, Quiescent, vars, dbVars
<1> QED
  BY <1>3, <1>4, <1>5, <1>6, <1>7, <1>8 DEF Next

\* Whatever the handlers, requests, failures and crashes, each file is a
\* versioned register: a recorded write is one compare-and-swap on the content
\* and the version recorded before it, a rename moves a whole tree at once, and
\* only the paths that the history variable accounts for are let go of.
THEOREM ServicesAreRegisters == Spec => ImplementsRegister
<1>1. ServiceInv /\ ServiceInv' /\ AgreeInv /\ [Next]_vars =>
        [Register!RegisterNext]_([p \in Paths |-> IF p \in tainted THEN LostRegister ELSE RegisterOf(p)])
  BY NextRegisters
<1>2. Init => Register!RegisterInit
  BY InitRegisters
<1> QED
  BY <1>1, <1>2, AgreeInvariant, PTL DEF Spec, ImplementsRegister, Register!RegisterSpec
=============================================================================
