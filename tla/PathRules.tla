----------------------------- MODULE PathRules -----------------------------
(***************************************************************************)
(* fs/path.go: how the path of a request becomes a path below the root.    *)
(* A path is a sequence of components, as strings.Split on the separator   *)
(* gives them: "" between two separators, "." and ".." as written.  The    *)
(* root is an absolute path.  Symbolic links are not looked at.  What is   *)
(* absolute is decided as on systems without drive letters.                *)
(***************************************************************************)
EXTENDS Integers, Sequences

\* filepath.Clean: components that say nothing go, ".." takes the one before it
\* along if there is one; an absolute path cannot climb above "/".
Clean(abs, path) ==
    LET Step(done, c) ==
            CASE c \in {"", "."} -> done
              [] c = ".." /\ (done = << >> \/ done[Len(done)] = "..") ->
                    IF abs THEN done ELSE Append(done, c)
              [] c = ".." /\ done # << >> /\ done[Len(done)] # ".." -> SubSeq(done, 1, Len(done) - 1)
              [] OTHER -> Append(done, c)
        cleaned[i \in 0..Len(path)] == IF i = 0 THEN << >> ELSE Step(cleaned[i - 1], path[i])
    IN  cleaned[Len(path)]

\* filepath.Rel of two clean absolute paths.
Rel(base, target) ==
    LET common == CHOOSE k \in 0..Len(base) :
            /\ k <= Len(target) /\ SubSeq(base, 1, k) = SubSeq(target, 1, k)
            /\ k = Len(base) \/ k = Len(target) \/ base[k + 1] # target[k + 1]
    IN  [i \in 1..(Len(base) - common) |-> ".."] \o SubSeq(target, common + 1, Len(target))

Rejected == [ok |-> FALSE, path |-> << >>]
Accepted(path) == [ok |-> TRUE, path |-> path]

Escapes(path) == path # << >> /\ path[1] = ".."

\* Mutant: the path is looked at before it is cleaned.
NormalizeUncleaned(abs, path) ==
    IF abs /\ path # << >> THEN Rejected
    ELSE IF Escapes(path) THEN Rejected ELSE Accepted(path)

\* NormalizeRelativePath: << >> stands for ".".
NormalizeRelativePath(abs, path) ==
    IF abs /\ path # << >> THEN Rejected
    ELSE IF Escapes(Clean(FALSE, path)) THEN Rejected ELSE Accepted(Clean(FALSE, path))

\* IsWithinRoot.
IsWithinRoot(root, candidate) == ~Escapes(Rel(Clean(TRUE, root), Clean(TRUE, candidate)))

\* ResolvePath.
ResolvePath(root, abs, path) ==
    LET clean == NormalizeRelativePath(abs, path)
        full == Clean(TRUE, root \o clean.path)
    IN  IF clean.ok /\ IsWithinRoot(root, full) THEN Accepted(full) ELSE Rejected

\* NormalizeProjectPath, the form under which every handler locks, records and
\* looks up a path.
NormalizeProjectPath(root, abs, path) ==
    LET full == ResolvePath(root, abs, path) IN
    IF full.ok THEN NormalizeRelativePath(FALSE, Rel(Clean(TRUE, root), full.path)) ELSE Rejected

-----------------------------------------------------------------------------
\* Reference: walking a path from the root, one component at a time.
Walk(path, i) ==
    LET place[n \in 0..Len(path)] ==
            IF n = 0 THEN << >>
            ELSE IF path[n] \in {"", "."} THEN place[n - 1]
            ELSE IF path[n] = ".." THEN SubSeq(place[n - 1], 1, Len(place[n - 1]) - 1)
            ELSE Append(place[n - 1], path[n])
    IN  place[i]

\* A path is accepted exactly if walking it never leaves the root, and then the
\* result is the place the walk ends at: every spelling of a place has one form,
\* so that two requests for a file meet at the same lock and the same rows
\* (NormalizeProjectPath, ResolvePath, IsWithinRoot).  Names that differ are
\* different files here; where the file system folds their case a file has as
\* many forms as spellings.
OneFormPerPlace(root, abs, path) ==
    LET result == NormalizeProjectPath(root, abs, path)
        Stays == \A i \in 1..Len(path) : path[i] = ".." => Walk(path, i - 1) # << >>
    IN  /\ result.ok <=> (abs => path = << >>) /\ Stays
        /\ result.ok => /\ result.path = Walk(path, Len(path))
                        /\ NormalizeProjectPath(root, FALSE, result.path) = result
                        /\ ResolvePath(root, abs, path).path = Clean(TRUE, root) \o result.path
=============================================================================
