------------------------------ MODULE PathTree ------------------------------
(***************************************************************************)
(* Project paths, and what a rename of a path does to the paths beneath it *)
(* (path LIKE old/% and the new prefix put in front of the rest).          *)
(***************************************************************************)
EXTENDS Integers, Sequences

CONSTANT Paths   \* normalised project paths, as sequences of names

ASSUME PathsAssumption == Paths \subseteq Seq(STRING) \ {<< >>}

\* q is p, or lies beneath the directory p.
Under(p, q) == Len(p) <= Len(q) /\ SubSeq(q, 1, Len(p)) = p
Tree(p) == {q \in Paths : Under(p, q)}

\* The path q beneath `from', moved beneath `to'.
Rebase(from, to, q) == to \o SubSeq(q, Len(from) + 1, Len(q))

\* Where what ends up at path q comes from.
Source(old, new, q) == Rebase(new, old, q)
Arrives(old, new, q) == q \in Tree(new) /\ Source(old, new, q) \in Tree(old)
=============================================================================
