---------------------------- MODULE FiniteFacts -----------------------------
(***************************************************************************)
(* Facts about numbers and finite sets on which the proofs of several      *)
(* components rest: least numbers, induction, sums over a set and the      *)
(* ranks of an order.                                                      *)
(*                                                                         *)
(* Induction is stated for a set of numbers, or a set of subsets, in place *)
(* of a predicate: the provers can instantiate a set.                      *)
(***************************************************************************)
EXTENDS Integers, FiniteSetsExt, FiniteSetTheorems, WellFoundedInduction, TLAPS

\* Every non-empty set of naturals has a least element.
LEMMA LeastNat ==
    ASSUME NEW T, T \subseteq Nat, T # {}
    PROVE  \E x \in T : \A y \in T : x <= y
<1> DEFINE R == OpToRel(<, Nat)
<1>1. IsWellFoundedOn(R, Nat)
  BY NatLessThanWellFounded
<1>2. ASSUME NEW x \in T, NEW y \in T PROVE ~ (<<y, x>> \in R) => x <= y
  BY DEF OpToRel
<1> HIDE DEF R
<1>3. PICK x \in T : \A y \in T : ~ (<<y, x>> \in R)
  BY <1>1, WFMin
<1> QED
  BY <1>2, <1>3

\* Induction over the subsets of a finite set, for a set F of subsets.
LEMMA SubsetInduction ==
    ASSUME NEW U, IsFiniteSet(U), NEW F,
           \A T \in SUBSET U : (\A V \in (SUBSET T) \ {T} : V \in F) => T \in F
    PROVE  \A T \in SUBSET U : T \in F
<1> DEFINE R == StrictSubsetOrdering(U)
           D == FiniteSubsetsOf(U)
           B == {T \in SUBSET U : T \notin F}
<1>1. IsWellFoundedOn(R, D)
  BY FS_StrictSubsetOrderingWellFounded
<1>2. B \subseteq D
  BY FS_Subset DEF FiniteSubsetsOf
<1>3. ASSUME NEW T \in SUBSET U, NEW V \in (SUBSET T) \ {T} PROVE <<V, T>> \in R
  BY DEF StrictSubsetOrdering
<1> HIDE DEF R, D
<1> SUFFICES ASSUME B # {} PROVE FALSE
  OBVIOUS
<1> HIDE DEF B
<1>4. PICK T \in B : \A V \in B : ~ (<<V, T>> \in R)
  BY <1>1, <1>2, WFMin
<1>5. T \in SUBSET U /\ T \notin F
  BY DEF B
<1>6. ASSUME NEW V \in (SUBSET T) \ {T} PROVE V \in F
  <2>1. V \in SUBSET U /\ <<V, T>> \in R
    BY <1>3, <1>5
  <2>2. V \notin B
    BY <1>4, <2>1
  <2> QED
    BY <2>1, <2>2 DEF B
<1> QED
  BY <1>5, <1>6

-----------------------------------------------------------------------------
(* Sums *)

\* The element that a fold over a set takes first, and what it makes of the
\* function it computes.
Pick(s) == CHOOSE x \in s : TRUE
IsIter(w, S, it) ==
    it = [s \in SUBSET S |-> IF s = {} THEN 0 ELSE w[Pick(s)] + it[s \ {Pick(s)}]]

\* The sum is the value of such a function.
LEMMA SumUnfold ==
    ASSUME NEW w, NEW S
    PROVE  SumFunctionOnSet(w, S) = (CHOOSE it : IsIter(w, S, it))[S]
BY DEF SumFunctionOnSet, FoldFunctionOnSet, MapThenFoldSet, IsIter, Pick

LEMMA PickIn == \A s : s # {} => Pick(s) \in s
BY DEF Pick

\* Two of these functions agree where both are defined.
LEMMA IterAgree ==
    ASSUME NEW w, NEW S, NEW T, NEW a, NEW b, IsFiniteSet(S), IsIter(w, S, a), IsIter(w, T, b), S \subseteq T
    PROVE  \A s \in SUBSET S : a[s] = b[s]
<1> DEFINE F == {s \in SUBSET S : a[s] = b[s]}
<1>1. ASSUME NEW s \in SUBSET S, \A v \in (SUBSET s) \ {s} : v \in F PROVE s \in F
  <2>1. a[s] = IF s = {} THEN 0 ELSE w[Pick(s)] + a[s \ {Pick(s)}]
    BY Zenon DEF IsIter
  <2>2. s \in SUBSET T /\ b[s] = IF s = {} THEN 0 ELSE w[Pick(s)] + b[s \ {Pick(s)}]
    BY Zenon DEF IsIter
  <2>3. s # {} => s \ {Pick(s)} \in F
    BY <1>1, PickIn
  <2> QED
    BY <2>1, <2>2, <2>3
<1> HIDE DEF F
<1>2. \A s \in SUBSET S : s \in F
  BY <1>1, SubsetInduction
<1> QED
  BY <1>2 DEF F

\* Over a finite set there is one.
LEMMA IterExists ==
    ASSUME NEW w, NEW S, IsFiniteSet(S)
    PROVE  \E it : IsIter(w, S, it)
<1> DEFINE F == {T \in SUBSET S : \E it : IsIter(w, T, it)}
<1>1. ASSUME NEW T \in SUBSET S, \A V \in (SUBSET T) \ {T} : V \in F PROVE T \in F
  <2> DEFINE H(V) == (CHOOSE it : IsIter(w, V, it))
             val == IF T = {} THEN 0 ELSE w[Pick(T)] + H(T \ {Pick(T)})[T \ {Pick(T)}]
             g == [s \in SUBSET T |-> IF s = T THEN val ELSE H(s)[s]]
  <2>1. \A V \in (SUBSET T) \ {T} : IsIter(w, V, H(V))
    BY <1>1
  <2>2. ASSUME NEW s \in SUBSET T
        PROVE  g[s] = IF s = {} THEN 0 ELSE w[Pick(s)] + g[s \ {Pick(s)}]
    <3>1. s # {} => s \ {Pick(s)} \in SUBSET T /\ s \ {Pick(s)} # T /\ s \ {Pick(s)} # s
      BY PickIn
    <3>2. s # {} => g[s \ {Pick(s)}] = H(s \ {Pick(s)})[s \ {Pick(s)}]
      BY <3>1
    <3>3. CASE s = T
      <4>1. g[s] = val
        BY <3>3
      <4> QED
        BY <3>2, <3>3, <4>1
    <3>4. CASE s # T
      <4> DEFINE v == s \ {Pick(s)}
      <4>1. g[s] = H(s)[s] /\ IsIter(w, s, H(s))
        BY <2>1, <3>4
      <4> HIDE DEF H, g, val
      <4>2. H(s)[s] = IF s = {} THEN 0 ELSE w[Pick(s)] + H(s)[v]
        BY <4>1, Zenon DEF IsIter
      <4>3. CASE s # {}
        <5>1. IsIter(w, v, H(v)) /\ v \subseteq s
          BY <2>1, <3>1, <4>3
        <5>2. IsFiniteSet(v)
          BY FS_Subset, <5>1
        <5>3. H(v)[v] = H(s)[v]
          BY <4>1, <5>1, <5>2, IterAgree
        <5> QED
          BY <3>2, <4>1, <4>2, <4>3, <5>3
      <4> QED
        BY <4>1, <4>2, <4>3
    <3> QED
      BY <3>3, <3>4
  <2>3. g = [s \in SUBSET T |-> g[s]]
    OBVIOUS
  <2> HIDE DEF g
  <2>4. IsIter(w, T, g)
    BY <2>2, <2>3 DEF IsIter
  <2> QED
    BY <2>4
<1> HIDE DEF F
<1>2. S \in F
  BY <1>1, SubsetInduction
<1> QED
  BY <1>2 DEF F

\* The sum, one element at a time.
LEMMA SumStep ==
    ASSUME NEW w, NEW S, IsFiniteSet(S)
    PROVE  SumFunctionOnSet(w, S) =
             IF S = {} THEN 0 ELSE w[Pick(S)] + SumFunctionOnSet(w, S \ {Pick(S)})
<1> DEFINE a == CHOOSE it : IsIter(w, S, it)
           T == S \ {Pick(S)}
           b == CHOOSE it : IsIter(w, T, it)
<1>1. IsIter(w, S, a)
  BY IterExists
<1>2. IsFiniteSet(T) /\ T \subseteq S
  BY FS_Subset
<1>3. IsIter(w, T, b)
  BY <1>2, IterExists
<1>4. SumFunctionOnSet(w, S) = a[S] /\ SumFunctionOnSet(w, T) = b[T]
  BY SumUnfold
<1> HIDE DEF a, b
<1>5. a[S] = IF S = {} THEN 0 ELSE w[Pick(S)] + a[T]
  BY <1>1, Zenon DEF IsIter
<1>6. a[T] = b[T]
  BY <1>1, <1>2, <1>3, IterAgree
<1> QED
  BY <1>4, <1>5, <1>6

\* A sum of naturals is a natural, and it does not matter which element is taken
\* first.
LEMMA SumRemove ==
    ASSUME NEW U, IsFiniteSet(U), NEW w, \A x \in U : w[x] \in Nat
    PROVE  \A S \in SUBSET U :
             /\ SumFunctionOnSet(w, S) \in Nat
             /\ S = {} => SumFunctionOnSet(w, S) = 0
             /\ \A x \in S : SumFunctionOnSet(w, S) = w[x] + SumFunctionOnSet(w, S \ {x})
<1> DEFINE Sum(S) == SumFunctionOnSet(w, S)
           F == {S \in SUBSET U : /\ Sum(S) \in Nat /\ (S = {} => Sum(S) = 0)
                                  /\ \A x \in S : Sum(S) = w[x] + Sum(S \ {x})}
<1>1. ASSUME NEW S \in SUBSET U, \A V \in (SUBSET S) \ {S} : V \in F PROVE S \in F
  <2>1. IsFiniteSet(S)
    BY FS_Subset
  <2>2. Sum(S) = IF S = {} THEN 0 ELSE w[Pick(S)] + Sum(S \ {Pick(S)})
    BY <2>1, SumStep
  <2> HIDE DEF Sum
  <2>3. CASE S = {}
    BY <2>2, <2>3
  <2>4. CASE S # {}
    <3> DEFINE y == Pick(S)
    <3>1. y \in S /\ S \ {y} \in F
      BY <1>1, <2>4, PickIn
    <3> HIDE DEF y
    <3>2. Sum(S) = w[y] + Sum(S \ {y}) /\ w[y] \in Nat /\ Sum(S \ {y}) \in Nat
      BY <2>2, <2>4, <3>1 DEF y
    <3>3. ASSUME NEW x \in S PROVE Sum(S) = w[x] + Sum(S \ {x})
      <4>1. CASE x = y
        BY <3>2, <4>1
      <4>2. CASE x # y
        <5> DEFINE r == (S \ {y}) \ {x}
        <5>1. r = (S \ {x}) \ {y} /\ S \ {x} \in F /\ r \in F
          BY <1>1
        <5>2. x \in S \ {y} /\ y \in S \ {x}
          BY <3>1, <4>2
        <5>3. Sum(S \ {y}) = w[x] + Sum(r)
          BY <3>1, <5>2
        <5>4. Sum(S \ {x}) = w[y] + Sum(r)
          BY <5>1, <5>2
        <5>5. Sum(r) \in Nat /\ w[x] \in Nat
          BY <5>1
        <5> HIDE DEF r
        <5> QED
          BY <3>2, <5>3, <5>4, <5>5
      <4> QED
        BY <4>1, <4>2
    <3> QED
      BY <2>4, <3>2, <3>3
  <2> QED
    BY <2>3, <2>4
<1> HIDE DEF F
<1>2. \A S \in SUBSET U : S \in F
  BY <1>1, SubsetInduction
<1> QED
  BY <1>2 DEF F

\* Less of less is less.
LEMMA SumMonotone ==
    ASSUME NEW U, IsFiniteSet(U), NEW w, NEW v, NEW S \in SUBSET U, NEW T \in SUBSET S,
           \A x \in U : w[x] \in Nat, \A x \in U : v[x] \in Nat, \A x \in T : w[x] <= v[x]
    PROVE  SumFunctionOnSet(w, T) <= SumFunctionOnSet(v, S)
<1> DEFINE W(s) == SumFunctionOnSet(w, s)
           V(s) == SumFunctionOnSet(v, s)
           F == {t \in SUBSET T : \A s \in SUBSET U : t \subseteq s => W(t) <= V(s)}
<1>0. \A s \in SUBSET U : /\ W(s) \in Nat /\ V(s) \in Nat
                          /\ s = {} => W(s) = 0
                          /\ \A x \in s : W(s) = w[x] + W(s \ {x}) /\ V(s) = v[x] + V(s \ {x})
  BY SumRemove
<1> HIDE DEF W, V
<1>1. ASSUME NEW t \in SUBSET T, \A r \in (SUBSET t) \ {t} : r \in F PROVE t \in F
  <2> SUFFICES ASSUME NEW s \in SUBSET U, t \subseteq s PROVE W(t) <= V(s)
    OBVIOUS
  <2>0. t \in SUBSET U /\ W(t) \in Nat /\ V(s) \in Nat
    BY <1>0
  <2>1. CASE t = {}
    BY <1>0, <2>0, <2>1
  <2>2. CASE t # {}
    <3>1. PICK x \in t : TRUE
      BY <2>2
    <3>2. t \ {x} \in F /\ s \ {x} \in SUBSET U /\ t \ {x} \subseteq s \ {x}
      BY <1>1
    <3>3. W(t \ {x}) <= V(s \ {x})
      BY <3>2
    <3>4. W(t) = w[x] + W(t \ {x}) /\ V(s) = v[x] + V(s \ {x})
      BY <1>0, <2>0
    <3>5. w[x] \in Nat /\ v[x] \in Nat /\ w[x] <= v[x]
      BY <2>0
    <3>6. W(t \ {x}) \in Nat /\ V(s \ {x}) \in Nat
      BY <1>0, <2>0, <3>2
    <3> QED
      BY <3>3, <3>4, <3>5, <3>6
  <2> QED
    BY <2>1, <2>2
<1> HIDE DEF F
<1>2. IsFiniteSet(T)
  BY FS_Subset
<1>3. T \in F
  BY <1>1, <1>2, SubsetInduction
<1> QED
  BY <1>3 DEF F, W, V

-----------------------------------------------------------------------------
(* Ranks *)

\* R orders S from first to last.
Orders(R, S) ==
    /\ \A x \in S : <<x, x>> \notin R
    /\ \A x, y \in S : x # y => <<x, y>> \in R \/ <<y, x>> \in R
    /\ \A x, y, z \in S : <<x, y>> \in R /\ <<y, z>> \in R => <<x, z>> \in R
Below(R, S, x) == {y \in S : <<y, x>> \in R}

LEMMA FromZero ==
    ASSUME NEW k \in Nat
    PROVE  IsFiniteSet(0..(k - 1)) /\ Cardinality(0..(k - 1)) = k
BY FS_Interval

\* In an ordered set of at least k elements, k have fewer than k before them.
LEMMA FirstOnes ==
    ASSUME NEW S, IsFiniteSet(S), NEW R, Orders(R, S), NEW k \in Nat, k <= Cardinality(S)
    PROVE  Cardinality({x \in S : Cardinality(Below(R, S, x)) < k}) = k
<1> DEFINE n == Cardinality(S)
           f == [x \in S |-> Cardinality(Below(R, S, x))]
           A == {x \in S : Cardinality(Below(R, S, x)) < k}
<1>0. n \in Nat
  BY FS_CardinalityType
<1>1. \A x \in S : Below(R, S, x) \in SUBSET (S \ {x})
  BY DEF Orders, Below
<1>2. \A x \in S : IsFiniteSet(Below(R, S, x)) /\ f[x] \in 0..(n - 1)
  <2> SUFFICES ASSUME NEW x \in S PROVE IsFiniteSet(Below(R, S, x)) /\ f[x] \in 0..(n - 1)
    OBVIOUS
  <2>1. IsFiniteSet(S \ {x}) /\ Cardinality(S \ {x}) = n - 1
    BY FS_RemoveElement
  <2>2. IsFiniteSet(Below(R, S, x)) /\ Cardinality(Below(R, S, x)) <= n - 1
    BY <1>1, <2>1, FS_Subset
  <2>3. Cardinality(Below(R, S, x)) \in Nat
    BY <2>2, FS_CardinalityType
  <2> QED
    BY <1>0, <2>2, <2>3
<1>3. ASSUME NEW x \in S, NEW y \in S, <<x, y>> \in R PROVE f[x] # f[y]
  <2>1. Below(R, S, x) \in SUBSET Below(R, S, y)
    BY <1>3 DEF Orders, Below
  <2>2. x \in Below(R, S, y) /\ x \notin Below(R, S, x)
    BY <1>3 DEF Orders, Below
  <2> QED
    BY <1>2, <2>1, <2>2, FS_Subset
<1>4. f \in Injection(S, 0..(n - 1))
  <2>1. f \in [S -> 0..(n - 1)]
    BY <1>2
  <2>2. \A x, y \in S : f[x] = f[y] => x = y
    BY <1>3 DEF Orders
  <2> QED
    BY <2>1, <2>2 DEF Injection, IsInjective
<1>5. IsFiniteSet(0..(n - 1)) /\ Cardinality(0..(n - 1)) = n
  BY <1>0, FromZero
<1>6. f \in Surjection(S, 0..(n - 1))
  BY <1>4, <1>5, FS_Injection
<1>7. A = {x \in S : f[x] < k}
  OBVIOUS
<1> HIDE DEF f, A
<1> DEFINE g == [x \in A |-> f[x]]
<1>8. g \in Bijection(A, 0..(k - 1))
  <2>1. A \subseteq S /\ \A x \in A : f[x] \in 0..(k - 1)
    BY <1>2, <1>7
  <2>2. g \in [A -> 0..(k - 1)]
    BY <2>1
  <2>3. \A x, y \in A : g[x] = g[y] => x = y
    BY <1>4, <2>1 DEF Injection, IsInjective
  <2>4. ASSUME NEW i \in 0..(k - 1) PROVE \E x \in A : g[x] = i
    <3>1. i \in 0..(n - 1)
      BY <1>0
    <3>2. PICK x \in S : f[x] = i
      BY <1>6, <3>1 DEF Surjection
    <3>3. x \in A
      BY <1>7, <3>2
    <3> QED
      BY <3>2, <3>3
  <2> QED
    BY <2>2, <2>3, <2>4 DEF Bijection, Injection, Surjection, IsInjective
<1>9. IsFiniteSet(A)
  BY <1>7, FS_Subset
<1>10. Cardinality(A) = Cardinality(0..(k - 1))
  BY <1>8, <1>9, FS_Bijection DEF ExistsBijection
<1>11. Cardinality(0..(k - 1)) = k
  BY FromZero
<1> QED
  BY <1>10, <1>11 DEF A

\* An ordered finite set that is not empty has a first element.
LEMMA FirstOne ==
    ASSUME NEW S, IsFiniteSet(S), S # {}, NEW R, Orders(R, S)
    PROVE  \E x \in S : \A y \in S : <<y, x>> \notin R
<1> DEFINE A == {x \in S : Cardinality(Below(R, S, x)) < 1}
<1>1. 1 <= Cardinality(S)
  BY FS_CardinalityType, FS_EmptySet
<1>2. Cardinality(A) = 1
  BY <1>1, FirstOnes
<1>3. A # {}
  BY <1>2, FS_EmptySet
<1>4. PICK x \in A : TRUE
  BY <1>3
<1>5. IsFiniteSet(Below(R, S, x))
  BY FS_Subset DEF Below
<1>6. Cardinality(Below(R, S, x)) = 0
  BY <1>4, <1>5, FS_CardinalityType
<1>7. Below(R, S, x) = {}
  BY <1>5, <1>6, FS_EmptySet
<1> QED
  BY <1>7 DEF Below

\* The rank of an element is a number below the size of the set,
LEMMA RankType ==
    ASSUME NEW S, IsFiniteSet(S), NEW R, Orders(R, S), NEW x \in S
    PROVE  IsFiniteSet(Below(R, S, x)) /\ Cardinality(Below(R, S, x)) \in 0..(Cardinality(S) - 1)
<1>1. Below(R, S, x) \in SUBSET (S \ {x})
  BY DEF Orders, Below
<1>2. IsFiniteSet(S \ {x}) /\ Cardinality(S \ {x}) = Cardinality(S) - 1
  BY FS_RemoveElement
<1>3. IsFiniteSet(Below(R, S, x)) /\ Cardinality(Below(R, S, x)) <= Cardinality(S \ {x})
  BY <1>1, <1>2, FS_Subset
<1>4. Cardinality(Below(R, S, x)) \in Nat /\ Cardinality(S) \in Nat
  BY <1>3, FS_CardinalityType
<1> QED
  BY <1>2, <1>3, <1>4

\* grows along the order,
LEMMA RankGrows ==
    ASSUME NEW S, IsFiniteSet(S), NEW R, Orders(R, S), NEW x \in S, NEW y \in S, <<x, y>> \in R
    PROVE  Cardinality(Below(R, S, x)) < Cardinality(Below(R, S, y))
<1>1. Below(R, S, x) \in SUBSET Below(R, S, y)
  BY DEF Orders, Below
<1>2. x \in Below(R, S, y) /\ x \notin Below(R, S, x)
  BY DEF Orders, Below
<1>3. IsFiniteSet(Below(R, S, y)) /\ Cardinality(Below(R, S, y)) \in Nat /\ Cardinality(Below(R, S, x)) \in Nat
  BY RankType
<1>4. /\ Cardinality(Below(R, S, x)) <= Cardinality(Below(R, S, y))
      /\ Cardinality(Below(R, S, x)) = Cardinality(Below(R, S, y)) => Below(R, S, x) = Below(R, S, y)
  BY <1>1, <1>3, FS_Subset
<1> QED
  BY <1>2, <1>3, <1>4

\* and every such number is one.
LEMMA RankTaken ==
    ASSUME NEW S, IsFiniteSet(S), NEW R, Orders(R, S), NEW k \in Nat, k < Cardinality(S)
    PROVE  \E x \in S : Cardinality(Below(R, S, x)) = k
<1> DEFINE A(j) == {x \in S : Cardinality(Below(R, S, x)) < j}
<1>1. Cardinality(S) \in Nat
  BY FS_CardinalityType
<1>2. k + 1 \in Nat /\ k + 1 <= Cardinality(S)
  BY <1>1
<1>3. Cardinality(A(k)) = k
  BY <1>1, FirstOnes
<1>4. Cardinality(A(k + 1)) = k + 1
  BY <1>2, FirstOnes
<1>5. \A x \in S : Cardinality(Below(R, S, x)) \in Nat
  BY RankType
<1>6. SUFFICES ASSUME \A x \in S : Cardinality(Below(R, S, x)) # k PROVE FALSE
  OBVIOUS
<1>7. A(k) = A(k + 1)
  BY <1>5, <1>6
<1> HIDE DEF A
<1> QED
  BY <1>3, <1>4, <1>7
=============================================================================
