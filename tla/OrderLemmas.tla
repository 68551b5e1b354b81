---------------------------- MODULE OrderLemmas ----------------------------
(***************************************************************************)
(* Least elements, for the proofs about watermarks, positions and pages.   *)
(* Everything rests on the least number of a set of naturals.              *)
(***************************************************************************)
EXTENDS Integers, FiniteSets, FiniteSetTheorems, WellFoundedInduction, TLAPS

\* A set of naturals that is not empty has a least number.
LEMMA LeastNat ==
    ASSUME NEW T \in SUBSET Nat, T # {}
    PROVE  \E n \in T : \A m \in T : n <= m
<1>. DEFINE R == OpToRel(<, Nat)
<1>1. PICK n \in T : \A m \in T : <<m, n>> \notin R
  BY WFMin, NatLessThanWellFounded, Zenon
<1>2. \A m \in Nat : m < n => <<m, n>> \in R
  BY DEF OpToRel
<1>. HIDE DEF R
<1>3. ASSUME NEW m \in T PROVE n <= m
  <2>1. ~(m < n)  BY <1>1, <1>2
  <2>. QED  BY <2>1
<1>. QED  BY <1>3

\* The elements of S in front of x.
Below(S, R, x) == {y \in S : <<y, x>> \in R}

\* A finite set that is not empty has a minimal element in any strict order.
LEMMA MinimalElement ==
    ASSUME NEW S, IsFiniteSet(S), S # {}, NEW R,
           \A x \in S : <<x, x>> \notin R,
           \A x, y, z \in S : <<x, y>> \in R /\ <<y, z>> \in R => <<x, z>> \in R
    PROVE  \E x \in S : \A y \in S : <<y, x>> \notin R
<1>. DEFINE size(x) == Cardinality(Below(S, R, x))
<1>1. \A x \in S : IsFiniteSet(Below(S, R, x)) /\ size(x) \in Nat
  BY FS_Subset, FS_CardinalityType DEF Below
<1>2. ASSUME NEW x \in S, NEW y \in S, <<y, x>> \in R PROVE size(y) < size(x)
  <2>1. Below(S, R, y) \subseteq Below(S, R, x)
    BY <1>2 DEF Below
  <2>2. y \in Below(S, R, x) /\ y \notin Below(S, R, y)
    BY <1>2 DEF Below
  <2>3. /\ size(y) <= size(x)
        /\ size(y) = size(x) => Below(S, R, y) = Below(S, R, x)
    BY <1>1, <2>1, FS_Subset
  <2>. QED  BY <1>1, <2>2, <2>3
<1>. DEFINE sizes == {size(x) : x \in S}
<1>3. PICK n \in sizes : \A m \in sizes : n <= m
  <2>1. sizes \in SUBSET Nat /\ sizes # {}
    BY <1>1
  <2>. HIDE DEF sizes
  <2>. QED  BY <2>1, LeastNat
<1>4. PICK x \in S : size(x) = n
  OBVIOUS
<1>5. \A y \in S : size(x) <= size(y)
  BY <1>3, <1>4
<1>6. ASSUME NEW y \in S, <<y, x>> \in R PROVE FALSE
  BY <1>1, <1>2, <1>5, <1>6
<1>. QED  BY <1>6

\* The least of finitely many integers.
LEMMA LeastInt ==
    ASSUME NEW S \in SUBSET Int, IsFiniteSet(S), S # {}
    PROVE  \E x \in S : \A y \in S : x <= y
<1>. DEFINE R == {p \in S \X S : p[1] < p[2]}
<1>1. \A x, y \in S : <<x, y>> \in R <=> x < y
  OBVIOUS
<1>. HIDE DEF R
<1>2. \A x \in S : <<x, x>> \notin R
  BY <1>1
<1>3. \A x, y, z \in S : <<x, y>> \in R /\ <<y, z>> \in R => <<x, z>> \in R
  BY <1>1
<1>4. PICK x \in S : \A y \in S : <<y, x>> \notin R
  BY <1>2, <1>3, MinimalElement
<1>5. ASSUME NEW y \in S PROVE x <= y
  <2>1. ~(y < x)  BY <1>1, <1>4
  <2>. QED  BY <2>1
<1>. QED  BY <1>5

\* The largest of finitely many integers.
LEMMA LargestInt ==
    ASSUME NEW S \in SUBSET Int, IsFiniteSet(S), S # {}
    PROVE  \E x \in S : \A y \in S : y <= x
<1>. DEFINE R == {p \in S \X S : p[2] < p[1]}
<1>1. \A x, y \in S : <<x, y>> \in R <=> y < x
  OBVIOUS
<1>. HIDE DEF R
<1>2. \A x \in S : <<x, x>> \notin R
  BY <1>1
<1>3. \A x, y, z \in S : <<x, y>> \in R /\ <<y, z>> \in R => <<x, z>> \in R
  BY <1>1
<1>4. PICK x \in S : \A y \in S : <<y, x>> \notin R
  BY <1>2, <1>3, MinimalElement
<1>5. ASSUME NEW y \in S PROVE y <= x
  <2>1. ~(x < y)  BY <1>1, <1>4
  <2>. QED  BY <2>1
<1>. QED  BY <1>5

\* What a function makes of a finite set is finite.
LEMMA FiniteImage ==
    ASSUME NEW S, IsFiniteSet(S), NEW f
    PROVE  IsFiniteSet({f[x] : x \in S})
<1>. DEFINE T == {f[x] : x \in S}
<1>. DEFINE g == [x \in S |-> f[x]]
<1>1. g \in Surjection(S, T)
  BY DEF Surjection
<1>. HIDE DEF g
<1>. QED  BY <1>1, FS_Surjection

\* In a finite strict total order the elements with fewer than n others in front
\* of them are n, or all there are.
LEMMA FirstOnes ==
    ASSUME NEW S, IsFiniteSet(S), NEW n \in Nat, NEW R,
           \A x \in S : <<x, x>> \notin R,
           \A x, y, z \in S : <<x, y>> \in R /\ <<y, z>> \in R => <<x, z>> \in R,
           \A x, y \in S : x = y \/ <<x, y>> \in R \/ <<y, x>> \in R
    PROVE  LET first == {x \in S : Cardinality(Below(S, R, x)) < n} IN
           /\ IsFiniteSet(first)
           /\ Cardinality(first) = n \/ (first = S /\ Cardinality(S) < n)
<1>. DEFINE N == Cardinality(S)
            rank == [x \in S |-> Cardinality(Below(S, R, x))]
            first == {x \in S : rank[x] < n}
<1>1. N \in Nat /\ IsFiniteSet(first)
  BY FS_CardinalityType, FS_Subset
<1>2. \A x \in S : IsFiniteSet(Below(S, R, x)) /\ rank[x] \in Nat
  BY FS_Subset, FS_CardinalityType DEF Below
<1>3. ASSUME NEW x \in S PROVE rank[x] < N
  <2>1. Below(S, R, x) \subseteq S /\ x \notin Below(S, R, x)
    BY DEF Below
  <2>2. /\ rank[x] <= N
        /\ rank[x] = N => Below(S, R, x) = S
    BY <2>1, FS_Subset
  <2>. QED  BY <1>1, <1>2, <2>1, <2>2
<1>4. ASSUME NEW x \in S, NEW y \in S, <<y, x>> \in R PROVE rank[y] < rank[x]
  <2>1. Below(S, R, y) \subseteq Below(S, R, x)
    BY <1>4 DEF Below
  <2>2. y \in Below(S, R, x) /\ y \notin Below(S, R, y)
    BY <1>4 DEF Below
  <2>3. /\ rank[y] <= rank[x]
        /\ rank[y] = rank[x] => Below(S, R, y) = Below(S, R, x)
    BY <1>2, <2>1, FS_Subset
  <2>. QED  BY <1>2, <2>2, <2>3
<1>5. rank \in Injection(S, 0..(N - 1))
  <2>1. rank \in [S -> 0..(N - 1)]
    BY <1>1, <1>2, <1>3
  <2>2. ASSUME NEW x \in S, NEW y \in S, rank[x] = rank[y] PROVE x = y
    <3>1. <<x, y>> \notin R /\ <<y, x>> \notin R
      BY <1>4, <2>1, <2>2
    <3>. QED  BY <3>1
  <2>. HIDE DEF rank
  <2>. QED  BY <2>1, <2>2 DEF Injection, IsInjective
<1>. HIDE DEF rank, N
<1>6. IsFiniteSet(0..(N - 1)) /\ Cardinality(0..(N - 1)) = N
  BY <1>1, FS_Interval
<1>7. rank \in Surjection(S, 0..(N - 1))
  BY <1>5, <1>6, FS_Injection DEF N
<1>8. CASE N < n
  <2>1. \A x \in S : rank[x] < n
    BY <1>1, <1>2, <1>3, <1>8
  <2>. QED  BY <1>8, <1>1, <2>1 DEF rank, N
<1>9. CASE n <= N
  <2>. DEFINE f == [x \in first |-> rank[x]]
  <2>1. f \in [first -> 0..(n - 1)]
    BY <1>1, <1>2
  <2>2. \A x, y \in first : f[x] = f[y] => x = y
    BY <1>5 DEF Injection, IsInjective
  <2>3. ASSUME NEW k \in 0..(n - 1) PROVE \E x \in first : f[x] = k
    <3>1. k \in 0..(N - 1)
      BY <1>1, <1>9
    <3>2. PICK x \in S : rank[x] = k
      BY <1>7, <3>1 DEF Surjection
    <3>. QED  BY <3>2
  <2>4. IsFiniteSet(0..(n - 1)) /\ Cardinality(0..(n - 1)) = n
    BY FS_Interval
  <2>. HIDE DEF f, first
  <2>5. f \in Injection(first, 0..(n - 1)) /\ f \in Surjection(first, 0..(n - 1))
    BY <2>1, <2>2, <2>3 DEF Injection, IsInjective, Surjection
  <2>6. Cardinality(first) = n
    BY <2>4, <2>5, FS_Injection
  <2>. QED  BY <1>1, <2>6 DEF first, rank
<1>. QED  BY <1>1, <1>8, <1>9
=============================================================================
