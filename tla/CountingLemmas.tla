--------------------------- MODULE CountingLemmas ---------------------------
(***************************************************************************)
(* What the proofs about several components need of counting: least        *)
(* members, ranks within a set of positions, and folds over finite sets.   *)
(* The provers cannot instantiate the induction theorems of the library;   *)
(* an argument by the least counterexample takes their place.              *)
(***************************************************************************)
EXTENDS Naturals, FiniteSetsExt, FiniteSetTheorems, TLAPS

\* A set of naturals has a least member: of what is at or above one, counting
\* tells where it begins.
LEMMA LeastOf ==
    ASSUME NEW T \in SUBSET Nat, T # {}
    PROVE  \E x \in T : \A y \in T : x <= y
<1>1. PICK t \in T : TRUE
  OBVIOUS
<1> DEFINE above == {n \in 0 .. t : \E y \in T : y <= n}
           k == Cardinality(above)
           m == t + 1 - k
<1>2. /\ IsFiniteSet(0 .. t) /\ Cardinality(0 .. t) = t + 1 /\ above \subseteq 0 .. t /\ t \in above
  BY <1>1, FS_Interval
<1>3. IsFiniteSet(above) /\ k \in Nat /\ k <= t + 1
  BY <1>2, FS_Subset, FS_CardinalityType
<1>4. \A n \in above : m <= n
  <2>1. TAKE n \in above
  <2>2. n .. t \subseteq above
    BY <1>1
  <2>3. Cardinality(n .. t) = t - n + 1
    BY <1>1, <1>2, FS_Interval
  <2>4. Cardinality(n .. t) <= k
    BY <1>3, <2>2, FS_Subset
  <2> QED
    BY <1>1, <1>2, <1>3, <2>3, <2>4
<1>5. m \in Nat /\ m <= t
  BY <1>1, <1>2, <1>3, <1>4
<1>6. above = m .. t
  <2>1. above \subseteq m .. t
    BY <1>2, <1>4, <1>5
  <2>2. IsFiniteSet(m .. t) /\ Cardinality(m .. t) = t - m + 1
    BY <1>1, <1>5, FS_Interval
  <2>3. Cardinality(m .. t) = k
    BY <1>1, <1>3, <2>2
  <2> QED
    BY <2>1, <2>2, <2>3, FS_Subset
<1>7. m \in above
  <2> HIDE DEF m, above
  <2> QED
    BY <1>1, <1>5, <1>6
<1>8. PICK y \in T : y <= m
  BY <1>7
<1>9. \A x \in T : x <= t => x \in above
  BY <1>1
<1>10. y = m /\ \A x \in T : m <= x
  <2> HIDE DEF m, above
  <2> QED
    BY <1>1, <1>4, <1>5, <1>8, <1>9
<1> QED
  BY <1>8, <1>10

\* The positions of S up to i; their number is the rank of i in S.
UpTo(S, i) == {j \in S : j <= i}

\* Ranks within a set of positions: every number up to its size is the rank of
\* one of them, and different positions have different ranks.
LEMMA Ranks ==
    ASSUME NEW n \in Nat, NEW S \in SUBSET (1 .. n)
    PROVE  /\ IsFiniteSet(S) /\ Cardinality(S) \in Nat
           /\ \A k \in 1 .. Cardinality(S) : \E i \in S : Cardinality(UpTo(S, i)) = k
           /\ \A i \in S : Cardinality(UpTo(S, i)) \in 1 .. Cardinality(S)
           /\ \A i, h \in S : Cardinality(UpTo(S, i)) = Cardinality(UpTo(S, h)) => i = h
<1>1. IsFiniteSet(S) /\ Cardinality(S) \in Nat /\ S \subseteq Nat
  <2>1. IsFiniteSet(1 .. n)
    BY FS_Interval
  <2>2. IsFiniteSet(S)
    BY <2>1, FS_Subset
  <2> QED
    BY <2>2, FS_CardinalityType
<1>2. ASSUME NEW i
      PROVE  /\ UpTo(S, i) \subseteq S
             /\ IsFiniteSet(UpTo(S, i)) /\ Cardinality(UpTo(S, i)) \in Nat
             /\ Cardinality(UpTo(S, i)) <= Cardinality(S)
  <2>1. UpTo(S, i) \subseteq S
    BY DEF UpTo
  <2>2. IsFiniteSet(UpTo(S, i)) /\ Cardinality(UpTo(S, i)) <= Cardinality(S)
    BY <1>1, <2>1, FS_Subset
  <2> QED
    BY <2>1, <2>2, FS_CardinalityType
<1>3. UpTo(S, n) = S /\ UpTo(S, 0) = {}
  <2>1. \A j \in S : j <= n /\ ~(j <= 0)
    OBVIOUS
  <2> QED
    BY <2>1 DEF UpTo
<1>4. ASSUME NEW i \in Nat \ {0}
      PROVE  /\ i \in S => Cardinality(UpTo(S, i)) = Cardinality(UpTo(S, i - 1)) + 1
             /\ i \notin S => UpTo(S, i) = UpTo(S, i - 1)
  <2> SUFFICES ASSUME \A j \in S : (j <= i <=> (j <= i - 1 \/ j = i)), ~(i <= i - 1)
               PROVE  /\ i \in S => Cardinality(UpTo(S, i)) = Cardinality(UpTo(S, i - 1)) + 1
                      /\ i \notin S => UpTo(S, i) = UpTo(S, i - 1)
    BY <1>1
  <2>1. CASE i \in S
    <3>1. i \notin UpTo(S, i - 1)
      BY DEF UpTo
    <3>2. UpTo(S, i) = UpTo(S, i - 1) \cup {i}
      <4>1. i <= i
        BY <1>4
      <4> QED
        BY <2>1, <4>1 DEF UpTo
    <3> QED
      BY <1>2, <2>1, <3>1, <3>2, FS_AddElement
  <2>2. CASE i \notin S
    BY <2>2 DEF UpTo
  <2> QED
    BY <2>1, <2>2
<1>5. ASSUME NEW k \in 1 .. Cardinality(S)
      PROVE  \E i \in S : Cardinality(UpTo(S, i)) = k
  <2> DEFINE T == {i \in Nat : Cardinality(UpTo(S, i)) >= k}
  <2>1. n \in T
    BY <1>1, <1>3
  <2>2. PICK i \in T : \A j \in T : i <= j
    <3>1. T \in SUBSET Nat /\ T # {}
      BY <2>1
    <3> HIDE DEF T
    <3> QED
      BY <3>1, LeastOf
  <2>3. i \in Nat /\ Cardinality(UpTo(S, i)) >= k
    BY <2>2
  <2>4. i # 0
    <3>1. Cardinality(UpTo(S, 0)) = 0
      BY <1>3, FS_EmptySet
    <3> QED
      BY <2>3, <3>1
  <2>5. i - 1 \in Nat /\ i - 1 \notin T
    <3>1. i - 1 \in Nat /\ ~(i <= i - 1)
      BY <2>3, <2>4
    <3> HIDE DEF T
    <3> QED
      BY <2>2, <3>1
  <2>6. Cardinality(UpTo(S, i - 1)) < k
    BY <1>1, <1>2, <2>5
  <2>7. Cardinality(UpTo(S, i)) \in Nat /\ Cardinality(UpTo(S, i - 1)) \in Nat /\ k \in Nat
    BY <1>1, <1>2
  <2> HIDE DEF T
  <2>8. i \in S
    BY <1>4, <2>3, <2>4, <2>6, <2>7
  <2>9. Cardinality(UpTo(S, i)) = k
    BY <1>4, <2>3, <2>4, <2>6, <2>7, <2>8
  <2> QED
    BY <2>8, <2>9
<1>6. ASSUME NEW i \in S
      PROVE  Cardinality(UpTo(S, i)) \in 1 .. Cardinality(S)
  <2>1. i \in UpTo(S, i)
    BY <1>1 DEF UpTo
  <2>2. Cardinality(UpTo(S, i)) # 0
    BY <1>2, <2>1, FS_EmptySet
  <2> QED
    BY <1>1, <1>2, <2>2
<1>7. ASSUME NEW i \in S, NEW h \in S, i < h
      PROVE  Cardinality(UpTo(S, i)) # Cardinality(UpTo(S, h))
  <2>1. UpTo(S, i) \subseteq UpTo(S, h) /\ h \in UpTo(S, h) /\ h \notin UpTo(S, i)
    <3>1. i \in Nat /\ h \in Nat
      BY <1>1
    <3>2. \A j \in S : (j <= i => j <= h) /\ ~(h <= i) /\ h <= h
      BY <1>1, <1>7, <3>1
    <3> QED
      BY <3>2 DEF UpTo
  <2> QED
    BY <1>2, <2>1, FS_Subset
<1>8. ASSUME NEW i \in S, NEW h \in S, Cardinality(UpTo(S, i)) = Cardinality(UpTo(S, h))
      PROVE  i = h
  <2>1. i \in Nat /\ h \in Nat
    BY <1>1
  <2> QED
    BY <1>7, <1>8, <2>1
<1> QED
  BY <1>1, <1>5, <1>6, <1>8

\* The first m members of S, or all of them.
FirstOf(S, m) == {i \in S : Cardinality(UpTo(S, i)) <= m}

\* There are as many of them as S and m allow.
LEMMA FirstRanks ==
    ASSUME NEW n \in Nat, NEW S \in SUBSET (1 .. n), NEW m \in Nat
    PROVE  /\ IsFiniteSet(FirstOf(S, m)) /\ Cardinality(FirstOf(S, m)) \in Nat
           /\ Cardinality(S) <= m => Cardinality(FirstOf(S, m)) = Cardinality(S)
           /\ Cardinality(S) >= m => Cardinality(FirstOf(S, m)) = m
<1>0. PICK some : some = FirstOf(S, m) /\ some = {i \in S : Cardinality(UpTo(S, i)) <= m}
  BY DEF FirstOf
<1> DEFINE rank == [i \in some |-> Cardinality(UpTo(S, i))]
<1>1. /\ IsFiniteSet(S) /\ Cardinality(S) \in Nat
      /\ \A i \in S : Cardinality(UpTo(S, i)) \in 1 .. Cardinality(S)
  BY Ranks
<1>2. /\ \A k \in 1 .. Cardinality(S) : \E i \in S : Cardinality(UpTo(S, i)) = k
      /\ \A i, h \in S : Cardinality(UpTo(S, i)) = Cardinality(UpTo(S, h)) => i = h
  BY Ranks
<1>3. IsFiniteSet(some) /\ Cardinality(some) \in Nat
  BY <1>0, <1>1, FS_Subset, FS_CardinalityType
<1>4. ASSUME Cardinality(S) <= m PROVE Cardinality(some) = Cardinality(S)
  <2>1. ASSUME NEW i \in S PROVE Cardinality(UpTo(S, i)) <= m
    <3>1. PICK k \in Nat, c \in Nat : k = Cardinality(UpTo(S, i)) /\ c = Cardinality(S)
      BY <1>1
    <3>2. k <= c /\ c <= m
      BY <1>1, <1>4, <3>1
    <3> QED
      BY <3>1, <3>2
  <2>2. some = S
    BY <1>0, <2>1
  <2> QED
    BY <2>2
<1>5. ASSUME Cardinality(S) >= m PROVE Cardinality(some) = m
  <2>1. rank \in [some -> 1 .. m]
    <3>1. \A i \in some : Cardinality(UpTo(S, i)) \in 1 .. m
      <4> TAKE i \in some
      <4>1. PICK k \in Nat : k = Cardinality(UpTo(S, i))
        BY <1>0, <1>1
      <4>2. k >= 1 /\ k <= m
        BY <1>0, <1>1, <4>1
      <4> QED
        BY <4>1, <4>2
    <3> QED
      BY <3>1
  <2>2. \A k \in 1 .. m : \E i \in some : rank[i] = k
    BY <1>0, <1>1, <1>2, <1>5
  <2>3. \A i, h \in some : rank[i] = rank[h] => i = h
    BY <1>0, <1>2
  <2>4. rank \in Bijection(some, 1 .. m)
    <3> HIDE DEF rank
    <3> QED
      BY <2>1, <2>2, <2>3 DEF Bijection, Injection, Surjection, IsInjective
  <2>5. ExistsBijection(some, 1 .. m)
    BY <2>4 DEF ExistsBijection
  <2>6. Cardinality(some) = Cardinality(1 .. m)
    BY <1>3, <2>5, FS_Bijection
  <2>7. Cardinality(1 .. m) = m
    BY FS_Interval
  <2> QED
    BY <2>6, <2>7
<1>6. QED
  BY <1>0, <1>3, <1>4, <1>5

\* Adding a position above all others to a set gives it the next rank, and leaves
\* the others theirs.
LEMMA NextRank ==
    ASSUME NEW n \in Nat, NEW S \in SUBSET (1 .. n), NEW x \in 1 .. n, \A y \in S : y < x
    PROVE  /\ Cardinality(UpTo(S \cup {x}, x)) = Cardinality(S) + 1
           /\ Cardinality(S \cup {x}) = Cardinality(S) + 1
           /\ \A i \in 1 .. n : i < x => UpTo(S \cup {x}, i) = UpTo(S, i)
<1>1. IsFiniteSet(S) /\ x \notin S /\ UpTo(S \cup {x}, x) = S \cup {x}
  <2>1. IsFiniteSet(S)
    BY Ranks
  <2>2. S \cup {x} \subseteq Nat /\ x \notin S /\ \A y \in S \cup {x} : y <= x
    OBVIOUS
  <2>3. UpTo(S \cup {x}, x) = S \cup {x}
    BY <2>2 DEF UpTo
  <2> QED
    BY <2>1, <2>2, <2>3
<1>2. Cardinality(S \cup {x}) = Cardinality(S) + 1
  BY <1>1, FS_AddElement
<1>3. \A i \in 1 .. n : i < x => UpTo(S \cup {x}, i) = UpTo(S, i)
  BY DEF UpTo
<1>4. QED
  BY <1>1, <1>2, <1>3

\* The library's Max of a set is the member no other exceeds.
LEMMA MaxIs ==
    ASSUME NEW W \in SUBSET Nat, NEW m \in W, \A e \in W : e <= m
    PROVE  Max(W) = m
<1>1. m \in W /\ \A y \in W : m >= y
  OBVIOUS
<1>2. Max(W) \in W /\ \A y \in W : Max(W) >= y
  BY <1>1 DEF Max
<1>3. PICK k : k = Max(W)
  OBVIOUS
<1>4. k \in Nat /\ m \in Nat /\ k >= m /\ k <= m
  BY <1>2, <1>3
<1> QED
  BY <1>3, <1>4
\* Sets that have nothing in common are counted one after the other.
LEMMA DisjointCount ==
    ASSUME NEW A, NEW B, IsFiniteSet(A), IsFiniteSet(B), A \cap B = {}
    PROVE  /\ Cardinality(A \cup B) = Cardinality(A) + Cardinality(B)
           /\ Cardinality(A) \in Nat /\ Cardinality(B) \in Nat
<1>1. Cardinality(A \cup B) = Cardinality(A) + Cardinality(B) - Cardinality(A \cap B)
  BY FS_Union
<1>2. Cardinality(A \cap B) = 0 /\ Cardinality(A) \in Nat /\ Cardinality(B) \in Nat
  BY FS_EmptySet, FS_CardinalityType
<1>3. QED
  BY <1>1, <1>2
=============================================================================
