----------------------------- MODULE InOrderProofs -----------------------------
(***************************************************************************)
(* Lemmas about what a loop picks out of an array, for arrays of any       *)
(* length: the proofs about the touch panel and the pad rest on them.      *)
(***************************************************************************)
EXTENDS InOrder, FiniteSetTheorems, TLAPS

\* The rank of a place is a position in the list, and grows with the place.
LEMMA RankGrows ==
  ASSUME NEW S \in SUBSET Int, IsFiniteSet(S)
  PROVE  /\ Cardinality(S) \in Nat
         /\ \A i \in S : Rank(S, i) \in 1..Cardinality(S)
         /\ \A i, j \in S : Rank(S, i) = Rank(S, j) => i = j
         /\ \A i, j \in S : Rank(S, i) < Rank(S, j) => i < j
<1>. DEFINE UpTo(i) == {j \in S : j =< i}
<1>0. \A i \in S : i \in Int
  OBVIOUS
<1>1. \A i \in S : /\ IsFiniteSet(UpTo(i)) /\ Cardinality(UpTo(i)) \in Nat
                   /\ Cardinality(UpTo(i)) =< Cardinality(S)
  BY FS_Subset, FS_CardinalityType
<1>2. \A i \in S : Cardinality(UpTo(i)) # 0
  <2>. SUFFICES ASSUME NEW i \in S PROVE Cardinality(UpTo(i)) # 0
    OBVIOUS
  <2>1. i \in UpTo(i)
    BY <1>0
  <2>. QED
    BY <1>1, <2>1, FS_EmptySet
<1>3. ASSUME NEW i \in S, NEW j \in S, i < j
      PROVE  Cardinality(UpTo(i)) < Cardinality(UpTo(j))
  <2>1. \A k \in S : k =< i => k =< j
    BY <1>0, <1>3
  <2>2. ~(j =< i) /\ j =< j
    BY <1>0, <1>3
  <2>3. UpTo(i) \in SUBSET UpTo(j) /\ UpTo(i) # UpTo(j)
    BY <2>1, <2>2
  <2>. QED
    BY <1>1, <2>3, FS_Subset
<1>4. Cardinality(S) \in Nat
  BY FS_CardinalityType
<1>5. \A i \in S : Rank(S, i) \in 1..Cardinality(S)
  BY <1>1, <1>2, <1>4 DEF Rank
<1>6. \A i, j \in S : i < j => Rank(S, i) < Rank(S, j)
  BY <1>3 DEF Rank
<1>. HIDE DEF UpTo
<1>. QED
  BY <1>0, <1>4, <1>5, <1>6

\* InOrder lists the places S, each of them once and the smaller first.
LEMMA InOrderLists ==
  ASSUME NEW S \in SUBSET Int, IsFiniteSet(S)
  PROVE  /\ Cardinality(S) \in Nat
         /\ InOrder(S) \in [1..Cardinality(S) -> S]
         /\ \A i \in S : \E k \in 1..Cardinality(S) : InOrder(S)[k] = i
         /\ \A k, l \in 1..Cardinality(S) : k < l => InOrder(S)[k] < InOrder(S)[l]
<1>. DEFINE n == Cardinality(S)
            rank == [i \in S |-> Rank(S, i)]
<1>0. n \in Nat
  BY RankGrows
<1>1. IsFiniteSet(1..n) /\ Cardinality(1..n) = n
  <2>. HIDE DEF n
  <2>1. n \in Int /\ 1 \in Int
    BY <1>0
  <2>2. IsFiniteSet(1..n)
    BY <2>1, FS_Interval
  <2>3. Cardinality(1..n) = IF 1 > n THEN 0 ELSE n - 1 + 1
    BY <2>1, FS_Interval
  <2>. QED
    BY <1>0, <2>2, <2>3
<1>2. rank \in Injection(S, 1..n)
  BY RankGrows DEF Injection, IsInjective
<1>3. rank \in Surjection(S, 1..n)
  BY <1>0, <1>1, <1>2, FS_Injection
<1>4. \A k \in 1..n : \E i \in S : Rank(S, i) = k
  BY <1>3 DEF Surjection
<1>5. \A k \in 1..n : InOrder(S)[k] \in S /\ Rank(S, InOrder(S)[k]) = k
  BY <1>4 DEF InOrder
<1>6. \A i \in S : Rank(S, i) \in 1..n /\ InOrder(S)[Rank(S, i)] = i
  <2>. SUFFICES ASSUME NEW i \in S
                PROVE  Rank(S, i) \in 1..n /\ InOrder(S)[Rank(S, i)] = i
    OBVIOUS
  <2>1. PICK k \in 1..n : k = Rank(S, i)
    BY RankGrows
  <2>2. PICK j \in S : j = InOrder(S)[k] /\ Rank(S, j) = k
    BY <1>5
  <2>3. i = j
    BY <2>1, <2>2, RankGrows
  <2>. QED
    BY <2>1, <2>2, <2>3
<1>7. InOrder(S) \in [1..n -> S]
  BY <1>5 DEF InOrder
<1>8. \A k, l \in 1..n : k < l => InOrder(S)[k] < InOrder(S)[l]
  <2>. SUFFICES ASSUME NEW k \in 1..n, NEW l \in 1..n, k < l
                PROVE  InOrder(S)[k] < InOrder(S)[l]
    OBVIOUS
  <2>1. PICK i \in S, j \in S : i = InOrder(S)[k] /\ j = InOrder(S)[l]
    BY <1>5
  <2>2. Rank(S, i) < Rank(S, j)
    BY <1>5, <2>1
  <2>. QED
    BY <2>1, <2>2, RankGrows
<1>. QED
  BY <1>0, <1>6, <1>7, <1>8

\* Some places have a first one and a last one.
LEMMA HaveEnds ==
  ASSUME NEW S \in SUBSET Int, IsFiniteSet(S), S # {}
  PROVE  (\E i \in S : \A j \in S : i <= j) /\ (\E i \in S : \A j \in S : j <= i)
<1>. DEFINE n == Cardinality(S)
            list == InOrder(S)
<1>1. /\ n \in Nat /\ list \in [1..n -> S]
      /\ \A i \in S : \E k \in 1..n : list[k] = i
      /\ \A k, l \in 1..n : k < l => list[k] < list[l]
  BY InOrderLists
<1>. HIDE DEF n, list
<1>2. n >= 1
  <2>1. PICK i \in S, k \in 1..n : list[k] = i
    BY <1>1
  <2>. QED
    BY <1>1, <2>1
<1>3. \A k \in 1..n : list[k] \in Int
  BY <1>1
<1>4. \E i \in S : \A j \in S : i <= j
  <2>1. 1 \in 1..n /\ \A k \in 1..n : k = 1 \/ 1 < k
    BY <1>1, <1>2
  <2>2. \A k \in 1..n : list[1] <= list[k]
    BY <1>1, <1>3, <2>1
  <2>3. list[1] \in S /\ \A j \in S : list[1] <= j
    BY <1>1, <2>1, <2>2
  <2>. QED
    BY <2>3
<1>5. \E i \in S : \A j \in S : j <= i
  <2>1. n \in 1..n /\ \A k \in 1..n : k = n \/ k < n
    BY <1>1, <1>2
  <2>2. \A k \in 1..n : list[k] <= list[n]
    BY <1>1, <1>3, <2>1
  <2>. QED
    BY <1>1, <2>1, <2>2
<1>. QED
  BY <1>4, <1>5
================================================================================
