--------------------------- MODULE SortGapsProofs ---------------------------
(***************************************************************************)
(* The places that sortGaps() computes are a permutation of the indices,   *)
(* for every number of gaps and whatever gaps are equal: no place is left  *)
(* out, none is written twice, and the gaps end up in ascending order.     *)
(***************************************************************************)
EXTENDS SortGaps, Functions, FiniteSetTheorems, TLAPS

\* The gaps that go before gap i.
Before(gaps, n, i) == Smaller(gaps, n, i) \cup EqualsToTheRight(gaps, n, i)

LEMMA IndicesFinite ==
  ASSUME NEW n \in Nat
  PROVE  IsFiniteSet(Indices(n)) /\ Cardinality(Indices(n)) = n
<1>1. CASE n = 0
  BY <1>1, FS_EmptySet DEF Indices
<1>2. CASE n > 0
  BY <1>2, FS_Interval DEF Indices
<1>3. QED BY <1>1, <1>2

LEMMA BeforeFinite ==
  ASSUME NEW n \in Nat, NEW gaps, NEW i
  PROVE  IsFiniteSet(Before(gaps, n, i))
<1>1. Before(gaps, n, i) \subseteq Indices(n)
  BY DEF Before, Smaller, EqualsToTheRight
<1>2. QED BY <1>1, IndicesFinite, FS_Subset

\* The place of a gap is the number of gaps that go before it.
LEMMA PositionCounts ==
  ASSUME NEW n \in Nat, NEW gaps \in [Indices(n) -> Int], NEW i \in Indices(n)
  PROVE  /\ Position(gaps, n, i) = Cardinality(Before(gaps, n, i))
         /\ Position(gaps, n, i) \in Nat
<1> DEFINE S == Smaller(gaps, n, i)
           E == EqualsToTheRight(gaps, n, i)
<1>1. IsFiniteSet(S) /\ IsFiniteSet(E)
  <2>1. S \subseteq Indices(n) /\ E \subseteq Indices(n)
    BY DEF Smaller, EqualsToTheRight
  <2>2. QED BY <2>1, IndicesFinite, FS_Subset
<1>2. S \cap E = {}
  BY DEF Smaller, EqualsToTheRight
<1>3. Cardinality(S \cap E) = 0
  BY <1>2, FS_EmptySet
<1>4. Cardinality(S) \in Nat /\ Cardinality(E) \in Nat
  BY <1>1, FS_CardinalityType
<1>5. Cardinality(S \cup E) = Cardinality(S) + Cardinality(E) - Cardinality(S \cap E)
  BY <1>1, FS_Union
<1>6. QED BY <1>3, <1>4, <1>5 DEF Position, Before

\* "Goes before" is a strict total order on the gaps.
LEMMA BeforeOrder ==
  ASSUME NEW n \in Nat, NEW gaps \in [Indices(n) -> Int],
         NEW i \in Indices(n), NEW j \in Indices(n)
  PROVE  /\ i \notin Before(gaps, n, i)
         /\ i # j => i \in Before(gaps, n, j) \/ j \in Before(gaps, n, i)
         /\ i \in Before(gaps, n, j) => Before(gaps, n, i) \subseteq Before(gaps, n, j)
<1>1. \A k \in Indices(n) : k \in Int /\ gaps[k] \in Int
  BY DEF Indices
<1>2. i \notin Before(gaps, n, i)
  BY <1>1 DEF Before, Smaller, EqualsToTheRight
<1>3. i # j => i \in Before(gaps, n, j) \/ j \in Before(gaps, n, i)
  BY <1>1 DEF Before, Smaller, EqualsToTheRight
<1>4. ASSUME i \in Before(gaps, n, j), NEW k \in Before(gaps, n, i)
      PROVE  k \in Before(gaps, n, j)
  BY <1>1, <1>4 DEF Before, Smaller, EqualsToTheRight
<1>5. QED BY <1>2, <1>3, <1>4

\* A gap that goes before another is sent to a smaller place.
LEMMA PositionMonotone ==
  ASSUME NEW n \in Nat, NEW gaps \in [Indices(n) -> Int],
         NEW i \in Indices(n), NEW j \in Indices(n), i \in Before(gaps, n, j)
  PROVE  Position(gaps, n, i) < Position(gaps, n, j)
<1> DEFINE Bi == Before(gaps, n, i)
           Bj == Before(gaps, n, j)
<1>1. Bi \subseteq Bj /\ i \notin Bi /\ i \in Bj
  BY BeforeOrder
<1>2. Bi # Bj
  BY <1>1
<1>3. IsFiniteSet(Bj)
  BY BeforeFinite
<1>4. Cardinality(Bi) <= Cardinality(Bj) /\ Cardinality(Bj) # Cardinality(Bi)
  <2>1. Bi \in SUBSET Bj
    BY <1>1
  <2>2. QED BY <1>2, <1>3, <2>1, FS_Subset
<1>5. /\ Position(gaps, n, i) = Cardinality(Bi) /\ Position(gaps, n, i) \in Nat
      /\ Position(gaps, n, j) = Cardinality(Bj) /\ Position(gaps, n, j) \in Nat
  BY PositionCounts
<1>6. QED BY <1>4, <1>5

\* The places are a permutation of the indices: sortedGaps is filled without
\* holes and without a gap overwriting another.
THEOREM PositionsPermute ==
  ASSUME NEW n \in Nat, NEW gaps \in [Indices(n) -> Int]
  PROVE  /\ \A i \in Indices(n) : Position(gaps, n, i) \in Indices(n)
         /\ \A i, j \in Indices(n) :
              Position(gaps, n, i) = Position(gaps, n, j) => i = j
         /\ \A p \in Indices(n) : \E i \in Indices(n) : Position(gaps, n, i) = p
<1>1. ASSUME NEW i \in Indices(n) PROVE Position(gaps, n, i) \in Indices(n)
  <2>1. Before(gaps, n, i) \subseteq Indices(n) /\ i \notin Before(gaps, n, i)
    BY BeforeOrder DEF Before, Smaller, EqualsToTheRight
  <2>2. IsFiniteSet(Indices(n)) /\ Cardinality(Indices(n)) = n
    BY IndicesFinite
  <2>3. Before(gaps, n, i) \in SUBSET Indices(n) /\ Before(gaps, n, i) # Indices(n)
    BY <2>1
  <2>4. Cardinality(Before(gaps, n, i)) <= n /\ Cardinality(Before(gaps, n, i)) # n
    BY <2>2, <2>3, FS_Subset
  <2>5. /\ Position(gaps, n, i) = Cardinality(Before(gaps, n, i))
        /\ Position(gaps, n, i) \in Nat
    BY PositionCounts
  <2>6. QED BY <2>4, <2>5 DEF Indices
<1>2. ASSUME NEW i \in Indices(n), NEW j \in Indices(n),
             Position(gaps, n, i) = Position(gaps, n, j), i # j
      PROVE  FALSE
  <2>1. i \in Before(gaps, n, j) \/ j \in Before(gaps, n, i)
    BY <1>2, BeforeOrder
  <2>2. Position(gaps, n, i) \in Nat /\ Position(gaps, n, j) \in Nat
    BY PositionCounts
  <2>3. CASE i \in Before(gaps, n, j)
    BY <1>2, <2>2, <2>3, PositionMonotone
  <2>4. CASE j \in Before(gaps, n, i)
    BY <1>2, <2>2, <2>4, PositionMonotone
  <2>5. QED BY <2>1, <2>3, <2>4
<1>3. \A p \in Indices(n) : \E i \in Indices(n) : Position(gaps, n, i) = p
  <2> DEFINE place == [i \in Indices(n) |-> Position(gaps, n, i)]
  <2>1. place \in Injection(Indices(n), Indices(n))
    BY <1>1, <1>2 DEF Injection, IsInjective
  <2>2. IsFiniteSet(Indices(n))
    BY IndicesFinite
  <2>3. place \in Surjection(Indices(n), Indices(n))
    BY <2>1, <2>2, FS_Injection
  <2>4. QED
    BY <2>3 DEF Surjection
<1>4. QED BY <1>1, <1>2, <1>3

\* Every gap, and with it its companion, is found at its own place after the
\* sort, the gaps ascend, and what the array held behind them stays.
THEOREM SortByAscends ==
  ASSUME NEW n \in Nat, NEW gaps \in [Indices(n) -> Int], NEW companions, NEW before,
         Indices(n) \subseteq DOMAIN before
  PROVE  /\ \A i \in Indices(n) :
              /\ SortBy(gaps, n, gaps, before)[Position(gaps, n, i)] = gaps[i]
              /\ SortBy(gaps, n, companions, before)[Position(gaps, n, i)] = companions[i]
         /\ \A p, q \in Indices(n) :
              p <= q => SortBy(gaps, n, gaps, before)[p] <= SortBy(gaps, n, gaps, before)[q]
         /\ \A p \in DOMAIN before \ Indices(n) :
              SortBy(gaps, n, gaps, before)[p] = before[p]
<1>1. ASSUME NEW items, NEW i \in Indices(n)
      PROVE  SortBy(gaps, n, items, before)[Position(gaps, n, i)] = items[i]
  <2> DEFINE p == Position(gaps, n, i)
             sent == {k \in Indices(n) : Position(gaps, n, k) = p}
  <2>1. p \in Indices(n)
    BY PositionsPermute
  <2>2. sent = {i}
    BY PositionsPermute
  <2>3. (CHOOSE k \in {i} : \A j \in {i} : j <= k) = i
    <3>1. i <= i
      BY DEF Indices
    <3>2. \E k \in {i} : \A j \in {i} : j <= k
      BY <3>1
    <3>3. QED BY <3>2
  <2>4. SortBy(gaps, n, items, before)[p] =
          IF sent = {} THEN before[p]
          ELSE items[CHOOSE k \in sent : \A j \in sent : j <= k]
    BY <2>1 DEF SortBy
  <2>5. QED BY <2>2, <2>3, <2>4
<1>2. ASSUME NEW p \in Indices(n), NEW q \in Indices(n), p <= q
      PROVE  SortBy(gaps, n, gaps, before)[p] <= SortBy(gaps, n, gaps, before)[q]
  <2>1. PICK i \in Indices(n) : Position(gaps, n, i) = p
    BY PositionsPermute
  <2>2. PICK j \in Indices(n) : Position(gaps, n, j) = q
    BY PositionsPermute
  <2>3. gaps[i] <= gaps[j]
    <3>1. CASE i = j
      BY <3>1
    <3>2. CASE i # j
      <4>1. j \notin Before(gaps, n, i)
        BY <1>2, <2>1, <2>2, PositionMonotone, PositionCounts
      <4>2. i \in Before(gaps, n, j)
        BY <3>2, <4>1, BeforeOrder
      <4>3. QED BY <4>2 DEF Before, Smaller, EqualsToTheRight
    <3>3. QED BY <3>1, <3>2
  <2>4. QED BY <1>1, <2>1, <2>2, <2>3
<1>3. ASSUME NEW p \in DOMAIN before \ Indices(n)
      PROVE  SortBy(gaps, n, gaps, before)[p] = before[p]
  <2>1. {k \in Indices(n) : Position(gaps, n, k) = p} = {}
    BY PositionsPermute
  <2>2. QED BY <2>1 DEF SortBy
<1>4. QED BY <1>1, <1>2, <1>3

\* Sorting two arrays by the first one keeps what stands next to what, equal gaps
\* included: every combination of a gap and a companion occurs as often as before.
THEOREM SortKeepsTogether ==
  ASSUME NEW n \in Nat, NEW gaps \in [Indices(n) -> Int], NEW companions,
         NEW before, NEW beforeCompanions,
         Indices(n) \subseteq DOMAIN before, Indices(n) \subseteq DOMAIN beforeCompanions
  PROVE  SortedTogether(gaps, companions, n, SortBy(gaps, n, gaps, before),
                        SortBy(gaps, n, companions, beforeCompanions))
<1> DEFINE sorted == SortBy(gaps, n, gaps, before)
           sortedCompanions == SortBy(gaps, n, companions, beforeCompanions)
<1>1. \A i \in Indices(n) : /\ sorted[Position(gaps, n, i)] = gaps[i]
                            /\ sortedCompanions[Position(gaps, n, i)] = companions[i]
  BY SortByAscends
<1>2. \A p, q \in Indices(n) : p <= q => sorted[p] <= sorted[q]
  BY SortByAscends
<1> HIDE DEF sorted, sortedCompanions
<1>3. \A g \in {gaps[i] : i \in Indices(n)}, c \in {companions[i] : i \in Indices(n)} :
        Cardinality({i \in Indices(n) : gaps[i] = g /\ companions[i] = c}) =
        Cardinality({p \in Indices(n) : sorted[p] = g /\ sortedCompanions[p] = c})
  <2> TAKE g \in {gaps[i] : i \in Indices(n)}, c \in {companions[i] : i \in Indices(n)}
  <2> DEFINE S == {i \in Indices(n) : gaps[i] = g /\ companions[i] = c}
             T == {p \in Indices(n) : sorted[p] = g /\ sortedCompanions[p] = c}
             place == [i \in S |-> Position(gaps, n, i)]
  <2>1. IsFiniteSet(S) /\ IsFiniteSet(T)
    <3>1. S \in SUBSET Indices(n) /\ T \in SUBSET Indices(n)
      OBVIOUS
    <3> QED BY <3>1, IndicesFinite, FS_Subset
  <2>2. \A i \in S : place[i] \in T
    BY <1>1, PositionsPermute
  <2>3. \A i, j \in S : place[i] = place[j] => i = j
    BY PositionsPermute
  <2>4. ASSUME NEW p \in T PROVE \E i \in S : place[i] = p
    <3>1. PICK i \in Indices(n) : Position(gaps, n, i) = p
      BY PositionsPermute
    <3>2. i \in S
      BY <1>1, <3>1
    <3> QED BY <3>1, <3>2
  <2>5. place \in Bijection(S, T)
    BY <2>2, <2>3, <2>4
       DEF Bijection, Injection, Surjection, IsInjective
  <2>6. ExistsBijection(S, T)
    BY <2>5 DEF ExistsBijection
  <2> QED BY <2>1, <2>6, FS_Bijection
<1>4. SortedTogether(gaps, companions, n, sorted, sortedCompanions)
  BY ONLY <1>2, <1>3, Zenon DEF SortedTogether
<1> QED BY <1>4 DEF sorted, sortedCompanions
=============================================================================
