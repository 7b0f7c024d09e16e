----------------------------- MODULE GapsProofs -----------------------------
(***************************************************************************)
(* What computeInterArrivalGaps() fills in: one int for every measured     *)
(* pair, for every train and whatever times the arrays hold.               *)
(***************************************************************************)
EXTENDS Gaps, SortGapsProofs, SumsProofs

\* A finite set of numbers has a k-th element for every k below its size.
LEMMA NthInPairs ==
  ASSUME NEW pairs \in SUBSET Nat, IsFiniteSet(pairs),
         NEW k \in Indices(Cardinality(pairs))
  PROVE  /\ Nth(pairs, k) \in pairs
         /\ Cardinality({j \in pairs : j < Nth(pairs, k)}) = k
<1>1. k \in 0 .. Cardinality(pairs) - 1
  BY DEF Indices
<1>2. \E i \in pairs : Cardinality({j \in pairs : j < i}) = k
  BY <1>1, RankExists DEF Rank
<1> QED BY <1>2 DEF Nth

\* A set of numbers in which something lies below every number is empty.
LEMMA NoLeast ==
  ASSUME NEW n \in Nat, NEW bad \in SUBSET (0 .. n),
         \A m \in bad : \E i \in bad : i < m
  PROVE  bad = {}
<1> SUFFICES ASSUME bad # {} PROVE FALSE
  OBVIOUS
<1>1. IsFiniteSet(0 .. n)
  BY FS_Interval
<1>2. IsFiniteSet(bad) /\ Cardinality(bad) \in Nat /\ Cardinality(bad) # 0
  BY <1>1, FS_Subset, FS_CardinalityType, FS_EmptySet
<1>3. 0 \in Indices(Cardinality(bad)) /\ bad \in SUBSET Nat
  BY <1>2 DEF Indices
<1>4. /\ Nth(bad, 0) \in bad
      /\ Cardinality({j \in bad : j < Nth(bad, 0)}) = 0
  BY <1>2, <1>3, NthInPairs
<1>5. {j \in bad : j < Nth(bad, 0)} \in SUBSET bad
  OBVIOUS
<1>6. {j \in bad : j < Nth(bad, 0)} = {}
  BY <1>2, <1>4, <1>5, FS_Subset, FS_EmptySet
<1> QED BY <1>4, <1>6

\* The pairs lie within the train, and there are no more of them than packets.
LEMMA PairsInTrain ==
  ASSUME NEW n \in Nat, NEW pairs \in SUBSET (0 .. n - 1)
  PROVE  IsFiniteSet(pairs) /\ Cardinality(pairs) \in 0 .. n
<1>1. IsFiniteSet(0 .. n - 1) /\ Cardinality(0 .. n - 1) = n
  BY IndicesFinite DEF Indices
<1>2. IsFiniteSet(pairs) /\ Cardinality(pairs) <= n
  BY <1>1, FS_Subset
<1> QED BY <1>2, FS_CardinalityType

\* Every measured pair gives one int.
LEMMA GapsTypes ==
  ASSUME NEW n \in Nat, NEW pairs \in SUBSET (0 .. n - 1), NEW times,
         \A i \in 0 .. n : times[i] \in Int
  PROVE  GapsOf(pairs, times) \in [Indices(Cardinality(pairs)) -> Int]
<1>1. ASSUME NEW k \in Indices(Cardinality(pairs))
      PROVE  Elapsed(times[Nth(pairs, k)], times[Nth(pairs, k) + 1]) \in Int
  <2>1. Nth(pairs, k) \in 0 .. n - 1
    <3>1. IsFiniteSet(pairs) /\ pairs \in SUBSET Nat
      BY PairsInTrain
    <3> QED BY <3>1, NthInPairs
  <2>2. times[Nth(pairs, k)] \in Int /\ times[Nth(pairs, k) + 1] \in Int
    BY <2>1
  <2> HIDE DEF Nth
  <2>3. ASSUME NEW a \in Int, NEW b \in Int PROVE Elapsed(a, b) \in Int
    <3>1. ULongMax + 1 \in Nat \ {0} /\ IntModulus \in Nat \ {0}
      BY WidthsAssumption
    <3>2. (b - a) % (ULongMax + 1) \in Int
      BY <3>1
    <3>3. ((b - a) % (ULongMax + 1)) % IntModulus \in Int
      BY <3>1, <3>2
    <3> QED BY <3>1, <3>3 DEF Elapsed, AsInt
  <2> QED BY <2>2, <2>3
<1> QED BY <1>1 DEF GapsOf, Indices
=============================================================================
