------------------------------ MODULE SortGaps ------------------------------
(***************************************************************************)
(* sortGaps() of bprobe.c and congtool.c: every gap computes the place it  *)
(* goes to by comparing itself with all others, and is copied there.       *)
(* Arrays are functions on 0 .. n - 1.                                     *)
(***************************************************************************)
EXTENDS Integers, FiniteSets

Indices(n) == 0 .. n - 1

Smaller(gaps, n, i) == {j \in Indices(n) : gaps[j] < gaps[i]}

\* Of equal gaps only those to the right push this one on.
EqualsToTheRight(gaps, n, i) == {j \in Indices(n) : gaps[j] = gaps[i] /\ j > i}

\* Mutant: equal gaps share a place.
PositionWithoutTies(gaps, n, i) == Cardinality(Smaller(gaps, n, i))

Position(gaps, n, i) ==
  Cardinality(Smaller(gaps, n, i)) + Cardinality(EqualsToTheRight(gaps, n, i))

\* items[i] is copied to the place of gaps[i], in the order of i; a place that
\* no gap is sent to keeps what the array held before.
SortBy(gaps, n, items, before) ==
  [p \in DOMAIN before |->
     LET sent == {i \in Indices(n) : Position(gaps, n, i) = p}
     IN  IF sent = {} THEN before[p]
         ELSE items[CHOOSE i \in sent : \A j \in sent : j <= i]]

-----------------------------------------------------------------------------
(* Properties, for modules that sort *)

\* sorted is gaps[0 .. n-1] in ascending order, and companions, sorted with it,
\* still pairs each gap with its own companion.
SortedTogether(gaps, companions, n, sorted, sortedCompanions) ==
  /\ \A p, q \in Indices(n) : p <= q => sorted[p] <= sorted[q]
  /\ \A g \in {gaps[i] : i \in Indices(n)}, c \in {companions[i] : i \in Indices(n)} :
       Cardinality({i \in Indices(n) : gaps[i] = g /\ companions[i] = c}) =
       Cardinality({p \in Indices(n) : sorted[p] = g /\ sortedCompanions[p] = c})
=============================================================================
