----------------------------- MODULE SetPackage -----------------------------
(***************************************************************************)
(* setPackage.c: sets of ranges.  A set is the sequence of its elements;   *)
(* an element is a range that stands for a number of bandwidth readings    *)
(* and remembers which base sets they come from.                           *)
(*                                                                         *)
(* Readings are whole numbers, and the ends of a range count in units of   *)
(* 1/FuzzRounds, so that the increment of adjustFuzz(), a FuzzRounds-th of *)
(* the element's first reading, is a whole number as well.  The code adds  *)
(* and subtracts floats, rounded each time; see AdjustFuzz.                *)
(***************************************************************************)
EXTENDS Integers, Sequences, FiniteSets, SequencesExt

CONSTANTS
  FuzzRounds,     \* NEW_FUZZ_ROUNDS (5000)
  Unknown         \* the identifier makeElement() starts every list with

ASSUME FuzzAssumption == FuzzRounds \in Nat \ {0, 1}

\* The members of a list at some of its positions.
Selected(list, positions) ==
  [n \in 1 .. Cardinality(positions) |->
     list[CHOOSE k \in positions : Cardinality({j \in positions : j < k}) = n - 1]]

Least(x, y) == IF x <= y THEN x ELSE y
Greatest(x, y) == IF x >= y THEN x ELSE y

BaseElement(reading, id) ==
  [item |-> reading,
   low |-> reading * FuzzRounds, high |-> reading * FuzzRounds,
   count |-> 1, saved |-> 0, ids |-> {id}]

\* createSet() of readings in ascending order, without fuzz.
CreateSet(readings, id) == [k \in DOMAIN readings |-> BaseElement(readings[k], id)]

CopyElement(e) == [e EXCEPT !.saved = e.count]

\* Mutant: ranges that only touch do not overlap.
OverlapStrictly(e, f) == Greatest(e.low, f.low) < Least(e.high, f.high)

Overlap(e, f) == Greatest(e.low, f.low) <= Least(e.high, f.high)

\* Mutant: the identifiers of the right element are not taken over.
UnionElementsLeftIds(e, f) ==
  [item |-> 0, low |-> Least(e.low, f.low), high |-> Greatest(e.high, f.high),
   count |-> e.count + f.count, saved |-> 0, ids |-> {Unknown} \cup e.ids]

UnionElements(e, f) ==
  [item |-> 0, low |-> Least(e.low, f.low), high |-> Greatest(e.high, f.high),
   count |-> e.count + f.count, saved |-> 0, ids |-> {Unknown} \cup e.ids \cup f.ids]

\* Mutant: the readings of e are counted again with its next piece.
SaveNothing(e) == e

\* Mutant: the count is put aside a second time, when it is zero.
SaveAgain(e) == [e EXCEPT !.saved = e.count, !.count = 0]

\* saveElementCount(): the readings of e are counted, a second piece of it is not
\* to count them again.
SaveElementCount(e) ==
  IF e.count > 0 THEN [e EXCEPT !.saved = e.count, !.count = 0] ELSE e

\* Mutant: a count that was put aside is not brought back.
RestoreNothing(e) == e

\* restoreElementCount(), called when the count is 0.  With nothing put aside it
\* would print the element, which ends the process for a count of zero; property
\* CountsRecoverable of module Filter excludes that.
RestoreElementCount(e) ==
  IF e.count = 0 /\ e.saved > 0 THEN [e EXCEPT !.count = e.saved] ELSE e

-----------------------------------------------------------------------------

\* Mutant: the range is widened, the readings are not added.
AbsorbRangeOnly(e, next) == [e EXCEPT !.high = next.high, !.ids = @ \cup next.ids]

\* Element e of a set swallows its right neighbour.
Absorb(e, next) ==
  [e EXCEPT !.high = next.high, !.count = @ + next.count, !.ids = @ \cup next.ids]

Swallows(list, next) == list # <<>> /\ Last(list).high >= next.low

AddCoalescing(list, next) ==
  IF Swallows(list, next)
    THEN [list EXCEPT ![Len(list)] = Absorb(@, next)]
    ELSE Append(list, next)

CoalesceSet(set) ==
  LET coalesced[n \in 0 .. Len(set)] ==
        IF n = 0 THEN <<>> ELSE AddCoalescing(coalesced[n - 1], set[n])
  IN coalesced[Len(set)]

\* Mutant: the lower ends stay where they are.
AdjustFuzzUpwards(set) ==
  CoalesceSet([k \in DOMAIN set |-> [set[k] EXCEPT !.high = @ + set[k].item]])

\* Exact here.  In the code an end is a float, rounded at each of 5000 additions,
\* whose errors add up: to less than half a step for a low end, which need not be
\* zero after the last try as it is here, and less than two steps for a high end.
AdjustFuzz(set) ==
  CoalesceSet([k \in DOMAIN set |->
     [set[k] EXCEPT !.low = @ - set[k].item, !.high = @ + set[k].item]])

-----------------------------------------------------------------------------

\* findPeakInSet(): the elements with the greatest count; how many base sets
\* the first of them has readings of.
PeakSize(set) == CHOOSE c \in {set[k].count : k \in DOMAIN set} :
                   \A k \in DOMAIN set : set[k].count <= c

PeakSet(set) == Selected(set, {k \in DOMAIN set : set[k].count = PeakSize(set)})

CountBaseSets(e) == Cardinality(e.ids \ {Unknown})

-----------------------------------------------------------------------------
(* Properties *)

\* Uniting list from left to right adds, at some point, an identifier to a list
\* of identifiers none of which need be smaller: "this should never happen".
AddsAtEnd(list) ==
  \E n \in 1 .. Len(list) - 1 :
    LET sofar == CoalesceSet(SubSeq(list, 1, n)) IN
      /\ Swallows(sofar, list[n + 1])
      /\ Unknown \notin Last(sofar).ids
      /\ ~ list[n + 1].ids \subseteq Last(sofar).ids

\* Apart from each other, and in ascending order.
Apart(set) == \A k \in 1 .. Len(set) - 1 : set[k].high < set[k + 1].low

\* The points that a set covers, in half units so that neighbours stay apart.
Cover(set) == UNION {(2 * set[k].low) .. (2 * set[k].high) : k \in DOMAIN set}
=============================================================================
