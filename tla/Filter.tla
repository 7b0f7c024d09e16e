------------------------------- MODULE Filter -------------------------------
(***************************************************************************)
(* filter.c: applyNewGraphicalMethod().  The bandwidth readings of every   *)
(* probe size are a set of points.  Round after round the points are       *)
(* widened a little (adjustFuzz) and the sets united (unionSets, one step  *)
(* per iteration of its loops), until one range of the union has more      *)
(* readings than any other, enough of them, and from enough sets.          *)
(*                                                                         *)
(* unionSets() clears the count of an element that stays for the next      *)
(* piece and restores it later, in the lists it was given.                 *)
(***************************************************************************)
EXTENDS SetPackage, Functions

CONSTANTS
  Matrices,       \* possible matrices: sequences of rows, of readings in
                  \* descending order as reportBandwidthForGaps() leaves them
  MinPeakSize,    \* 7
  MinNumSets      \* 2

ASSUME FilterAssumption ==
  /\ MinPeakSize \in Nat /\ MinNumSets \in Nat /\ Unknown \notin Nat
  /\ Matrices \subseteq Seq(Seq(Nat))
  /\ \A m \in Matrices : \A r \in DOMAIN m :
       \A j, k \in DOMAIN m[r] : j < k => m[r][j] >= m[r][k]

Merged == -1      \* the index of mergedSet among the lists

NoPeak == [low |-> 0, high |-> 0, count |-> 0]

VARIABLES
  pc,             \* "round", "union", "merge", "destroy" or "done"
  readings,       \* the rows of the matrix that have readings, by set number + 1
  lists,          \* sets[0 ..] and mergedSet
  redoLimit,      \* rounds begun
  next,           \* i: the set that is merged in
  one, other,     \* the indices of the lists that are being united
  left, right,    \* positions in them
  out,            \* the union so far
  peak,           \* the peak that was resolved, or NoPeak
  blocks          \* sets and elements that are allocated

cursors == <<one, other, left, right, out>>
vars == <<pc, readings, lists, redoLimit, next, cursors, peak, blocks>>

\* A set and its elements are allocated one by one, and freed so by destroySet().
Blocks(set) == 1 + Len(set)

BlocksOfSets(sets) == SumFunction([s \in sets |-> Blocks(lists[s])])

-----------------------------------------------------------------------------
(* Creating the sets, from large probes to small *)

Readings(row) == Selected(Reverse(row), {k \in DOMAIN row : Reverse(row)[k] > 0})

\* Readings of the non-empty rows; the sets are numbered from 0 without holes.
RowsWithReadings(m) ==
  LET sets == Reverse([r \in DOMAIN m |-> Readings(m[r])])
  IN Selected(sets, {k \in DOMAIN m : sets[k] # <<>>})

initialSetCount == Len(readings)

SetNumbers == 0 .. initialSetCount - 1

Init ==
  /\ readings \in {RowsWithReadings(m) : m \in Matrices}
  /\ lists = [s \in SetNumbers \cup {Merged} |->
                IF s = Merged THEN <<>>
                ELSE CreateSet(readings[s + 1], s)]
  /\ redoLimit = 0 /\ next = 0
  /\ one = Merged /\ other = Merged /\ left = 1 /\ right = 1 /\ out = <<>>
  /\ peak = NoPeak
  /\ blocks = BlocksOfSets(SetNumbers)
  /\ pc = IF initialSetCount < 2 THEN "done" ELSE "round"

-----------------------------------------------------------------------------
(* The loops *)

Unite(a, b) ==
  /\ one' = a /\ other' = b
  /\ left' = 1 /\ right' = 1 /\ out' = <<>>
  /\ pc' = "union"

\* Mutant: one round too many.
RoundsLeftAndOne == redoLimit <= FuzzRounds

RoundsLeft == redoLimit < FuzzRounds

\* A round starts over from sets[0] and sets[1].
BeginRound ==
  /\ pc = "round" /\ RoundsLeft
  /\ redoLimit' = redoLimit + 1
  /\ lists' = [lists EXCEPT ![0] = AdjustFuzz(@), ![1] = AdjustFuzz(@)]
  /\ blocks' = blocks - (Len(lists[0]) - Len(lists'[0])) - (Len(lists[1]) - Len(lists'[1]))
  /\ next' = 2
  /\ Unite(0, 1)
  /\ UNCHANGED <<readings, peak>>

GiveUp ==
  /\ pc = "round" /\ ~RoundsLeft
  /\ pc' = "destroy"
  /\ UNCHANGED <<readings, lists, redoLimit, next, cursors, peak, blocks>>

\* The next smaller probe size is merged in.
MergeNext ==
  /\ pc = "merge" /\ next \in SetNumbers
  /\ lists' = [lists EXCEPT ![next] = AdjustFuzz(@)]
  /\ blocks' = blocks - (Len(lists[next]) - Len(lists'[next]))
  /\ next' = next + 1
  /\ Unite(Merged, next)
  /\ UNCHANGED <<readings, redoLimit, peak>>

\* Mutant: of several peaks as high as each other the first is taken.
ResolvedByFirst(set) ==
  LET peaks == PeakSet(set) IN
  /\ PeakSize(set) >= MinPeakSize
  /\ CountBaseSets(Head(peaks)) >= MinNumSets

Resolved(set) ==
  LET peaks == PeakSet(set) IN
  /\ Len(peaks) = 1
  /\ PeakSize(set) >= MinPeakSize
  /\ CountBaseSets(Head(peaks)) >= MinNumSets

PeakFound ==
  /\ pc = "merge" /\ next \notin SetNumbers
  /\ Resolved(lists[Merged])
  /\ LET e == Head(PeakSet(lists[Merged])) IN
       peak' = [low |-> e.low, high |-> e.high, count |-> e.count]
  /\ blocks' = blocks + Blocks(PeakSet(lists[Merged]))
  /\ pc' = "destroy"
  /\ UNCHANGED <<readings, lists, redoLimit, next, cursors>>

\* Mutant: the same union is looked at again.
NoPeakFoundLookAgain ==
  /\ pc = "merge" /\ next \notin SetNumbers
  /\ ~Resolved(lists[Merged])
  /\ UNCHANGED vars

\* Mutant: the set of peaks is not freed.
NoPeakFoundPeaksKept ==
  /\ pc = "merge" /\ next \notin SetNumbers
  /\ ~Resolved(lists[Merged])
  /\ lists' = [lists EXCEPT ![Merged] = <<>>]
  /\ blocks' = blocks + Blocks(PeakSet(lists[Merged])) - Blocks(lists[Merged])
  /\ pc' = "round"
  /\ UNCHANGED <<readings, redoLimit, next, cursors, peak>>

\* The set of peaks is allocated and destroyed again, with the merged set.
NoPeakFound ==
  /\ pc = "merge" /\ next \notin SetNumbers
  /\ ~Resolved(lists[Merged])
  /\ lists' = [lists EXCEPT ![Merged] = <<>>]
  /\ blocks' = blocks - Blocks(lists[Merged])
  /\ pc' = "round"
  /\ UNCHANGED <<readings, redoLimit, next, cursors, peak>>

\* All sets are destroyed; the merged set and its peak are left if there is one.
DestroySets ==
  /\ pc = "destroy"
  /\ lists' = [s \in DOMAIN lists |-> <<>>]
  /\ blocks' = blocks - BlocksOfSets(SetNumbers)
                - (IF peak = NoPeak THEN 0
                   ELSE Blocks(lists[Merged]) + Blocks(PeakSet(lists[Merged])))
  /\ pc' = "done"
  /\ UNCHANGED <<readings, redoLimit, next, cursors, peak>>

-----------------------------------------------------------------------------
(* unionSets() *)

L == lists[one][left]
R == lists[other][right]

LeftRemains == left <= Len(lists[one])
RightRemains == right <= Len(lists[other])

\* L and R become one element.  The one that ends first is done with, or both;
\* the other stays for the elements to come, its readings already counted.
MergeOverlapping ==
  /\ pc = "union" /\ LeftRemains /\ RightRemains
  /\ Overlap(L, R)
  /\ LET dropLeft == L.high <= R.high
         dropRight == R.high <= L.high
     IN /\ left' = IF dropLeft THEN left + 1 ELSE left
        /\ right' = IF dropRight THEN right + 1 ELSE right
        /\ lists' = [lists EXCEPT
             ![one][left] = IF dropLeft THEN RestoreElementCount(L) ELSE SaveElementCount(L),
             ![other][right] = IF dropRight THEN RestoreElementCount(R) ELSE SaveElementCount(R)]
  /\ out' = Append(out, UnionElements(L, R))
  /\ blocks' = blocks + 1
  /\ UNCHANGED <<pc, readings, redoLimit, next, one, other, peak>>

\* L lies before R, or the right list is used up.
CarryLeft ==
  /\ pc = "union" /\ LeftRemains
  /\ RightRemains => ~Overlap(L, R) /\ L.high < R.low
  /\ out' = Append(out, CopyElement(L))
  /\ blocks' = blocks + 1
  /\ lists' = [lists EXCEPT ![one][left] = RestoreElementCount(L)]
  /\ left' = left + 1
  /\ UNCHANGED <<pc, readings, redoLimit, next, one, other, right, peak>>

CarryRight ==
  /\ pc = "union" /\ RightRemains
  /\ LeftRemains => ~Overlap(L, R) /\ ~(L.high < R.low)
  /\ out' = Append(out, CopyElement(R))
  /\ blocks' = blocks + 1
  /\ lists' = [lists EXCEPT ![other][right] = RestoreElementCount(R)]
  /\ right' = right + 1
  /\ UNCHANGED <<pc, readings, redoLimit, next, one, other, left, peak>>

\* The pieces, coalesced, and their set (makeSet()) take the place of the merged
\* set, which is destroyed if it was united with a further set.
EndUnion ==
  /\ pc = "union" /\ ~LeftRemains /\ ~RightRemains
  /\ lists' = [lists EXCEPT ![Merged] = CoalesceSet(out)]
  /\ blocks' = blocks - Len(out) + Blocks(lists'[Merged])
                - (IF one = Merged THEN Blocks(lists[Merged]) ELSE 0)
  /\ pc' = "merge"
  /\ UNCHANGED <<readings, redoLimit, next, cursors, peak>>

Finished == pc = "done" /\ UNCHANGED vars

Next ==
  \/ BeginRound \/ GiveUp \/ MergeNext \/ PeakFound \/ NoPeakFound \/ DestroySets
  \/ MergeOverlapping \/ CarryLeft \/ CarryRight \/ EndUnion
  \/ Finished

\* The process runs on by itself until the function returns.
Spec == Init /\ [][Next]_vars /\ WF_vars(Next)

-----------------------------------------------------------------------------
(* Properties *)

Elements(e) ==
  /\ e.item \in Nat /\ e.low \in Nat /\ e.high \in Nat /\ e.low <= e.high
  /\ e.count \in Nat /\ e.saved \in Nat
  /\ e.ids \subseteq SetNumbers \cup {Unknown}

TypeOK ==
  /\ pc \in {"round", "union", "merge", "destroy", "done"}
  /\ readings \in Seq(Seq(Nat))
  /\ \A s \in DOMAIN lists : \A k \in DOMAIN lists[s] : Elements(lists[s][k])
  /\ \A k \in DOMAIN out : Elements(out[k])
  /\ redoLimit \in 0 .. FuzzRounds
  /\ next \in 0 .. initialSetCount
  /\ {one, other} \subseteq DOMAIN lists
  /\ blocks \in Nat

\* The readings of set s that lie in the range of element e.
ReadingsIn(s, e) ==
  {k \in DOMAIN readings[s + 1] :
     e.low <= readings[s + 1][k] * FuzzRounds /\ readings[s + 1][k] * FuzzRounds <= e.high}

UnitedSets == 0 .. next - 1

\* In the union of the sets merged so far, every range counts exactly the
\* readings that lie in it and names exactly the sets they come from - however
\* often elements were split up, put aside and coalesced on the way.
MergedCountsExact ==
  pc = "merge" =>
    \A k \in DOMAIN lists[Merged] :
      LET e == lists[Merged][k] IN
      /\ e.count = SumFunction([s \in UnitedSets |-> Cardinality(ReadingsIn(s, e))])
      /\ e.ids \ {Unknown} = {s \in UnitedSets : ReadingsIn(s, e) # {}}

\* The sets survive being united: at the end of every union the counts that were
\* cleared on the way are back, so that the next round starts from the truth.
InputsRestored ==
  pc = "merge" =>
    \A s \in UnitedSets : \A k \in DOMAIN lists[s] :
      lists[s][k].count = Cardinality(ReadingsIn(s, lists[s][k]))

\* The union covers the points that the united sets cover, no more and no less,
\* by ranges that are apart: it consists of the connected components.
UnionIsComponents ==
  pc = "merge" =>
    /\ Apart(lists[Merged])
    /\ Cover(lists[Merged]) = UNION {Cover(lists[s]) : s \in UnitedSets}

\* The line "this should never happen" of addSetIDToList() is not reached,
\* whatever the addresses that serve as identifiers.
NeverAddsAtEnd ==
  pc = "union" /\ ~LeftRemains /\ ~RightRemains => ~AddsAtEnd(out)

\* The estimate, the middle of the peak, lies between the least and the greatest
\* of the peak's readings, although its two ends were not widened alike.
EstimateAmongReadings ==
  peak # NoPeak =>
    LET inside == UNION {{readings[s + 1][k] : k \in ReadingsIn(s, peak)} :
                           s \in SetNumbers}
    IN /\ \E x \in inside : 2 * x * FuzzRounds <= peak.low + peak.high
       /\ \E x \in inside : peak.low + peak.high <= 2 * x * FuzzRounds

\* The data that the method could accept an estimate from.
Enough ==
  /\ initialSetCount >= 2 /\ initialSetCount >= MinNumSets
  /\ SumFunction([s \in SetNumbers |-> Len(readings[s + 1])]) >= MinPeakSize

\* After all tries but one the greatest reading has come down to one step of its
\* own, the least has risen by all of its steps but one: by then they meet.
WithinReach ==
  \A s, t \in SetNumbers :
    \A j \in DOMAIN readings[s + 1], k \in DOMAIN readings[t + 1] :
      readings[s + 1][j] <= (2 * FuzzRounds - 1) * readings[t + 1][k]

\* An estimate needs enough data.  When there is enough, and the readings are no
\* more than a factor of 2 * FuzzRounds - 1 apart, the method finds one, and does
\* not need its last try for that: whether the low ends come down to zero in that
\* try, which they do not in floats (AdjustFuzz), does not matter.
EnoughDataSuffices ==
  pc = "done" =>
    /\ peak # NoPeak => Enough
    /\ Enough /\ WithinReach => peak # NoPeak /\ redoLimit < FuzzRounds

\* restoreElementCount() ends the process when there is nothing to restore.  Every
\* element that a union comes to still has its count or the count put aside,
\* although a copy made in between (copyElement()) forgets the latter.
CountsRecoverable ==
  pc = "union" =>
    /\ LeftRemains => L.count > 0 \/ L.saved > 0
    /\ RightRemains => R.count > 0 \/ R.saved > 0

\* "Plug the storage leak": from round to round nothing stays allocated but the
\* sets, and at the end nothing does - except a set that was the only one.
NothingLeaks ==
  /\ pc = "round" => blocks = BlocksOfSets(SetNumbers)
  /\ pc = "done" /\ initialSetCount # 1 => blocks = 0

\* The method ends.
Ends == <>(pc = "done")

-----------------------------------------------------------------------------
(* Filter implements Clusters *)

C == INSTANCE Clusters WITH
       Samples <- Seq(Seq(Nat)),
       samples <- readings,
       tries <- IF pc \in {"union", "merge"} THEN redoLimit - 1 ELSE redoLimit,
       answer <- peak,
       over <- pc \in {"destroy", "done"}

\* The unions, set by set and piece by piece, with counts put aside and lists
\* changed underway, end at the try and with the range that Clusters says.
ImplementsClusters == C!Spec
=============================================================================
