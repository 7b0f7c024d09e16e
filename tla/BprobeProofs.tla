---------------------------- MODULE BprobeProofs ----------------------------
(***************************************************************************)
(* Proofs about Bprobe: with the sizes of the source the tables of         *)
(* NUM_ROUNDS rows are long enough; for every train the gaps are sorted    *)
(* and every gap has a bin; the estimate of a round lies between its       *)
(* extreme gaps; the rows of readings descend; and removing rows while     *)
(* walking over them removes the right ones.                               *)
(***************************************************************************)
EXTENDS Bprobe, GapsProofs

\* The rounds of a run and the sizes they probe with, and where it stops.
Schedule ==
  {<<0, 124>>, <<1, 162>>, <<2, 276>>, <<3, 358>>, <<4, 608>>, <<5, 790>>, <<6, 1344>>,
   <<7, 1748>>}

InRound == {"gaps", "process", "floor", "bins", "next"}

\* Between rounds and within one the pass and its size follow the schedule; a
\* round is only begun below the limit.
SizeInv ==
  /\ <<pass, probeSize>> \in Schedule
  /\ pc \in InRound => probeSize < 1400

LEMMA SizeInit == ASSUME Init, FirstSize = 124 PROVE SizeInv
  BY DEF Init, SizeInv, Schedule, InRound

\* The two factors and the rounding lead from one entry to the next.
LEMMA NextInSchedule ==
  ASSUME <<pass, probeSize>> \in Schedule, probeSize < 1400
  PROVE  <<pass + 1, NextSize(pass + 1)>> \in Schedule
<1>1. CASE pass = 0 /\ probeSize = 124
  BY <1>1 DEF Schedule, NextSize, RoundedUpToEven
<1>2. CASE pass = 1 /\ probeSize = 162
  BY <1>2 DEF Schedule, NextSize, RoundedUpToEven
<1>3. CASE pass = 2 /\ probeSize = 276
  BY <1>3 DEF Schedule, NextSize, RoundedUpToEven
<1>4. CASE pass = 3 /\ probeSize = 358
  BY <1>4 DEF Schedule, NextSize, RoundedUpToEven
<1>5. CASE pass = 4 /\ probeSize = 608
  BY <1>5 DEF Schedule, NextSize, RoundedUpToEven
<1>6. CASE pass = 5 /\ probeSize = 790
  BY <1>6 DEF Schedule, NextSize, RoundedUpToEven
<1>7. CASE pass = 6 /\ probeSize = 1344
  BY <1>7 DEF Schedule, NextSize, RoundedUpToEven
<1>8. QED
  BY <1>1, <1>2, <1>3, <1>4, <1>5, <1>6, <1>7 DEF Schedule

LEMMA SizeStep ==
  ASSUME SizeInv, [Next]_vars, SizeLimit = 1400
  PROVE  SizeInv'
<1> USE DEF SizeInv, InRound
<1>1. CASE Probe
  BY <1>1 DEF Probe
<1>2. CASE ProbeExits
  BY <1>2 DEF ProbeExits
<1>3. CASE ComputeInterArrivalGaps
  BY <1>3 DEF ComputeInterArrivalGaps
<1>4. CASE SkipRound
  BY <1>4 DEF SkipRound
<1>5. CASE ProcessRound
  BY <1>5 DEF ProcessRound
<1>6. CASE WidenBins
  BY <1>6 DEF WidenBins
<1>7. CASE CompressBins
  BY <1>7 DEF CompressBins
<1>8. CASE EstimateGap
  BY <1>8 DEF EstimateGap
<1>9. CASE NextPass
  BY <1>9, NextInSchedule DEF NextPass
<1>10. CASE EndProbing
  BY <1>10 DEF EndProbing
<1>11. CASE RemoveRound \/ KeepRound \/ EndClean
  BY <1>11 DEF RemoveRound, KeepRound, EndClean
<1>12. CASE ApplyNewGraphicalMethod
  BY <1>12 DEF ApplyNewGraphicalMethod
<1>13. CASE CalculateUtilization
  BY <1>13 DEF CalculateUtilization
<1>14. CASE UNCHANGED vars
  BY <1>14 DEF vars
<1>15. QED
  BY <1>1, <1>2, <1>3, <1>4, <1>5, <1>6, <1>7, <1>8, <1>9, <1>10, <1>11, <1>12, <1>13,
     <1>14 DEF Next, Finished

\* probeLoop() never stores a round behind the end of its tables: seven rounds are
\* all there are between 124 and 1400 bytes, and NUM_ROUNDS is ten.
THEOREM RoundsFitTables ==
  ASSUME FirstSize = 124, SizeLimit = 1400, NUM_ROUNDS >= 7
  PROVE  Spec => []PassInBounds
<1>1. Init => SizeInv
  BY SizeInit
<1>2. SizeInv /\ [Next]_vars => SizeInv'
  BY SizeStep
<1>3. SizeInv => PassInBounds
  BY BprobeAssumption DEF SizeInv, Schedule, InRound, PassInBounds, Rows
<1>4. QED
  BY <1>1, <1>2, <1>3, PTL DEF Spec

-----------------------------------------------------------------------------
(* Gaps *)

\* The arrays of a round, as sortGaps() needs them.
RoundTypes ==
  /\ pairs \in SUBSET Train
  /\ gaps \in [Indices(gapCount) -> Int]
  /\ DOMAIN sortedGaps = Train /\ DOMAIN sortedDGaps = Train
  /\ pc = "gaps" => round \in Outcomes

LEMMA ConstantTypes ==
  /\ PacketCount \in Nat /\ PacketCount > 1 /\ NUM_ROUNDS \in Nat /\ NUM_ROUNDS > 0
  /\ Train = Indices(PacketCount) /\ ULongMax \in Nat
BY BprobeAssumption, WidthsAssumption DEF Train, Indices

LEMMA GapCountType ==
  ASSUME RoundTypes
  PROVE  gapCount \in Nat /\ gapCount <= PacketCount /\ Indices(gapCount) \subseteq Train
<1>1. gapCount \in 0 .. PacketCount
  BY PairsInTrain, ConstantTypes DEF RoundTypes, Train, gapCount
<1> QED BY <1>1, ConstantTypes DEF Indices

LEMMA InitRound == Init => RoundTypes
<1> SUFFICES ASSUME Init PROVE RoundTypes
  OBVIOUS
<1>1. gapCount = 0
  BY FS_EmptySet DEF Init, gapCount
<1>2. gaps \in [Indices(gapCount) -> Int]
  BY <1>1 DEF Init, Indices
<1> QED BY <1>2 DEF Init, RoundTypes

LEMMA NextRound == RoundTypes /\ [Next]_vars => RoundTypes'
<1> SUFFICES ASSUME RoundTypes, [Next]_vars PROVE RoundTypes'
  OBVIOUS
<1>1. CASE Probe
  BY <1>1 DEF Probe, RoundTypes, gapVars, sortVars, gapCount
<1>2. CASE ComputeInterArrivalGaps
  <2>1. round \in Outcomes
    BY <1>2 DEF ComputeInterArrivalGaps, RoundTypes
  <2>2. pairs' \in SUBSET Train
    BY <1>2 DEF ComputeInterArrivalGaps, MeasuredPairsInOrder, MeasuredPairs, Train
  <2>3. round.arrive \in [Slots -> 0 .. ULongMax]
    BY <2>1, BprobeAssumption
  <2>4. \A i \in 0 .. PacketCount : round.arrive[i] \in Int
    BY <2>3, ConstantTypes DEF Slots
  <2>5. gaps' \in [Indices(Cardinality(pairs')) -> Int]
    BY <1>2, <2>2, <2>4, GapsTypes, ConstantTypes DEF ComputeInterArrivalGaps, Train
  <2> QED BY <1>2, <2>2, <2>5
      DEF ComputeInterArrivalGaps, RoundTypes, sortVars, gapCount
<1>3. CASE ProcessRound
  <2>1. DOMAIN sortedGaps' = Train /\ DOMAIN sortedDGaps' = Train
    BY <1>3 DEF ProcessRound, RoundTypes, SortBy
  <2> QED BY <1>3, <2>1 DEF ProcessRound, RoundTypes, gapVars, gapCount
<1>4. CASE \/ ProbeExits \/ SkipRound \/ WidenBins \/ CompressBins \/ EstimateGap
           \/ NextPass \/ EndProbing \/ RemoveRound \/ KeepRound \/ EndClean
           \/ ApplyNewGraphicalMethod \/ CalculateUtilization \/ UNCHANGED vars
  <2>1. UNCHANGED <<pairs, gaps, sortedGaps, sortedDGaps>>
    BY <1>4 DEF ProbeExits, SkipRound, WidenBins, CompressBins, EstimateGap, NextPass,
       EndProbing, RemoveRound, KeepRound, EndClean, ApplyNewGraphicalMethod,
       CalculateUtilization, vars, gapVars, sortVars
  <2>2. pc' # "gaps" \/ UNCHANGED <<pc, round>>
    BY <1>4 DEF ProbeExits, SkipRound, WidenBins, CompressBins, EstimateGap, NextPass,
       EndProbing, RemoveRound, KeepRound, EndClean, ApplyNewGraphicalMethod,
       CalculateUtilization, vars
  <2> QED BY <2>1, <2>2 DEF RoundTypes, gapCount
<1> QED BY <1>1, <1>2, <1>3, <1>4 DEF Next, Finished

LEMMA RoundTyped == Spec => []RoundTypes
BY InitRound, NextRound, PTL DEF Spec

\* From sorting to the estimate the gaps are sorted, with their departure gaps, the
\* first and the last entry bound all of them, and the bins have a width.
BinInv ==
  /\ GapsSortedTogether
  /\ pc \in {"floor", "bins"} =>
       /\ gapCount >= 2
       /\ minGap \in Int /\ maxGap \in Int
       /\ \A i \in Indices(gapCount) : minGap <= gaps[i] /\ gaps[i] <= maxGap
       /\ binSize \in Nat
  /\ pc = "bins" => binSize > 0

LEMMA SortBounds ==
  ASSUME NEW n \in Nat, n >= 1, NEW g \in [Indices(n) -> Int], NEW before,
         Indices(n) \subseteq DOMAIN before, NEW sorted, sorted = SortBy(g, n, g, before)
  PROVE  /\ sorted[0] \in Int /\ sorted[n - 1] \in Int
         /\ \A i \in Indices(n) : sorted[0] <= g[i] /\ g[i] <= sorted[n - 1]
<1>1. \A i \in Indices(n) : sorted[Position(g, n, i)] = g[i] /\ Position(g, n, i) \in Indices(n)
  BY SortByAscends, PositionsPermute
<1>2. \A p, q \in Indices(n) : p <= q => sorted[p] <= sorted[q]
  BY SortByAscends
<1>3. \A p \in Indices(n) : \E i \in Indices(n) : Position(g, n, i) = p
  BY PositionsPermute
<1>4. /\ 0 \in Indices(n) /\ n - 1 \in Indices(n)
      /\ \A p \in Indices(n) : 0 <= p /\ p <= n - 1
  BY DEF Indices
<1>5. sorted[0] \in Int /\ sorted[n - 1] \in Int
  BY <1>1, <1>3, <1>4
<1> QED BY <1>1, <1>2, <1>4, <1>5

LEMMA NextBins == RoundTypes /\ BinInv /\ [Next]_vars => BinInv'
<1> SUFFICES ASSUME RoundTypes, BinInv, [Next]_vars PROVE BinInv'
  OBVIOUS
<1>1. CASE ProcessRound
  <2>1. /\ UNCHANGED <<pairs, gaps, departGaps>> /\ pc' = "floor" /\ gapCount' = gapCount
        /\ sortedGaps' = SortBy(gaps, gapCount, gaps, sortedGaps)
        /\ sortedDGaps' = SortBy(gaps, gapCount, departGaps, sortedDGaps)
        /\ binSize' = sortedGaps'[gapCount - 1] - sortedGaps'[0]
    BY <1>1 DEF ProcessRound, gapVars, gapCount
  <2>2. gapCount \in Nat /\ gapCount >= 2
    BY <1>1, GapCountType DEF ProcessRound, BadIteration
  <2>3. /\ Indices(gapCount) \subseteq DOMAIN sortedGaps
        /\ Indices(gapCount) \subseteq DOMAIN sortedDGaps
        /\ gaps \in [Indices(gapCount) -> Int]
    BY GapCountType DEF RoundTypes
  <2> DEFINE n == gapCount
  <2> HIDE DEF gapCount
  <2>4. SortedTogether(gaps, departGaps, n, sortedGaps', sortedDGaps')
    BY <2>1, <2>2, <2>3, SortKeepsTogether
  <2>5. /\ sortedGaps'[0] \in Int /\ sortedGaps'[n - 1] \in Int
        /\ \A i \in Indices(n) : sortedGaps'[0] <= gaps[i] /\ gaps[i] <= sortedGaps'[n - 1]
    BY <2>1, <2>2, <2>3, SortBounds
  <2>6. 0 \in Indices(n) /\ gaps[0] \in Int
    BY <2>2, <2>3 DEF Indices
  <2>7. binSize' \in Nat
    BY <2>1, <2>5, <2>6
  <2> QED BY <2>1, <2>2, <2>4, <2>5, <2>7 DEF BinInv, GapsSortedTogether, minGap, maxGap
<1>2. CASE WidenBins \/ CompressBins
  <2>1. /\ UNCHANGED <<pairs, gaps, departGaps, sortedGaps, sortedDGaps>>
        /\ pc \in {"floor", "bins"}
    BY <1>2 DEF WidenBins, CompressBins, gapVars, sortVars
  <2>2. gapCount' = gapCount /\ minGap' = minGap /\ maxGap' = maxGap
    BY <2>1 DEF gapCount, minGap, maxGap
  <2>3. binSize' \in Nat /\ (pc' = "bins" => binSize' > 0)
    BY <1>2, <2>1 DEF BinInv, WidenBins, CompressBins
  <2> QED BY <2>1, <2>2, <2>3 DEF BinInv, GapsSortedTogether
<1>3. CASE \/ Probe \/ ProbeExits \/ ComputeInterArrivalGaps \/ SkipRound \/ EstimateGap
           \/ NextPass \/ EndProbing \/ RemoveRound \/ KeepRound \/ EndClean
           \/ ApplyNewGraphicalMethod \/ CalculateUtilization
  <2>1. pc' \notin {"floor", "bins"}
    BY <1>3 DEF Probe, ProbeExits, ComputeInterArrivalGaps, SkipRound, EstimateGap,
       NextPass, EndProbing, RemoveRound, KeepRound, EndClean, ApplyNewGraphicalMethod,
       CalculateUtilization
  <2> QED BY <2>1 DEF BinInv, GapsSortedTogether
<1>4. CASE UNCHANGED vars
  <2>1. UNCHANGED <<pc, pairs, gaps, departGaps, sortedGaps, sortedDGaps, binSize>>
    BY <1>4 DEF vars, gapVars, sortVars
  <2> QED BY <2>1 DEF BinInv, GapsSortedTogether, gapCount, minGap, maxGap
<1> QED BY <1>1, <1>2, <1>3, <1>4 DEF Next, Finished

LEMMA Binned == Spec => []BinInv
<1>1. Init => BinInv
  BY DEF Init, BinInv, GapsSortedTogether
<1> QED BY <1>1, NextBins, RoundTyped, PTL DEF Spec

\* The gaps of every usable round are sorted and keep their departure gaps, whatever
\* the arrays hold behind them.
THEOREM SortedTogetherAlways == Spec => []GapsSortedTogether
<1>1. BinInv => GapsSortedTogether
  BY DEF BinInv
<1> QED BY <1>1, Binned, PTL

\* A wider range never counts fewer bins.
LEMMA InBinsMonotone ==
  ASSUME binSize \in Nat, binSize > 0, NEW v \in Nat, NEW w \in Nat, v <= w
  PROVE  InBins(v) \in Nat /\ InBins(w) \in Nat /\ InBins(v) <= InBins(w)
<1> DEFINE d == 2 * binSize
           x == (200 * v) + binSize
           y == (200 * w) + binSize
<1>1. d \in Nat \ {0} /\ x \in Nat /\ y \in Nat /\ x <= y
  OBVIOUS
<1>2. InBins(v) = x \div d /\ InBins(w) = y \div d
  BY DEF InBins
<1> HIDE DEF d, x, y
<1>3. x \div d \in Nat /\ y \div d \in Nat
  BY <1>1
<1>4. x \div d <= y \div d
  <2> DEFINE p == x \div d
             q == y \div d
  <2>1. x = (d * p) + (x % d) /\ x % d \in 0 .. d - 1
    BY <1>1
  <2>2. y = (d * q) + (y % d) /\ y % d \in 0 .. d - 1
    BY <1>1
  <2> SUFFICES ASSUME p >= q + 1 PROVE FALSE
    BY <1>3
  <2>3. p \in Nat /\ q \in Nat
    BY <1>3
  <2> HIDE DEF p, q
  <2>4. d * p >= d * (q + 1)
    BY <1>1, <2>3
  <2>5. d * (q + 1) = (d * q) + d /\ d * p \in Nat /\ d * q \in Nat
    BY <1>1, <2>3
  <2> QED BY <1>1, <2>1, <2>2, <2>4, <2>5
<1> QED BY <1>2, <1>3, <1>4

\* Every gap has a bin that was allocated, for every train and at every width tried:
\* the rounding of a gap's distance never exceeds that of the range by a whole bin.
THEOREM BinsAllocated == Spec => []BinsInBounds
<1>1. RoundTypes /\ BinInv => BinsInBounds
  <2> SUFFICES ASSUME RoundTypes, BinInv, pc = "bins", NEW i \in Indices(gapCount)
               PROVE  BinNumber(i) \in 0 .. NumberOfBins - 1
    BY DEF BinsInBounds
  <2>1. /\ binSize \in Nat /\ binSize > 0 /\ minGap \in Int /\ maxGap \in Int
        /\ minGap <= gaps[i] /\ gaps[i] <= maxGap /\ gaps[i] \in Int
    BY DEF BinInv, RoundTypes
  <2>2. /\ gaps[i] - minGap \in Nat /\ gapRange \in Nat
        /\ gaps[i] - minGap <= gapRange
    BY <2>1 DEF gapRange
  <2>3. InBins(gaps[i] - minGap) \in 0 .. InBins(gapRange) /\ InBins(gapRange) \in Nat
    BY <2>1, <2>2, InBinsMonotone
  <2> QED BY <2>3 DEF BinNumber, NumberOfBins
<1> QED BY <1>1, RoundTyped, Binned, PTL

\* Of three or more numbers one lies between two others.
LEMMA MiddleExists ==
  ASSUME NEW n \in Nat, NEW T \in SUBSET (0 .. n), Cardinality(T) >= 3
  PROVE  \E b \in T : \E low, high \in T : low < b /\ b < high
<1>1. IsFiniteSet(0 .. n) /\ IsFiniteSet(T)
  <2>1. IsFiniteSet(0 .. n)
    BY FS_Interval
  <2> QED BY <2>1, FS_Subset
<1>2. T # {} /\ Cardinality(T) \in Nat
  BY <1>1, FS_EmptySet, FS_CardinalityType
<1>3. PICK low \in T : \A k \in T : low <= k
  <2>1. T \in SUBSET Nat
    OBVIOUS
  <2> QED BY <1>2, <2>1, LeastNatural
<1>4. PICK high \in T : \A k \in T : k <= high
  <2> DEFINE D == {n - k : k \in T}
  <2>1. D \in SUBSET Nat /\ D # {}
    BY <1>2
  <2>2. PICK m \in D : \A k \in D : m <= k
    <3> HIDE DEF D
    <3> QED BY <2>1, LeastNatural
  <2>3. PICK high \in T : m = n - high
    OBVIOUS
  <2>4. \A k \in T : m <= n - k
    BY <2>2
  <2>5. \A k \in T : k <= high
    <3> TAKE k \in T
    <3>1. k \in Int /\ high \in Int /\ n - high <= n - k
      BY <2>3, <2>4
    <3> QED BY <3>1
  <2> QED BY <2>5
<1> SUFFICES ASSUME ~(\E b \in T : low < b /\ b < high) PROVE FALSE
  OBVIOUS
<1>5. T \in SUBSET {low, high}
  <2> SUFFICES ASSUME NEW b \in T PROVE b = low \/ b = high
    OBVIOUS
  <2>1. b \in Int /\ low \in Int /\ high \in Int /\ low <= b /\ b <= high
    BY <1>3, <1>4
  <2> QED BY <2>1
<1>6. IsFiniteSet({low}) /\ Cardinality({low}) = 1 /\ {low, high} = {low} \cup {high}
  BY FS_Singleton
<1>7. IsFiniteSet({low, high}) /\ Cardinality({low, high}) <= 2
  BY <1>6, FS_AddElement
<1>8. Cardinality(T) <= Cardinality({low, high}) /\ Cardinality({low, high}) \in Nat
  BY <1>5, <1>7, FS_Subset, FS_CardinalityType
<1> QED BY <1>2, <1>7, <1>8

\* The bin of a gap, and the centre of the bin.
LEMMA BinCentre ==
  ASSUME RoundTypes, BinInv, pc = "bins", NEW i \in Indices(gapCount)
  PROVE  /\ BinNumber(i) \in Nat /\ BinNumber(i) \in 0 .. InBins(gapRange)
         /\ 100 * minGap + binSize * BinNumber(i) \in Int
         /\ 100 * minGap <= 100 * minGap + binSize * BinNumber(i)
         /\ 2 * (100 * minGap + binSize * BinNumber(i)) <= 200 * maxGap + binSize
<1>1. /\ binSize \in Nat /\ binSize > 0 /\ minGap \in Int /\ maxGap \in Int
      /\ minGap <= gaps[i] /\ gaps[i] <= maxGap /\ gaps[i] \in Int
  BY DEF BinInv, RoundTypes
<1> DEFINE w == gaps[i] - minGap
           q == BinNumber(i)
           d == 2 * binSize
<1>2. w \in Nat /\ gapRange \in Nat /\ w <= gapRange
  BY <1>1 DEF gapRange
<1>3. InBins(w) \in Nat /\ InBins(w) \in 0 .. InBins(gapRange)
  BY <1>1, <1>2, InBinsMonotone
<1>4. q = InBins(w)
  BY DEF BinNumber
<1>5. d * (((200 * w) + binSize) \div d) <= (200 * w) + binSize
  <2> DEFINE x == (200 * w) + binSize
  <2>1. d \in Nat \ {0} /\ x \in Int
    BY <1>1, <1>2
  <2> HIDE DEF d, x
  <2>2. x = (d * (x \div d)) + (x % d) /\ x % d \in 0 .. d - 1 /\ x \div d \in Int
    BY ONLY <2>1, DivMod
  <2>3. d * (x \div d) \in Int
    BY <2>1, <2>2
  <2>4. d * (x \div d) <= x
    BY <2>1, <2>2, <2>3
  <2> QED BY <2>4 DEF x
<1>6. d * q <= (200 * w) + binSize
  BY <1>4, <1>5 DEF InBins
<1> HIDE DEF q
<1>7. q \in Nat /\ binSize * q \in Nat /\ d * q = 2 * (binSize * q)
  BY <1>1, <1>3, <1>4
<1>8. 2 * (binSize * q) <= (200 * (gaps[i] - minGap)) + binSize
  BY <1>6, <1>7
<1> QED BY <1>1, <1>3, <1>4, <1>7, <1>8 DEF q

LEMMA EstimateBounds ==
  ASSUME RoundTypes, BinInv, pc = "bins"
  PROVE  /\ ApplyMethod.count \in Nat /\ ApplyMethod.count > 0
         /\ 100 * minGap * ApplyMethod.count <= ApplyMethod.sum
         /\ 2 * ApplyMethod.sum <= (200 * maxGap + binSize) * ApplyMethod.count
<1> DEFINE central == {i \in Indices(gapCount) : BinNumber(i) \in CentralBins}
           f == [i \in central |-> 100 * minGap + binSize * BinNumber(i)]
           g == [i \in central |-> f[i] + f[i]]
           lo == 100 * minGap
           hi == 200 * maxGap + binSize
<1>1. ApplyMethod.sum = SumFunctionOnSet(f, central) /\ ApplyMethod.count = Cardinality(central)
  BY DEF ApplyMethod, SumFunction
<1>2. /\ gapCount \in Nat /\ gapCount >= 2 /\ minGap \in Int /\ maxGap \in Int
      /\ binSize \in Nat /\ binSize > 0
  BY GapCountType DEF BinInv
<1>3. IsFiniteSet(Indices(gapCount)) /\ IsFiniteSet(central)
  <2>1. central \in SUBSET Indices(gapCount)
    OBVIOUS
  <2> QED BY <1>2, <2>1, IndicesFinite, FS_Subset
<1>4. central # {}
  <2>1. 0 \in Indices(gapCount)
    BY <1>2 DEF Indices
  <2>2. CASE Cardinality(Occupied) < 3
    BY <2>1, <2>2 DEF CentralBins, Occupied
  <2>3. CASE ~(Cardinality(Occupied) < 3)
    <3>1. Occupied \in SUBSET (0 .. InBins(gapRange)) /\ InBins(gapRange) \in Nat
      <4>1. Occupied \in SUBSET (0 .. InBins(gapRange))
        BY BinCentre DEF Occupied
      <4>2. gapRange \in Nat
        <5>1. minGap <= gaps[0] /\ gaps[0] <= maxGap /\ gaps[0] \in Int
          BY <2>1 DEF BinInv, RoundTypes
        <5> QED BY <1>2, <5>1 DEF gapRange
      <4> QED BY <1>2, <4>1, <4>2, InBinsMonotone
    <3>2. Cardinality(Occupied) \in Nat
      <4>1. IsFiniteSet(0 .. InBins(gapRange))
        BY <3>1, FS_Interval
      <4> QED BY <3>1, <4>1, FS_Subset, FS_CardinalityType
    <3>3. PICK b \in Occupied : \E low, high \in Occupied : low < b /\ b < high
      BY <2>3, <3>1, <3>2, MiddleExists
    <3>4. b \in CentralBins
      BY <2>3, <3>3 DEF CentralBins
    <3> QED BY <3>3, <3>4 DEF Occupied
  <2> QED BY <2>2, <2>3
<1>5. Cardinality(central) \in Nat /\ Cardinality(central) > 0
  BY <1>3, <1>4, FS_CardinalityType, FS_EmptySet
<1>6. \A i \in central : f[i] \in Int /\ lo <= f[i] /\ 2 * f[i] <= hi
  BY BinCentre
<1>7. lo \in Int /\ hi \in Int
  BY <1>2
<1> HIDE DEF central, f, lo, hi
<1>8. \A i \in central : g[i] = f[i] + f[i] /\ g[i] \in (2 * lo) .. hi
  BY <1>6, <1>7
<1>9. SumFunctionOnSet(f, central) \in Int
  BY <1>3, <1>6, SumType
<1> HIDE DEF g
<1>10. SumFunctionOnSet(g, central) = SumFunctionOnSet(f, central) + SumFunctionOnSet(f, central)
  BY <1>3, <1>6, <1>8, SumOfSums
<1>11. /\ Cardinality(central) * (2 * lo) <= SumFunctionOnSet(g, central)
       /\ SumFunctionOnSet(g, central) <= Cardinality(central) * hi
  <2>1. 2 * lo \in Int
    BY <1>7
  <2> QED BY <1>3, <1>7, <1>8, <2>1, SumBounds
<1>12. ASSUME NEW n \in Nat, NEW a \in Int, n * (2 * lo) <= a + a, a + a <= n * hi
       PROVE  lo * n <= a /\ 2 * a <= hi * n
  <2>1. n * (2 * lo) = 2 * (lo * n) /\ lo * n \in Int /\ n * hi = hi * n
    BY <1>7
  <2> QED BY <1>12, <2>1
<1>13. /\ lo * Cardinality(central) <= SumFunctionOnSet(f, central)
       /\ 2 * SumFunctionOnSet(f, central) <= hi * Cardinality(central)
  BY <1>5, <1>9, <1>10, <1>11, <1>12
<1> QED BY <1>1, <1>5, <1>13 DEF lo, hi

LEMMA NextEstimate ==
  RoundTypes /\ BinInv /\ EstimateWithinGaps /\ [Next]_vars => EstimateWithinGaps'
<1> SUFFICES ASSUME RoundTypes, BinInv, EstimateWithinGaps, [Next]_vars
             PROVE  EstimateWithinGaps'
  OBVIOUS
<1>1. CASE EstimateGap
  <2>1. /\ pc = "bins" /\ estimate1' = ApplyMethod
        /\ UNCHANGED <<pairs, sortedGaps, binSize>>
    BY <1>1 DEF EstimateGap, gapVars, sortVars
  <2>2. minGap' = minGap /\ maxGap' = maxGap
    BY <2>1 DEF minGap, maxGap, gapCount
  <2> QED BY <2>1, <2>2, EstimateBounds DEF EstimateWithinGaps
<1>2. CASE SkipRound
  BY <1>2 DEF SkipRound, EstimateWithinGaps, BadIteration, gapVars, gapCount
<1>3. CASE \/ Probe \/ ProbeExits \/ ComputeInterArrivalGaps \/ ProcessRound \/ WidenBins
           \/ CompressBins \/ NextPass \/ EndProbing \/ RemoveRound \/ KeepRound
           \/ EndClean \/ ApplyNewGraphicalMethod \/ CalculateUtilization
  <2>1. pc' # "next"
    BY <1>3 DEF Probe, ProbeExits, ComputeInterArrivalGaps, ProcessRound, WidenBins,
       CompressBins, NextPass, EndProbing, RemoveRound, KeepRound, EndClean,
       ApplyNewGraphicalMethod, CalculateUtilization
  <2> QED BY <2>1 DEF EstimateWithinGaps
<1>4. CASE UNCHANGED vars
  <2>1. UNCHANGED <<pc, round, pairs, sortedGaps, binSize, estimate1>>
    BY <1>4 DEF vars, gapVars, sortVars
  <2> QED BY <2>1
      DEF EstimateWithinGaps, BadIteration, gapCount, minGap, maxGap
<1> QED BY <1>1, <1>2, <1>3, <1>4 DEF Next, Finished

\* The typical gap is an average of at least one gap and lies between the smallest
\* gap and half a bin above the greatest, for every train, however the bins were
\* widened and whichever of them were thrown out.
THEOREM EstimatesWithin == Spec => []EstimateWithinGaps
<1>1. Init => EstimateWithinGaps
  BY DEF Init, EstimateWithinGaps
<1> QED BY <1>1, NextEstimate, RoundTyped, Binned, PTL DEF Spec

-----------------------------------------------------------------------------
(* Clean-up *)

HasGap(gv, r) == gv[r].sum # 0
Entry(ps, bws, r) == [size |-> ps[r], row |-> bws[r]]

\* f lists the first n rows with a typical gap, in order, as list has their entries.
Lists(f, list, n, gv, ps, bws) ==
  /\ f \in [1 .. Len(list) -> 0 .. n - 1]
  /\ \A k, l \in 1 .. Len(list) : k < l => f[k] < f[l]
  /\ \A k \in 1 .. Len(list) : HasGap(gv, f[k]) /\ list[k] = Entry(ps, bws, f[k])
  /\ \A r \in 0 .. n - 1 : HasGap(gv, r) => \E k \in 1 .. Len(list) : f[k] = r

\* Rows without a gap may be written.
LEMMA ListsKept ==
  ASSUME NEW f, NEW list, NEW n \in Nat, NEW gv, NEW ps, NEW bws, NEW gv2, NEW ps2, NEW bws2,
         Lists(f, list, n, gv, ps, bws),
         \A r \in 0 .. n - 1 : HasGap(gv2, r) <=> HasGap(gv, r),
         \A r \in 0 .. n - 1 : HasGap(gv, r) => ps2[r] = ps[r] /\ bws2[r] = bws[r]
  PROVE  Lists(f, list, n, gv2, ps2, bws2)
<1>1. ASSUME NEW k \in 1 .. Len(list)
      PROVE  HasGap(gv2, f[k]) /\ list[k] = Entry(ps2, bws2, f[k])
  <2>1. f[k] \in 0 .. n - 1 /\ HasGap(gv, f[k]) /\ list[k] = Entry(ps, bws, f[k])
    BY DEF Lists
  <2>2. HasGap(gv2, f[k])
    BY <2>1
  <2>3. ps2[f[k]] = ps[f[k]] /\ bws2[f[k]] = bws[f[k]]
    BY <2>1
  <2> QED BY <2>1, <2>2, <2>3 DEF Entry
<1>2. \A r \in 0 .. n - 1 : HasGap(gv2, r) => \E k \in 1 .. Len(list) : f[k] = r
  BY DEF Lists
<1> QED BY <1>1, <1>2 DEF Lists

\* A row behind all that are listed may be added.
LEMMA ListsAdd ==
  ASSUME NEW f, NEW S, NEW list \in Seq(S), NEW n \in Nat,
         NEW gv, NEW ps, NEW bws, NEW gv2, NEW ps2, NEW new \in 0 .. n - 1,
         Lists(f, list, n, gv, ps, bws),
         \A r \in 0 .. n - 1 : r >= new => ~HasGap(gv, r),
         \A r \in 0 .. n - 1 : r # new => gv2[r] = gv[r] /\ ps2[r] = ps[r],
         HasGap(gv2, new)
  PROVE  \E g : Lists(g, Append(list, Entry(ps2, bws, new)), n, gv2, ps2, bws)
<1> DEFINE m == Len(list)
           e == Entry(ps2, bws, new)
           list2 == Append(list, e)
           g == [k \in 1 .. m + 1 |-> IF k <= m THEN f[k] ELSE new]
<1>1. list \in Seq(S \cup {e}) /\ e \in S \cup {e} /\ m \in Nat
  OBVIOUS
<1> HIDE DEF e
<1>2. Len(list2) = m + 1 /\ list2[m + 1] = e /\ \A k \in 1 .. m : list2[k] = list[k]
  BY <1>1
<1>3. /\ f \in [1 .. m -> 0 .. n - 1] /\ \A k, l \in 1 .. m : k < l => f[k] < f[l]
      /\ \A k \in 1 .. m : HasGap(gv, f[k]) /\ list[k] = Entry(ps, bws, f[k])
      /\ \A r \in 0 .. n - 1 : HasGap(gv, r) => \E k \in 1 .. m : f[k] = r
  BY DEF Lists
<1>4. \A k \in 1 .. m : f[k] \in 0 .. n - 1 /\ f[k] < new
  BY <1>3
<1>5. /\ \A k \in 1 .. m : g[k] = f[k] /\ k \in 1 .. m + 1
      /\ g[m + 1] = new /\ m + 1 \in 1 .. m + 1
      /\ \A k \in 1 .. m + 1 : k \in 1 .. m \/ k = m + 1
  BY <1>1
<1>6. g \in [1 .. m + 1 -> 0 .. n - 1]
  BY <1>3, <1>5
<1> HIDE DEF g, list2, m
<1>7. \A k, l \in 1 .. m + 1 : k < l => g[k] < g[l]
  <2> SUFFICES ASSUME NEW k \in 1 .. m + 1, NEW l \in 1 .. m + 1, k < l
               PROVE  g[k] < g[l]
    OBVIOUS
  <2>1. k \in 1 .. m
    BY <1>1
  <2> QED BY <1>3, <1>4, <1>5, <2>1
<1>8. ASSUME NEW k \in 1 .. m + 1
      PROVE  HasGap(gv2, g[k]) /\ list2[k] = Entry(ps2, bws, g[k])
  <2>1. CASE k \in 1 .. m
    <3>1. g[k] = f[k] /\ f[k] \in 0 .. n - 1 /\ f[k] # new
      BY <1>4, <1>5, <2>1
    <3>2. gv2[f[k]] = gv[f[k]] /\ ps2[f[k]] = ps[f[k]]
      BY <3>1
    <3>3. HasGap(gv, f[k]) /\ list[k] = Entry(ps, bws, f[k])
      BY <1>3, <2>1
    <3>4. HasGap(gv2, g[k])
      BY <3>1, <3>2, <3>3 DEF HasGap
    <3>5. list2[k] = Entry(ps2, bws, g[k])
      BY <1>2, <2>1, <3>1, <3>2, <3>3 DEF Entry
    <3> QED BY <3>4, <3>5
  <2>2. CASE k = m + 1
    BY <1>2, <1>5, <2>2 DEF e
  <2> QED BY <1>5, <2>1, <2>2
<1>9. ASSUME NEW r \in 0 .. n - 1, HasGap(gv2, r)
      PROVE  \E k \in 1 .. m + 1 : g[k] = r
  <2>1. CASE r = new
    BY <1>5, <2>1
  <2>2. CASE r # new
    <3>1. HasGap(gv, r)
      BY <1>9, <2>2 DEF HasGap
    <3> QED BY <1>3, <1>5, <3>1
  <2> QED BY <2>1, <2>2
<1>10. Lists(g, list2, n, gv2, ps2, bws)
  BY <1>2, <1>6, <1>7, <1>8, <1>9 DEF Lists
<1> QED BY <1>10 DEF list2, e

\* Moved(t) is t with the entries behind row c moved down one position.
Moved(t, c, n) == [r \in Rows |-> IF r >= c /\ r < n - 1 THEN t[r + 1] ELSE t[r]]

\* A row without a gap may be taken out; the rows before it keep their places.
LEMMA ListsRemove ==
  ASSUME NEW f, NEW list, Len(list) \in Nat, NEW n \in 1 .. NUM_ROUNDS, NEW c \in 0 .. n - 1,
         NEW gv, NEW ps, NEW bws, Lists(f, list, n, gv, ps, bws), ~HasGap(gv, c)
  PROVE  \E g : /\ Lists(g, list, n - 1, Moved(gv, c, n), Moved(ps, c, n), Moved(bws, c, n))
                /\ \A k \in 1 .. Len(list) : f[k] < c => g[k] = f[k]
<1> DEFINE m == Len(list)
           Down(r) == IF r > c THEN r - 1 ELSE r
           g == [k \in 1 .. m |-> Down(f[k])]
<1>1. /\ f \in [1 .. m -> 0 .. n - 1] /\ \A k, l \in 1 .. m : k < l => f[k] < f[l]
      /\ \A k \in 1 .. m : HasGap(gv, f[k]) /\ list[k] = Entry(ps, bws, f[k])
      /\ \A r \in 0 .. n - 1 : HasGap(gv, r) => \E k \in 1 .. m : f[k] = r
  BY DEF Lists
<1>2. \A k \in 1 .. m : f[k] \in 0 .. n - 1 /\ f[k] # c
  BY <1>1
<1>3. ASSUME NEW r \in 0 .. n - 1, r # c
      PROVE  /\ Down(r) \in 0 .. n - 2
             /\ \A t : Moved(t, c, n)[Down(r)] = t[r]
  <2>1. Down(r) \in 0 .. n - 2 /\ Down(r) \in Rows
    BY <1>3, ConstantTypes DEF Rows
  <2>2. CASE r > c
    <3>1. Down(r) = r - 1 /\ Down(r) >= c /\ Down(r) < n - 1 /\ Down(r) + 1 = r
      BY <2>2
    <3> QED BY <2>1, <3>1 DEF Moved
  <2>3. CASE r < c
    <3>1. Down(r) = r /\ ~(Down(r) >= c)
      BY <2>3
    <3> QED BY <2>1, <3>1 DEF Moved
  <2> QED BY <1>3, <2>2, <2>3
<1>4. ASSUME NEW k \in 1 .. m
      PROVE  /\ g[k] = Down(f[k]) /\ g[k] \in 0 .. n - 2
             /\ HasGap(Moved(gv, c, n), g[k])
             /\ list[k] = Entry(Moved(ps, c, n), Moved(bws, c, n), g[k])
  <2>1. f[k] \in 0 .. n - 1 /\ f[k] # c /\ g[k] = Down(f[k])
    BY <1>2
  <2> HIDE DEF g, Down
  <2>2. g[k] \in 0 .. n - 2 /\ \A t : Moved(t, c, n)[g[k]] = t[f[k]]
    BY <1>3, <2>1
  <2>3. HasGap(gv, f[k]) /\ list[k] = Entry(ps, bws, f[k])
    BY <1>1
  <2>4. /\ Moved(gv, c, n)[g[k]] = gv[f[k]] /\ Moved(ps, c, n)[g[k]] = ps[f[k]]
        /\ Moved(bws, c, n)[g[k]] = bws[f[k]]
    BY ONLY <2>2
  <2>5. HasGap(Moved(gv, c, n), g[k])
    BY ONLY <2>3, <2>4 DEF HasGap
  <2>6. list[k] = Entry(Moved(ps, c, n), Moved(bws, c, n), g[k])
    BY ONLY <2>3, <2>4 DEF Entry
  <2> QED BY <2>1, <2>2, <2>5, <2>6
<1>5. \A k, l \in 1 .. m : k < l => g[k] < g[l]
  <2> SUFFICES ASSUME NEW k \in 1 .. m, NEW l \in 1 .. m, k < l PROVE g[k] < g[l]
    OBVIOUS
  <2>1. /\ f[k] \in 0 .. n - 1 /\ f[k] # c /\ f[l] \in 0 .. n - 1 /\ f[l] # c
        /\ f[k] < f[l]
    BY <1>1, <1>2
  <2>2. Down(f[k]) < Down(f[l])
    BY <2>1
  <2> QED BY <1>4, <2>2
<1>6. ASSUME NEW r \in 0 .. n - 2, HasGap(Moved(gv, c, n), r)
      PROVE  \E k \in 1 .. m : g[k] = r
  <2> DEFINE up == IF r >= c THEN r + 1 ELSE r
  <2>1. up \in 0 .. n - 1 /\ up # c /\ Down(up) = r
    OBVIOUS
  <2> HIDE DEF up
  <2>2. Moved(gv, c, n)[r] = gv[up]
    BY <1>3, <2>1
  <2>3. HasGap(gv, up)
    BY <1>6, <2>2 DEF HasGap
  <2>4. PICK k \in 1 .. m : f[k] = up
    BY <1>1, <2>1, <2>3
  <2> QED BY <1>4, <2>1, <2>4
<1>7. \A k \in 1 .. m : f[k] < c => g[k] = f[k]
  BY <1>2
<1>8. g \in [1 .. m -> 0 .. (n - 1) - 1]
  BY <1>4
<1> HIDE DEF g, Down
<1>9. Lists(g, list, n - 1, Moved(gv, c, n), Moved(ps, c, n), Moved(bws, c, n))
  BY <1>4, <1>5, <1>6, <1>8 DEF Lists
<1> QED BY <1>7, <1>9

Probing == {"probe", "gaps", "process", "floor", "bins", "next"}

\* Rows are listed, and the first clean ones are in their final places; while rounds
\* are probed the rows from this pass on have no gap.
KeptInv ==
  /\ \E S : kept \in Seq(S)
  /\ valid \in 0 .. NUM_ROUNDS /\ clean \in 0 .. valid /\ pass \in Nat
  /\ DOMAIN gapVector = Rows /\ DOMAIN probeSizes = Rows /\ DOMAIN bwsToPass = Rows
  /\ pc \in Probing =>
       /\ valid = NUM_ROUNDS /\ clean = 0
       /\ \A r \in Rows : r >= pass => ~HasGap(gapVector, r)
  /\ pc = "filter" => clean = valid
  /\ \E f : /\ Lists(f, kept, valid, gapVector, probeSizes, bwsToPass)
            /\ \A k \in 1 .. clean : k <= Len(kept) /\ f[k] = k - 1

LEMMA InitKept == Init => KeptInv
<1> SUFFICES ASSUME Init PROVE KeptInv
  OBVIOUS
<1>1. /\ kept = <<>> /\ Len(kept) = 0 /\ kept \in Seq({}) /\ clean = 0 /\ pass = 0
      /\ valid = NUM_ROUNDS /\ NUM_ROUNDS \in Nat /\ 0 .. NUM_ROUNDS - 1 = Rows
      /\ DOMAIN gapVector = Rows /\ DOMAIN probeSizes = Rows /\ DOMAIN bwsToPass = Rows
      /\ pc # "filter"
  BY ConstantTypes DEF Init, Rows
<1>2. \A r \in Rows : ~HasGap(gapVector, r)
  BY DEF Init, HasGap, NoEstimate
<1>3. 1 .. Len(kept) = {} /\ 1 .. clean = {}
  BY <1>1
<1>4. Lists([k \in 1 .. Len(kept) |-> 0], kept, valid, gapVector, probeSizes, bwsToPass)
  BY <1>1, <1>2, <1>3 DEF Lists
<1>5. \E f : /\ Lists(f, kept, valid, gapVector, probeSizes, bwsToPass)
             /\ \A k \in 1 .. clean : k <= Len(kept) /\ f[k] = k - 1
  BY <1>3, <1>4
<1> QED BY <1>1, <1>2, <1>5 DEF KeptInv

LEMMA KeptProcessRound == KeptInv /\ ProcessRound => KeptInv'
<1> SUFFICES ASSUME KeptInv, ProcessRound PROVE KeptInv'
  OBVIOUS
<1>1. /\ pc = "process" /\ pc' = "floor"
      /\ UNCHANGED <<gapVector, probeSizes, valid, clean, kept, pass>>
      /\ DOMAIN bwsToPass' = DOMAIN bwsToPass
      /\ \A r \in Rows : r # pass => bwsToPass'[r] = bwsToPass[r]
  BY DEF ProcessRound, finalVars, KeptInv
<1>2. /\ 0 .. valid - 1 = Rows /\ valid \in Nat /\ clean = 0 /\ pass \in Nat
      /\ \A r \in Rows : r >= pass => ~HasGap(gapVector, r)
  BY <1>1, ConstantTypes DEF KeptInv, Probing, Rows
<1>3. PICK f : Lists(f, kept, valid, gapVector, probeSizes, bwsToPass)
  BY DEF KeptInv
<1>4. \A r \in Rows : HasGap(gapVector, r) => bwsToPass'[r] = bwsToPass[r]
  BY <1>1, <1>2 DEF Rows
<1>5. Lists(f, kept, valid, gapVector, probeSizes, bwsToPass')
  BY <1>2, <1>3, <1>4, ListsKept
<1>6. \E g : /\ Lists(g, kept', valid', gapVector', probeSizes', bwsToPass')
             /\ \A k \in 1 .. clean' : k <= Len(kept') /\ g[k] = k - 1
  BY <1>1, <1>2, <1>5
<1> QED BY <1>1, <1>2, <1>6 DEF KeptInv, Probing

LEMMA KeptNextPass == KeptInv /\ PassInBounds /\ NextPass => KeptInv'
<1> SUFFICES ASSUME KeptInv, PassInBounds, NextPass PROVE KeptInv'
  OBVIOUS
<1>1. /\ pc = "next" /\ pc' = "probe" /\ pass' = pass + 1 /\ pass \in Rows /\ pass \in Nat
      /\ gapVector' = [gapVector EXCEPT ![pass] = estimate1]
      /\ probeSizes' = [probeSizes EXCEPT ![pass] = probeSize]
      /\ kept' = IF estimate1.sum = 0 THEN kept
                 ELSE Append(kept, [size |-> probeSize, row |-> bwsToPass[pass]])
      /\ UNCHANGED <<bwsToPass, valid, clean>>
  BY DEF NextPass, PassInBounds, finalVars, KeptInv
<1>2. /\ 0 .. valid - 1 = Rows /\ valid \in Nat /\ clean = 0
      /\ \A r \in Rows : r >= pass => ~HasGap(gapVector, r)
  BY <1>1, ConstantTypes DEF KeptInv, Probing, Rows
<1>3. /\ DOMAIN gapVector' = Rows /\ DOMAIN probeSizes' = Rows
      /\ \A r \in Rows : r # pass =>
           gapVector'[r] = gapVector[r] /\ probeSizes'[r] = probeSizes[r]
      /\ gapVector'[pass] = estimate1 /\ probeSizes'[pass] = probeSize
  BY <1>1 DEF KeptInv
<1>4. \A r \in Rows : r >= pass + 1 => ~HasGap(gapVector', r)
  <2>1. \A r \in Rows : r >= pass + 1 => r >= pass /\ r # pass
    BY <1>1 DEF Rows
  <2> QED BY <1>2, <1>3, <2>1 DEF HasGap
<1>5. PICK f : Lists(f, kept, valid, gapVector, probeSizes, bwsToPass)
  BY DEF KeptInv
<1>6. PICK S : kept \in Seq(S)
  BY DEF KeptInv
<1>7. (\E T : kept' \in Seq(T))
      /\ \E g : Lists(g, kept', valid, gapVector', probeSizes', bwsToPass)
  <2>1. CASE estimate1.sum = 0
    <3>1. \A r \in Rows : HasGap(gapVector', r) <=> HasGap(gapVector, r)
      <4>1. ~HasGap(gapVector', pass) /\ ~HasGap(gapVector, pass)
        BY <1>1, <1>2, <1>3, <2>1 DEF HasGap
      <4> QED BY <1>3, <4>1 DEF HasGap
    <3>2. \A r \in Rows : HasGap(gapVector, r) => probeSizes'[r] = probeSizes[r]
      BY <1>1, <1>2, <1>3
    <3>3. Lists(f, kept, valid, gapVector', probeSizes', bwsToPass)
      BY <1>2, <1>5, <3>1, <3>2, ListsKept
    <3> QED BY <1>1, <1>6, <2>1, <3>3
  <2>2. CASE estimate1.sum # 0
    <3> DEFINE e == Entry(probeSizes', bwsToPass, pass)
    <3>1. HasGap(gapVector', pass)
      BY <1>3, <2>2 DEF HasGap
    <3>2. kept' = Append(kept, e)
      BY <1>1, <1>3, <2>2 DEF Entry
    <3>3. \E g : Lists(g, Append(kept, e), valid, gapVector', probeSizes', bwsToPass)
      BY <1>1, <1>2, <1>3, <1>5, <1>6, <3>1, ListsAdd
    <3> HIDE DEF e
    <3>4. Append(kept, e) \in Seq(S \cup {e})
      BY <1>6
    <3> QED BY <3>2, <3>3, <3>4
  <2> QED BY <2>1, <2>2
<1>8. PICK g : Lists(g, kept', valid', gapVector', probeSizes', bwsToPass')
  BY <1>1, <1>7
<1>9. \E h : /\ Lists(h, kept', valid', gapVector', probeSizes', bwsToPass')
             /\ \A k \in 1 .. clean' : k <= Len(kept') /\ h[k] = k - 1
  BY <1>1, <1>2, <1>8
<1>10. /\ valid' \in 0 .. NUM_ROUNDS /\ clean' \in 0 .. valid' /\ pass' \in Nat
       /\ DOMAIN bwsToPass' = Rows /\ valid' = NUM_ROUNDS /\ clean' = 0
  BY <1>1 DEF KeptInv, Probing
<1> QED BY <1>1, <1>3, <1>4, <1>7, <1>9, <1>10 DEF KeptInv, Probing

LEMMA KeptRemoveRound == KeptInv /\ RemoveRound => KeptInv'
<1> SUFFICES ASSUME KeptInv, RemoveRound PROVE KeptInv'
  OBVIOUS
<1>1. /\ pc = "clean" /\ UNCHANGED <<pc, pass, clean, kept>> /\ valid' = valid - 1
      /\ clean < valid /\ ~HasGap(gapVector, clean)
      /\ gapVector' = Moved(gapVector, clean, valid)
      /\ probeSizes' = Moved(probeSizes, clean, valid)
      /\ bwsToPass' = Moved(bwsToPass, clean, valid)
  BY DEF RemoveRound, MovedDown, Moved, HasGap
<1>2. /\ valid \in 1 .. NUM_ROUNDS /\ clean \in 0 .. valid - 1 /\ clean \in Nat
      /\ valid' \in 0 .. NUM_ROUNDS /\ clean' \in 0 .. valid'
  BY <1>1, ConstantTypes DEF KeptInv
<1>3. PICK S : kept \in Seq(S)
  BY DEF KeptInv
<1>4. Len(kept) \in Nat
  BY <1>3
<1>5. PICK f : /\ Lists(f, kept, valid, gapVector, probeSizes, bwsToPass)
               /\ \A k \in 1 .. clean : k <= Len(kept) /\ f[k] = k - 1
  BY DEF KeptInv
<1>6. PICK g : /\ Lists(g, kept, valid - 1, gapVector', probeSizes', bwsToPass')
               /\ \A k \in 1 .. Len(kept) : f[k] < clean => g[k] = f[k]
  BY <1>1, <1>2, <1>4, <1>5, ListsRemove
<1>7. \A k \in 1 .. clean : k <= Len(kept) /\ g[k] = k - 1
  <2>1. \A k \in 1 .. clean : k \in 1 .. Len(kept) /\ f[k] = k - 1 /\ k - 1 < clean
    BY <1>2, <1>4, <1>5
  <2> QED BY <1>5, <1>6, <2>1
<1>8. \E h : /\ Lists(h, kept', valid', gapVector', probeSizes', bwsToPass')
             /\ \A k \in 1 .. clean' : k <= Len(kept') /\ h[k] = k - 1
  BY <1>1, <1>6, <1>7
<1>9. DOMAIN gapVector' = Rows /\ DOMAIN probeSizes' = Rows /\ DOMAIN bwsToPass' = Rows
  BY <1>1 DEF Moved
<1> QED BY <1>1, <1>2, <1>3, <1>8, <1>9 DEF KeptInv, Probing

\* A row with a gap at the place where a listing has got to is the next one listed.
LEMMA NextListed ==
  ASSUME NEW f, NEW list, Len(list) \in Nat, NEW n \in Nat, NEW c \in 0 .. n - 1,
         NEW gv, NEW ps, NEW bws, Lists(f, list, n, gv, ps, bws), HasGap(gv, c),
         \A k \in 1 .. c : k <= Len(list) /\ f[k] = k - 1
  PROVE  c + 1 <= Len(list) /\ f[c + 1] = c
<1>1. PICK k \in 1 .. Len(list) : f[k] = c
  BY DEF Lists
<1>2. /\ \A i, j \in 1 .. Len(list) : i < j => f[i] < f[j]
      /\ \A i \in 1 .. Len(list) : f[i] \in 0 .. n - 1
  BY DEF Lists
<1>3. k > c
  BY <1>1
<1>4. c + 1 \in 1 .. Len(list)
  BY <1>3
<1>5. CASE k = c + 1
  BY <1>1, <1>4, <1>5
<1>6. CASE k > c + 1
  <2>1. f[c + 1] < c /\ f[c + 1] \in 0 .. n - 1
    BY <1>1, <1>2, <1>4, <1>6
  <2> DEFINE i == f[c + 1] + 1
  <2>2. i \in 1 .. c
    BY <2>1
  <2>3. i \in 1 .. Len(list) /\ f[i] = f[c + 1] /\ i < c + 1
    BY <2>1, <2>2
  <2> QED BY <1>2, <1>4, <2>1, <2>3
<1> QED BY <1>3, <1>5, <1>6

LEMMA KeptKeepRound == KeptInv /\ KeepRound => KeptInv'
<1> SUFFICES ASSUME KeptInv, KeepRound PROVE KeptInv'
  OBVIOUS
<1>1. /\ pc = "clean" /\ clean < valid /\ clean' = clean + 1
      /\ HasGap(gapVector, clean)
      /\ UNCHANGED <<pc, pass, probeSizes, gapVector, bwsToPass, valid, kept>>
  BY DEF KeepRound, tableVars, HasGap
<1>2. /\ valid \in Nat /\ clean \in 0 .. valid - 1 /\ clean \in Nat
      /\ clean' \in 0 .. valid'
  BY <1>1, ConstantTypes DEF KeptInv
<1>3. Len(kept) \in Nat
  BY DEF KeptInv
<1>4. PICK f : /\ Lists(f, kept, valid, gapVector, probeSizes, bwsToPass)
               /\ \A k \in 1 .. clean : k <= Len(kept) /\ f[k] = k - 1
  BY DEF KeptInv
<1>5. clean + 1 <= Len(kept) /\ f[clean + 1] = clean
  BY <1>1, <1>2, <1>3, <1>4, NextListed
<1>6. \A k \in 1 .. clean + 1 : k <= Len(kept) /\ f[k] = k - 1
  <2>1. \A k \in 1 .. clean + 1 : k \in 1 .. clean \/ k = clean + 1
    BY <1>2
  <2> QED BY <1>2, <1>4, <1>5, <2>1
<1>7. \E g : /\ Lists(g, kept', valid', gapVector', probeSizes', bwsToPass')
             /\ \A k \in 1 .. clean' : k <= Len(kept') /\ g[k] = k - 1
  BY <1>1, <1>4, <1>6
<1> QED BY <1>1, <1>2, <1>7 DEF KeptInv, Probing

LEMMA NextKept == KeptInv /\ PassInBounds /\ [Next]_vars => KeptInv'
<1> SUFFICES ASSUME KeptInv, PassInBounds, [Next]_vars PROVE KeptInv'
  OBVIOUS
<1>1. CASE \/ Probe \/ ComputeInterArrivalGaps \/ SkipRound \/ WidenBins
           \/ CompressBins \/ EstimateGap \/ EndProbing \/ ProbeExits
           \/ ApplyNewGraphicalMethod \/ CalculateUtilization \/ UNCHANGED vars
  <2>1. UNCHANGED <<pass, probeSizes, gapVector, bwsToPass, valid, clean, kept>>
    BY <1>1 DEF Probe, ComputeInterArrivalGaps, SkipRound, WidenBins, CompressBins,
       EstimateGap, EndProbing, ProbeExits, ApplyNewGraphicalMethod, CalculateUtilization,
       vars, tableVars, finalVars
  <2>2. (pc' \in Probing => pc \in Probing) /\ (pc' = "filter" => pc = "filter")
    BY <1>1 DEF Probe, ComputeInterArrivalGaps, SkipRound, WidenBins, CompressBins,
       EstimateGap, EndProbing, ProbeExits, ApplyNewGraphicalMethod, CalculateUtilization,
       vars, Probing
  <2> QED BY <2>1, <2>2 DEF KeptInv
<1>2. CASE EndClean
  <2>1. /\ UNCHANGED <<pass, probeSizes, gapVector, bwsToPass, valid, clean, kept>>
        /\ clean >= valid /\ pc' = "filter"
    BY <1>2 DEF EndClean, tableVars, finalVars
  <2>2. clean' = valid'
    BY <2>1, ConstantTypes DEF KeptInv
  <2> QED BY <2>1, <2>2 DEF KeptInv, Probing
<1> QED BY <1>1, <1>2, KeptProcessRound, KeptNextPass, KeptRemoveRound, KeptKeepRound
    DEF Next, Finished

\* Removing rows while walking over them leaves exactly the rounds that gave a
\* typical gap, in order, whichever rounds gave none.
THEOREM CleanKeeps ==
  ASSUME FirstSize = 124, SizeLimit = 1400, NUM_ROUNDS >= 7
  PROVE  Spec => []CleanKeepsRounds
<1>1. KeptInv => CleanKeepsRounds
  <2> SUFFICES ASSUME KeptInv, pc = "filter"
               PROVE  /\ valid = Len(kept)
                      /\ \A r \in ValidRows : kept[r + 1] = Entry(probeSizes, bwsToPass, r)
    BY DEF CleanKeepsRounds, Entry
  <2>1. Len(kept) \in Nat /\ valid \in Nat /\ clean = valid
    BY ConstantTypes DEF KeptInv
  <2>2. PICK f : /\ Lists(f, kept, valid, gapVector, probeSizes, bwsToPass)
                 /\ \A k \in 1 .. valid : k <= Len(kept) /\ f[k] = k - 1
    BY <2>1 DEF KeptInv
  <2>3. /\ \A k \in 1 .. Len(kept) :
             f[k] \in 0 .. valid - 1 /\ kept[k] = Entry(probeSizes, bwsToPass, f[k])
        /\ \A k, l \in 1 .. Len(kept) : k < l => f[k] < f[l]
    BY <2>2 DEF Lists
  <2>4. valid <= Len(kept)
    <3>1. CASE valid = 0
      BY <2>1, <3>1
    <3>2. CASE valid > 0
      BY <2>1, <2>2, <3>2
    <3> QED BY <2>1, <3>1, <3>2
  <2>5. ASSUME valid < Len(kept) PROVE FALSE
    <3>1. valid + 1 \in 1 .. Len(kept) /\ f[valid + 1] \in 0 .. valid - 1
      BY <2>1, <2>3, <2>5
    <3> DEFINE i == f[valid + 1] + 1
    <3>2. i \in 1 .. valid /\ i \in 1 .. Len(kept) /\ i < valid + 1
      BY <2>1, <2>4, <3>1
    <3>3. f[i] = f[valid + 1]
      BY <2>2, <3>1, <3>2
    <3> QED BY <2>3, <3>1, <3>2, <3>3
  <2>6. ASSUME NEW r \in ValidRows PROVE kept[r + 1] = Entry(probeSizes, bwsToPass, r)
    <3>1. r + 1 \in 1 .. valid /\ r + 1 \in 1 .. Len(kept) /\ (r + 1) - 1 = r
      BY <2>1, <2>4 DEF ValidRows
    <3> QED BY <2>2, <2>3, <3>1
  <2> QED BY <2>1, <2>4, <2>5, <2>6
<1>2. Spec => []PassInBounds
  BY RoundsFitTables
<1> QED BY <1>1, <1>2, InitKept, NextKept, PTL DEF Spec

-----------------------------------------------------------------------------
(* The tables *)

\* The readings of one packet size, by growing gaps.
AscendingRow(row) ==
  /\ DOMAIN row \subseteq 1 .. PacketCount
  /\ \E bytes \in Nat : \A k \in DOMAIN row : row[k].bytes = bytes /\ row[k].gap \in Int
  /\ \A j, k \in DOMAIN row : j < k => row[j].gap <= row[k].gap

TableInv ==
  /\ probeSize \in Nat /\ binSize \in Nat
  /\ DOMAIN departGaps = Indices(gapCount)
  /\ estimate1.count \in Nat \ {0}
  /\ DOMAIN gapVector = Rows /\ DOMAIN bwsToPass = Rows /\ DOMAIN loads = Rows
  /\ \A r \in Rows : /\ gapVector[r].count \in Nat \ {0}
                      /\ AscendingRow(bwsToPass[r])
                      /\ DOMAIN loads[r] \subseteq 1 .. PacketCount
  /\ valid \in 0 .. NUM_ROUNDS /\ clean \in 0 .. valid
  /\ accepted \in SUBSET (Rows \X (1 .. PacketCount))

\* The k-th element of a set lies below the l-th if k is below l.
LEMMA NthAscends ==
  ASSUME NEW S \in SUBSET Nat, IsFiniteSet(S),
         NEW k \in Indices(Cardinality(S)), NEW l \in Indices(Cardinality(S)), k < l
  PROVE  Nth(S, k) < Nth(S, l)
<1> DEFINE a == Nth(S, k)
           b == Nth(S, l)
<1>1. /\ a \in S /\ Cardinality({j \in S : j < a}) = k
      /\ b \in S /\ Cardinality({j \in S : j < b}) = l
  BY NthInPairs
<1>2. a \in Nat /\ b \in Nat
  BY <1>1
<1> HIDE DEF a, b
<1>3. k \in Int /\ l \in Int
  BY FS_CardinalityType DEF Indices
<1> QED BY <1>1, <1>2, <1>3, RanksAscend DEF a, b, Rank

\* Out of sorted gaps, the plausible ones make an ascending row.
LEMMA PlausibleRow ==
  ASSUME RoundTypes, NEW sorted, NEW sortedD, NEW bytes \in Nat,
         \A p \in Indices(gapCount) : sorted[p] \in Int,
         \A p, q \in Indices(gapCount) : p <= q => sorted[p] <= sorted[q],
         NEW row, row = PlausiblePairs(sorted, sortedD)
  PROVE  /\ DOMAIN row \subseteq 1 .. PacketCount
         /\ AscendingRow([k \in DOMAIN row |-> [bytes |-> bytes, gap |-> row[k].gap]])
<1> DEFINE S == {k \in Indices(gapCount) : Plausible(sorted[k], sortedD[k])}
           n == Cardinality(S)
           new == [k \in DOMAIN row |-> [bytes |-> bytes, gap |-> row[k].gap]]
<1>1. gapCount \in Nat /\ gapCount <= PacketCount
  BY GapCountType
<1>2. /\ IsFiniteSet(S) /\ S \in SUBSET Nat /\ n \in Nat /\ n <= PacketCount
  <2>1. S \in SUBSET Indices(gapCount)
    OBVIOUS
  <2>2. /\ IsFiniteSet(Indices(gapCount)) /\ Cardinality(Indices(gapCount)) = gapCount
    BY <1>1, IndicesFinite
  <2>3. IsFiniteSet(S) /\ n <= gapCount
    BY <2>1, <2>2, FS_Subset
  <2>4. n \in Nat
    BY <2>3, FS_CardinalityType
  <2>5. S \in SUBSET Nat
    BY <2>1 DEF Indices
  <2> QED BY <1>1, <2>3, <2>4, <2>5, ConstantTypes
<1>3. DOMAIN row = 1 .. n /\ \A k \in 1 .. n : row[k].gap = sorted[Nth(S, k - 1)]
  BY DEF PlausiblePairs
<1>4. \A k \in 1 .. n : k - 1 \in Indices(n)
  BY <1>2 DEF Indices
<1>5. \A k \in 1 .. n : Nth(S, k - 1) \in S
  BY <1>2, <1>4, NthInPairs
<1>6. \A k \in 1 .. n : row[k].gap \in Int
  BY <1>3, <1>5
<1>7. ASSUME NEW j \in 1 .. n, NEW k \in 1 .. n, j < k
      PROVE  row[j].gap <= row[k].gap
  <2>1. j - 1 \in Indices(n) /\ k - 1 \in Indices(n) /\ j - 1 < k - 1
    BY <1>2, <1>4, <1>7
  <2>2. Nth(S, j - 1) < Nth(S, k - 1)
    BY <1>2, <2>1, NthAscends
  <2>3. /\ Nth(S, j - 1) \in Indices(gapCount) /\ Nth(S, k - 1) \in Indices(gapCount)
    BY <1>5
  <2>4. Nth(S, j - 1) \in Int /\ Nth(S, k - 1) \in Int
    BY <1>1, <2>3 DEF Indices
  <2>5. sorted[Nth(S, j - 1)] <= sorted[Nth(S, k - 1)]
    BY <2>2, <2>3, <2>4
  <2> QED BY <1>3, <2>5
<1> HIDE DEF S, n
<1>8. DOMAIN row \subseteq 1 .. PacketCount
  BY <1>2, <1>3, ConstantTypes
<1>9. /\ DOMAIN new = DOMAIN row
      /\ \A k \in DOMAIN row : new[k].bytes = bytes /\ new[k].gap = row[k].gap
  OBVIOUS
<1> HIDE DEF new
<1>10. AscendingRow(new)
  BY <1>3, <1>6, <1>7, <1>8, <1>9 DEF AscendingRow
<1> QED BY <1>8, <1>10 DEF new
LEMMA InitTables == Init => TableInv
<1> SUFFICES ASSUME Init PROVE TableInv
  OBVIOUS
<1>1. gapCount = 0 /\ DOMAIN departGaps = Indices(gapCount)
  BY FS_EmptySet DEF Init, gapCount, Indices
<1>2. AscendingRow(<<>>) /\ DOMAIN <<>> \subseteq 1 .. PacketCount
  BY DEF AscendingRow
<1>3. NoEstimate.count \in Nat \ {0}
  BY DEF NoEstimate
<1>4. FirstSize \in Nat /\ NUM_ROUNDS \in Nat
  BY BprobeAssumption
<1> QED BY <1>1, <1>2, <1>3, <1>4 DEF Init, TableInv

LEMMA NextSizeType ==
  ASSUME probeSize \in Nat, NEW passes
  PROVE  NextSize(passes) \in Nat
<1>1. (13 * probeSize) \div 10 \in Nat /\ (17 * probeSize) \div 10 \in Nat
  OBVIOUS
<1>2. ASSUME NEW n \in Nat PROVE RoundedUpToEven(n) \in Nat
  BY DEF RoundedUpToEven
<1> QED BY <1>1, <1>2 DEF NextSize

LEMMA FloorBinSize ==
  ASSUME BinInv', pc' = "floor"
  PROVE  binSize' \in Nat
BY DEF BinInv

LEMMA TablesProcessRound ==
  ASSUME RoundTypes, BinInv, BinInv', TableInv, ProcessRound
  PROVE  TableInv'
<1> DEFINE n == gapCount
           row == PlausiblePairs(sortedGaps', sortedDGaps')
           readings == [k \in DOMAIN row |-> [bytes |-> probeSize + 82, gap |-> row[k].gap]]
           offered == [k \in DOMAIN row |-> [bytes |-> probeSize, gap |-> row[k].depart]]
<1>1. /\ UNCHANGED <<probeSize, pairs, departGaps, estimate1, gapVector, valid, clean, accepted>>
      /\ sortedGaps' = SortBy(gaps, gapCount, gaps, sortedGaps)
      /\ bwsToPass' = [bwsToPass EXCEPT ![pass] = readings]
      /\ loads' = [loads EXCEPT ![pass] = offered]
      /\ pc' = "floor"
  BY DEF ProcessRound, gapVars, finalVars
<1>2. gapCount \in Nat /\ gaps \in [Indices(gapCount) -> Int]
      /\ Indices(gapCount) \subseteq DOMAIN sortedGaps
  BY GapCountType DEF RoundTypes
<1>3. /\ \A p \in Indices(gapCount) : sortedGaps'[p] \in Int
      /\ \A p, q \in Indices(gapCount) : p <= q => sortedGaps'[p] <= sortedGaps'[q]
  <2> DEFINE before == sortedGaps
             sorted == sortedGaps'
  <2>1. sorted = SortBy(gaps, n, gaps, before)
    BY <1>1
  <2> HIDE DEF n, before, sorted
  <2>2. /\ \A i \in Indices(n) : sorted[Position(gaps, n, i)] = gaps[i]
        /\ \A p, q \in Indices(n) : p <= q => sorted[p] <= sorted[q]
    BY <1>2, <2>1, SortByAscends DEF n, before
  <2>3. \A p \in Indices(n) : \E i \in Indices(n) : Position(gaps, n, i) = p
    BY <1>2, PositionsPermute DEF n
  <2> QED BY <1>2, <2>2, <2>3 DEF n, sorted
<1>4. probeSize + 82 \in Nat
  BY DEF TableInv
<1>5. DOMAIN row \subseteq 1 .. PacketCount /\ AscendingRow(readings)
  <2> DEFINE bytes == probeSize + 82
             sorted == sortedGaps'
             sortedD == sortedDGaps'
  <2> HIDE DEF bytes, sorted, sortedD
  <2>1. /\ bytes \in Nat
        /\ \A p \in Indices(gapCount) : sorted[p] \in Int
        /\ \A p, q \in Indices(gapCount) : p <= q => sorted[p] <= sorted[q]
    BY <1>3, <1>4 DEF bytes, sorted
  <2>2. row = PlausiblePairs(sorted, sortedD)
    BY DEF sorted, sortedD
  <2> HIDE DEF row
  <2>3. /\ DOMAIN row \subseteq 1 .. PacketCount
        /\ AscendingRow([k \in DOMAIN row |-> [bytes |-> bytes, gap |-> row[k].gap]])
    BY <2>1, <2>2, PlausibleRow
  <2> QED BY <2>3 DEF bytes
<1>6. DOMAIN offered \subseteq 1 .. PacketCount
  BY <1>5
<1> HIDE DEF n, row, readings, offered
<1>7. /\ DOMAIN bwsToPass' = Rows /\ DOMAIN loads' = Rows
      /\ \A r \in Rows : /\ bwsToPass'[r] = bwsToPass[r] \/ bwsToPass'[r] = readings
                         /\ loads'[r] = loads[r] \/ loads'[r] = offered
  BY <1>1 DEF TableInv
<1>8. binSize' \in Nat
  BY <1>1, FloorBinSize
<1>9. /\ \A r \in Rows : AscendingRow(bwsToPass'[r]) /\ DOMAIN loads'[r] \subseteq 1 .. PacketCount
  <2> SUFFICES ASSUME NEW r \in Rows
               PROVE  AscendingRow(bwsToPass'[r]) /\ DOMAIN loads'[r] \subseteq 1 .. PacketCount
    OBVIOUS
  <2>1. AscendingRow(bwsToPass[r]) /\ DOMAIN loads[r] \subseteq 1 .. PacketCount
    BY DEF TableInv
  <2>2. AscendingRow(bwsToPass'[r])
    <3>1. CASE bwsToPass'[r] = bwsToPass[r]
      BY <3>1, <2>1
    <3>2. CASE bwsToPass'[r] = readings
      BY <3>2, <1>5
    <3> QED BY <1>7, <3>1, <3>2
  <2>3. DOMAIN loads'[r] \subseteq 1 .. PacketCount
    BY <1>6, <1>7, <2>1
  <2> QED BY <2>2, <2>3
<1> QED BY <1>1, <1>7, <1>8, <1>9 DEF TableInv, gapCount

LEMMA TablesRemoveRound ==
  ASSUME TableInv, RemoveRound
  PROVE  TableInv'
<1>1. /\ UNCHANGED <<probeSize, binSize, pairs, departGaps, estimate1, loads, clean, accepted>>
      /\ gapVector' = MovedDown(gapVector) /\ bwsToPass' = MovedDown(bwsToPass)
      /\ clean < valid /\ valid' = valid - 1
  BY DEF RemoveRound, gapVars
<1>2. valid' \in 0 .. NUM_ROUNDS /\ clean' \in 0 .. valid'
  BY <1>1, ConstantTypes DEF TableInv
<1>3. ASSUME NEW table
      PROVE  /\ DOMAIN MovedDown(table) = Rows
             /\ \A r \in Rows : \E t \in Rows : MovedDown(table)[r] = table[t]
  <2> SUFFICES ASSUME NEW r \in Rows PROVE \E t \in Rows : MovedDown(table)[r] = table[t]
    BY DEF MovedDown
  <2>1. r >= clean /\ r < valid - 1 => r + 1 \in Rows
    BY ConstantTypes DEF TableInv, Rows
  <2> QED BY <2>1 DEF MovedDown
<1>4. /\ DOMAIN gapVector' = Rows
      /\ \A r \in Rows : \E t \in Rows : gapVector'[r] = gapVector[t]
  BY <1>1, <1>3
<1>5. /\ DOMAIN bwsToPass' = Rows
      /\ \A r \in Rows : \E t \in Rows : bwsToPass'[r] = bwsToPass[t]
  BY <1>1, <1>3
<1>6. \A r \in Rows : gapVector'[r].count \in Nat \ {0} /\ AscendingRow(bwsToPass'[r])
  BY <1>4, <1>5 DEF TableInv
<1> QED BY <1>1, <1>2, <1>4, <1>5, <1>6 DEF TableInv, gapCount

LEMMA NextTables == RoundTypes /\ BinInv /\ BinInv' /\ TableInv /\ [Next]_vars => TableInv'
<1> SUFFICES ASSUME RoundTypes, BinInv, BinInv', TableInv, [Next]_vars PROVE TableInv'
  OBVIOUS
<1>1. CASE ComputeInterArrivalGaps
  <2>1. DOMAIN departGaps' = Indices(gapCount')
    BY <1>1 DEF ComputeInterArrivalGaps, GapsOf, gapCount, Indices
  <2> QED BY <1>1, <2>1 DEF ComputeInterArrivalGaps, TableInv, tableVars, finalVars
<1>2. CASE SkipRound
  <2>1. estimate1'.count \in Nat \ {0}
    BY <1>2 DEF SkipRound, NoEstimate
  <2> QED BY <1>2, <2>1 DEF SkipRound, TableInv, gapVars, tableVars, finalVars, gapCount
<1>3. CASE ProcessRound
  BY <1>3, TablesProcessRound
<1>4. CASE WidenBins \/ CompressBins
  <2>1. binSize' \in Nat
    BY <1>4 DEF WidenBins, CompressBins, TableInv
  <2>2. UNCHANGED <<probeSize, pairs, departGaps, estimate1, gapVector, bwsToPass, loads,
                    valid, clean, accepted>>
    BY <1>4 DEF WidenBins, CompressBins, gapVars, tableVars, finalVars
  <2> QED BY <2>1, <2>2 DEF TableInv, gapCount
<1>5. CASE EstimateGap
  <2>1. estimate1'.count \in Nat \ {0}
    BY <1>5, EstimateBounds DEF EstimateGap
  <2> QED BY <1>5, <2>1 DEF EstimateGap, TableInv, gapVars, tableVars, finalVars, gapCount
<1>6. CASE NextPass
  <2>1. /\ UNCHANGED <<binSize, pairs, departGaps, estimate1, bwsToPass, loads, valid, clean,
                       accepted>>
        /\ gapVector' = [gapVector EXCEPT ![pass] = estimate1]
        /\ probeSize' = NextSize(pass + 1)
    BY <1>6 DEF NextPass, gapVars, finalVars
  <2>2. probeSize' \in Nat
    BY <2>1, NextSizeType DEF TableInv
  <2>3. /\ DOMAIN gapVector' = Rows
        /\ \A r \in Rows : gapVector'[r].count \in Nat \ {0}
    BY <2>1 DEF TableInv
  <2> QED BY <2>1, <2>2, <2>3 DEF TableInv, gapCount
<1>7. CASE RemoveRound
  BY <1>7, TablesRemoveRound
<1>8. CASE KeepRound
  <2>1. /\ UNCHANGED <<probeSize, binSize, pairs, departGaps, estimate1, gapVector, bwsToPass,
                       loads, valid, accepted>>
        /\ clean < valid /\ clean' = clean + 1
    BY <1>8 DEF KeepRound, gapVars, tableVars
  <2>2. clean' \in 0 .. valid'
    BY <2>1, ConstantTypes DEF TableInv
  <2> QED BY <2>1, <2>2 DEF TableInv, gapCount
<1>9. CASE CalculateUtilization
  <2>1. UNCHANGED <<probeSize, binSize, pairs, departGaps, estimate1, gapVector, bwsToPass,
                    loads, valid, clean>>
    BY <1>9 DEF CalculateUtilization, gapVars, tableVars
  <2>2. accepted' \subseteq UNION {{r} \X PositiveColumns(r) : r \in ValidRows}
    BY <1>9 DEF CalculateUtilization
  <2>3. ASSUME NEW r \in ValidRows
        PROVE  {r} \X PositiveColumns(r) \subseteq Rows \X (1 .. PacketCount)
    <3>1. r \in Rows
      BY ConstantTypes DEF ValidRows, Rows, TableInv
    <3>2. PositiveColumns(r) \subseteq 1 .. PacketCount
      BY <3>1 DEF PositiveColumns, TableInv, AscendingRow
    <3> QED BY <3>1, <3>2
  <2>4. accepted' \in SUBSET (Rows \X (1 .. PacketCount))
    BY <2>2, <2>3
  <2> QED BY <2>1, <2>4 DEF TableInv, gapCount
<1>10. CASE \/ Probe \/ ProbeExits \/ EndProbing \/ EndClean \/ ApplyNewGraphicalMethod
            \/ UNCHANGED vars
  <2>1. UNCHANGED <<probeSize, binSize, pairs, departGaps, estimate1, gapVector, bwsToPass,
                    loads, valid, clean, accepted>>
    BY <1>10 DEF Probe, ProbeExits, EndProbing, EndClean, ApplyNewGraphicalMethod, vars,
       gapVars, tableVars, finalVars
  <2> QED BY <2>1 DEF TableInv, gapCount
<1> QED BY <1>1, <1>2, <1>3, <1>4, <1>5, <1>6, <1>7, <1>8, <1>9, <1>10 DEF Next, Finished

LEMMA Tables == Spec => []TableInv
BY InitTables, NextTables, RoundTyped, Binned, PTL DEF Spec

\* The variables keep their types, for every train; with the sizes of the source the
\* pass stays within the tables.
THEOREM TypeCorrect ==
  ASSUME FirstSize = 124, SizeLimit = 1400, NUM_ROUNDS >= 7
  PROVE  Spec => []TypeOK
<1>1. Init => SizeInv
  BY SizeInit
<1>2. SizeInv /\ [Next]_vars => SizeInv'
  BY SizeStep
<1>3. SizeInv /\ RoundTypes /\ TableInv => TypeOK
  <2> SUFFICES ASSUME SizeInv, RoundTypes, TableInv PROVE TypeOK
    OBVIOUS
  <2>1. pass \in 0 .. NUM_ROUNDS
    BY BprobeAssumption DEF SizeInv, Schedule
  <2>2. DOMAIN gaps = Indices(gapCount) /\ DOMAIN sortedGaps = Train /\ pairs \subseteq Train
    BY DEF RoundTypes
  <2>3. \A r \in Rows : gapVector[r].count > 0
    BY DEF TableInv
  <2> QED BY <2>1, <2>2, <2>3 DEF TableInv, TypeOK
<1> QED BY <1>1, <1>2, <1>3, RoundTyped, Tables, PTL DEF Spec

\* Every row has its readings in descending order, the order that createSet() relies
\* on: for every train, with equal gaps, and after rows have moved down.
THEOREM RowsDescend == Spec => []RowsDescending
<1>1. TableInv => RowsDescending
  <2> SUFFICES ASSUME TableInv, NEW r \in Rows,
                      NEW j \in PositiveColumns(r), NEW k \in PositiveColumns(r), j < k
               PROVE  ~Below(bwsToPass[r][j], bwsToPass[r][k])
    BY DEF RowsDescending
  <2> DEFINE row == bwsToPass[r]
  <2>1. AscendingRow(row) /\ j \in DOMAIN row /\ k \in DOMAIN row
    BY DEF TableInv, PositiveColumns
  <2> HIDE DEF row
  <2>2. PICK bytes \in Nat : \A c \in DOMAIN row : row[c].bytes = bytes /\ row[c].gap \in Int
    BY <2>1 DEF AscendingRow
  <2>3. row[j].gap <= row[k].gap
    BY <2>1 DEF AscendingRow
  <2>4. ASSUME NEW x \in Int, NEW y \in Int, x <= y
        PROVE  ~(bytes * y < bytes * x)
    <3>1. bytes * x <= bytes * y
      BY <2>4
    <3>2. bytes * x \in Int /\ bytes * y \in Int
      BY <2>4
    <3> QED BY <3>1, <3>2
  <2>5. ~Below(row[j], row[k])
    BY <2>1, <2>2, <2>3, <2>4 DEF Below
  <2> QED BY <2>5 DEF row
<1> QED BY <1>1, Tables, PTL
=============================================================================
