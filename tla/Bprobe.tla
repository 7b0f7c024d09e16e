------------------------------- MODULE Bprobe -------------------------------
(***************************************************************************)
(* bprobe.c: probeLoop() of bprobe.  One round of probes per packet size;  *)
(* the gaps of a usable round give a row of bandwidth readings and, by way *)
(* of a histogram, a typical gap.  Rounds without one are cleaned away and *)
(* the rows go to the filter (module Filter) and to the utilization.       *)
(*                                                                         *)
(* A round is an element of Outcomes, the results of rprobe() (module      *)
(* Rprobe).  Floats are exact here: a bandwidth is kept as the packet's    *)
(* bytes and the gap it is divided by, a bin size in units of 0.01, a      *)
(* typical gap as the sum of bin centres, in the same units, and their     *)
(* number.                                                                 *)
(***************************************************************************)
EXTENDS Gaps, SortGaps, Functions, Sequences

CONSTANTS
  NUM_ROUNDS,     \* rows of the matrices (10)
  PacketCount,    \* packets per round (10)
  FirstSize,      \* first probe size (124)
  SizeLimit,      \* probe sizes stay below (1400)
  MaxOccupied,    \* bins that may be occupied (7)
  MinPeakSize,    \* readings the filter asks for (7)
  MinNumSets,     \* rows they have to come from (2)
  Outcomes        \* what a call of rprobe() can return; the arrays include
                  \* the slot past the train, which holds anything

Train == 0 .. PacketCount - 1
Slots == 0 .. PacketCount
Rows == 0 .. NUM_ROUNDS - 1

\* Module RprobeProofs shows what is assumed of orderOK (theorem OrderedPairs).
ASSUME BprobeAssumption ==
  /\ NUM_ROUNDS \in Nat \ {0} /\ PacketCount \in Nat \ {0, 1}
  /\ FirstSize \in Nat /\ SizeLimit \in Nat /\ MaxOccupied \in Nat \ {0, 1}
  /\ Outcomes \subseteq [arrive : [Slots -> 0 .. ULongMax], depart : [Slots -> 0 .. ULongMax],
                         orderOK : [Slots -> BOOLEAN],
                         inOrder : BOOLEAN, duplicates : BOOLEAN]
  /\ \A o \in Outcomes : ~o.duplicates =>
       \A i \in Train \ {0} : o.orderOK[i] /\ o.arrive[i] # LostTime =>
         o.arrive[i - 1] <= o.arrive[i]

NoEstimate == [sum |-> 0, count |-> 1]      \* estimate1 = 0.0
NoBase == [bytes |-> 0, gap |-> 1]          \* estimate6 = 0.0

VARIABLES
  pc,             \* "probe", "gaps", "process", "floor", "bins", "next",
                  \* "clean", "filter", "utilization", "done" or "exit"
  pass, probeSize,
  round,          \* the arrays and return codes rprobe() filled in
  pairs,          \* the pairs behind gaps[] and departGaps[]
  gaps, departGaps, sortedGaps, sortedDGaps,
  binSize,
  estimate1,
  probeSizes, gapVector, bwsToPass,   \* per pass, then per valid round
  loads,          \* interDepartureMatrix and packetSizeMatrix, row by row
  valid, clean,   \* numberOfProbeRounds and i of cleanData()
  estimate6,
  accepted,       \* readings that enter the utilization
  kept            \* history: the rounds that gave a typical gap

gapVars == <<pairs, gaps, departGaps>>
sortVars == <<sortedGaps, sortedDGaps>>
tableVars == <<probeSizes, gapVector, bwsToPass>>
finalVars == <<valid, clean, estimate6, accepted>>
vars == <<pc, pass, probeSize, round, gapVars, sortVars, binSize, estimate1,
          tableVars, loads, finalVars, kept>>

Init ==
  /\ pc = "probe" /\ pass = 0 /\ probeSize = FirstSize
  /\ round = CHOOSE o \in Outcomes : TRUE      \* not read before Probe
  /\ pairs = {} /\ gaps = <<>> /\ departGaps = <<>>
  /\ sortedGaps = [i \in Train |-> 0] /\ sortedDGaps = [i \in Train |-> 0]
  /\ binSize = 0 /\ estimate1 = NoEstimate
  /\ probeSizes = [r \in Rows |-> 0]
  /\ gapVector = [r \in Rows |-> NoEstimate]
  /\ bwsToPass = [r \in Rows |-> <<>>]
  /\ loads = [r \in Rows |-> <<>>]
  /\ valid = NUM_ROUNDS /\ clean = 0
  /\ estimate6 = NoBase /\ accepted = {}
  /\ kept = <<>>

-----------------------------------------------------------------------------
(* A round *)

Probe ==
  /\ pc = "probe" /\ probeSize < SizeLimit
  /\ round' \in Outcomes
  /\ pc' = "gaps"
  /\ UNCHANGED <<pass, probeSize, gapVars, sortVars, binSize, estimate1,
                 tableVars, loads, finalVars, kept>>

\* rprobe() cannot set the round up and the process exits.
ProbeExits ==
  /\ pc = "probe" /\ probeSize < SizeLimit
  /\ pc' = "exit"
  /\ UNCHANGED <<pass, probeSize, round, gapVars, sortVars, binSize, estimate1,
                 tableVars, loads, finalVars, kept>>

ComputeInterArrivalGaps ==
  /\ pc = "gaps"
  /\ pairs' = MeasuredPairsInOrder(PacketCount, round.arrive, round.orderOK)
  /\ gaps' = GapsOf(pairs', round.arrive)
  /\ departGaps' = GapsOf(pairs', round.depart)
  /\ pc' = "process"
  /\ UNCHANGED <<pass, probeSize, round, sortVars, binSize, estimate1,
                 tableVars, loads, finalVars, kept>>

gapCount == Cardinality(pairs)

BadIteration == ~round.inOrder \/ round.duplicates \/ gapCount < 2

SkipRound ==
  /\ pc = "process" /\ BadIteration
  /\ estimate1' = NoEstimate
  /\ pc' = "next"
  /\ UNCHANGED <<pass, probeSize, round, gapVars, sortVars, binSize,
                 tableVars, loads, finalVars, kept>>

\* "weed out bogus entries"; a gap divided by zero exceeds every ratio.
Plausible(gap, departGap) ==
  /\ gap > departGap
  /\ departGap # 0
  /\ departGap > 0 => gap <= 10000 * departGap

\* reportBandwidthForGaps(): the plausible gaps, in the order of sortGaps(), give
\* the readings of the row and the load that was offered for each.
PlausiblePairs(sorted, sortedD) ==
  LET plausible == {k \in Indices(gapCount) : Plausible(sorted[k], sortedD[k])}
  IN [column \in 1 .. Cardinality(plausible) |->
        LET k == Nth(plausible, column - 1) IN [gap |-> sorted[k], depart |-> sortedD[k]]]

\* Mutant: the row is filled from the gaps as they came.
ProcessRoundUnsorted ==
  /\ pc = "process" /\ ~BadIteration
  /\ sortedGaps' = SortBy(gaps, gapCount, gaps, sortedGaps)
  /\ sortedDGaps' = SortBy(gaps, gapCount, departGaps, sortedDGaps)
  /\ LET row == PlausiblePairs(gaps, departGaps) IN
       /\ bwsToPass' = [bwsToPass EXCEPT ![pass] =
            [k \in DOMAIN row |-> [bytes |-> probeSize + 82, gap |-> row[k].gap]]]
       /\ loads' = [loads EXCEPT ![pass] =
            [k \in DOMAIN row |-> [bytes |-> probeSize, gap |-> row[k].depart]]]
  /\ binSize' = sortedGaps'[gapCount - 1] - sortedGaps'[0]
  /\ pc' = "floor"
  /\ UNCHANGED <<pass, probeSize, round, gapVars, estimate1, probeSizes, gapVector,
                 finalVars, kept>>

\* sortGaps(), reportBandwidthForGaps(), gapStats() and the head of
\* histogramGaps(): gapRange / 100 is the first bin size.
ProcessRound ==
  /\ pc = "process" /\ ~BadIteration
  /\ sortedGaps' = SortBy(gaps, gapCount, gaps, sortedGaps)
  /\ sortedDGaps' = SortBy(gaps, gapCount, departGaps, sortedDGaps)
  /\ LET row == PlausiblePairs(sortedGaps', sortedDGaps') IN
       /\ bwsToPass' = [bwsToPass EXCEPT ![pass] =
            [k \in DOMAIN row |-> [bytes |-> probeSize + 82, gap |-> row[k].gap]]]
       /\ loads' = [loads EXCEPT ![pass] =
            [k \in DOMAIN row |-> [bytes |-> probeSize, gap |-> row[k].depart]]]
  /\ binSize' = sortedGaps'[gapCount - 1] - sortedGaps'[0]
  /\ pc' = "floor"
  /\ UNCHANGED <<pass, probeSize, round, gapVars, estimate1, probeSizes, gapVector,
                 finalVars, kept>>

-----------------------------------------------------------------------------
(* histogramGaps() and applyMethod() *)

minGap == sortedGaps[0]
maxGap == sortedGaps[gapCount - 1]
gapRange == maxGap - minGap

\* "don't want too fine a grain": bins of less than 0.1 are doubled.
WidenBins ==
  /\ pc = "floor"
  /\ IF binSize < 10
       THEN binSize' = 2 * binSize /\ UNCHANGED pc
       ELSE pc' = "bins" /\ UNCHANGED binSize
  /\ UNCHANGED <<pass, probeSize, round, gapVars, sortVars, estimate1,
                 tableVars, loads, finalVars, kept>>

\* (int) (width / binSize + 0.5)
InBins(width) == (200 * width + binSize) \div (2 * binSize)

\* Mutant: without the safety margin.
NumberOfBinsTight == InBins(gapRange)

NumberOfBins == InBins(gapRange) + 1

BinNumber(i) == InBins(gaps[i] - minGap)

Occupied == {BinNumber(i) : i \in Indices(gapCount)}

TooManyBins == Cardinality(Occupied) > MaxOccupied

\* Mutant: the bins are not widened.
CompressBinsNot == pc = "bins" /\ TooManyBins /\ UNCHANGED vars

CompressBins ==
  /\ pc = "bins" /\ TooManyBins
  /\ binSize' = 2 * binSize
  /\ UNCHANGED <<pc, pass, probeSize, round, gapVars, sortVars, estimate1,
                 tableVars, loads, finalVars, kept>>

\* Mutant: one or two bins lose their extremes as well.
CentralBinsAlways == {b \in Occupied : \E low, high \in Occupied : low < b /\ b < high}

\* Of three or more bins the lowest and the highest are thrown out.
CentralBins ==
  IF Cardinality(Occupied) < 3 THEN Occupied
  ELSE {b \in Occupied : \E low, high \in Occupied : low < b /\ b < high}

\* The average of the centres of the central bins, every gap counting once.
ApplyMethod ==
  LET central == {i \in Indices(gapCount) : BinNumber(i) \in CentralBins} IN
  [sum |-> SumFunction([i \in central |-> 100 * minGap + binSize * BinNumber(i)]),
   count |-> Cardinality(central)]

EstimateGap ==
  /\ pc = "bins" /\ ~TooManyBins
  /\ estimate1' = ApplyMethod
  /\ pc' = "next"
  /\ UNCHANGED <<pass, probeSize, round, gapVars, sortVars, binSize,
                 tableVars, loads, finalVars, kept>>

-----------------------------------------------------------------------------
(* From round to round *)

RoundedUpToEven(n) == IF n % 2 = 1 THEN n + 1 ELSE n

\* Mutant: the size always grows by a fifth.
NextSizeSlowly(passes) == RoundedUpToEven((12 * probeSize) \div 10)

NextSize(passes) ==
  RoundedUpToEven(IF passes % 2 = 1 THEN (13 * probeSize) \div 10
                                    ELSE (17 * probeSize) \div 10)

NextPass ==
  /\ pc = "next"
  /\ gapVector' = [gapVector EXCEPT ![pass] = estimate1]
  /\ probeSizes' = [probeSizes EXCEPT ![pass] = probeSize]
  /\ kept' = IF estimate1.sum = 0 THEN kept
             ELSE Append(kept, [size |-> probeSize, row |-> bwsToPass[pass]])
  /\ pass' = pass + 1
  /\ probeSize' = NextSize(pass + 1)
  /\ pc' = "probe"
  /\ UNCHANGED <<round, gapVars, sortVars, binSize, estimate1, bwsToPass, loads, finalVars>>

EndProbing ==
  /\ pc = "probe" /\ probeSize >= SizeLimit
  /\ pc' = "clean"
  /\ UNCHANGED <<pass, probeSize, round, gapVars, sortVars, binSize, estimate1,
                 tableVars, loads, finalVars, kept>>

\* Mutant: the last entry stays.
MovedDownButLast(table) ==
  [r \in Rows |-> IF r >= clean /\ r < valid - 2 THEN table[r + 1] ELSE table[r]]

\* "move the rest of the data down one position"
MovedDown(table) ==
  [r \in Rows |-> IF r >= clean /\ r < valid - 1 THEN table[r + 1] ELSE table[r]]

\* Mutant: the entry that moved down is not looked at again.
RemoveRoundSkipping ==
  /\ pc = "clean" /\ clean < valid /\ gapVector[clean].sum = 0
  /\ probeSizes' = MovedDown(probeSizes)
  /\ gapVector' = MovedDown(gapVector)
  /\ bwsToPass' = MovedDown(bwsToPass)
  /\ valid' = valid - 1 /\ clean' = clean + 1
  /\ UNCHANGED <<pc, pass, probeSize, round, gapVars, sortVars, binSize, estimate1,
                 loads, estimate6, accepted, kept>>

\* cleanData(), one iteration: a round without a typical gap goes away from three
\* of the tables.
RemoveRound ==
  /\ pc = "clean" /\ clean < valid /\ gapVector[clean].sum = 0
  /\ probeSizes' = MovedDown(probeSizes)
  /\ gapVector' = MovedDown(gapVector)
  /\ bwsToPass' = MovedDown(bwsToPass)
  /\ valid' = valid - 1
  /\ UNCHANGED <<pc, pass, probeSize, round, gapVars, sortVars, binSize, estimate1,
                 loads, clean, estimate6, accepted, kept>>

KeepRound ==
  /\ pc = "clean" /\ clean < valid /\ gapVector[clean].sum # 0
  /\ clean' = clean + 1
  /\ UNCHANGED <<pc, pass, probeSize, round, gapVars, sortVars, binSize, estimate1,
                 tableVars, loads, valid, estimate6, accepted, kept>>

EndClean ==
  /\ pc = "clean" /\ clean >= valid
  /\ pc' = "filter"
  /\ UNCHANGED <<pass, probeSize, round, gapVars, sortVars, binSize, estimate1,
                 tableVars, loads, finalVars, kept>>

-----------------------------------------------------------------------------
(* The results *)

ValidRows == 0 .. valid - 1
PositiveColumns(r) == {c \in DOMAIN bwsToPass[r] : bwsToPass[r][c].gap > 0}
RowsToFilter == {r \in ValidRows : PositiveColumns(r) # {}}

\* Without enough data the filter has no estimate (Filter!EnoughDataSuffices).
EnoughData ==
  /\ Cardinality(RowsToFilter) >= 2 /\ Cardinality(RowsToFilter) >= MinNumSets
  /\ SumFunction([r \in RowsToFilter |-> Cardinality(PositiveColumns(r))]) >= MinPeakSize

\* The filter's estimate lies among its readings (Filter!EstimateAmongReadings);
\* each of them stands for the estimates near it.  With enough data, too, the
\* filter may find none: from readings so far apart that they never meet.
ApplyNewGraphicalMethod ==
  /\ pc = "filter"
  /\ \/ estimate6' = NoBase
     \/ EnoughData /\ \E r \in RowsToFilter : \E c \in PositiveColumns(r) :
                         estimate6' = bwsToPass[r][c]
  /\ pc' = "utilization"
  /\ UNCHANGED <<pass, probeSize, round, gapVars, sortVars, binSize, estimate1,
                 tableVars, loads, valid, clean, accepted, kept>>

\* Bandwidths bytes / gap compared by cross-multiplication; gaps are positive.
Below(x, y) == x.bytes * y.gap < y.bytes * x.gap

\* The load behind column c of a row saturates the estimated bandwidth.
Saturates(row, c) ==
  c \in DOMAIN loads[row] /\ loads[row][c].gap > 0 /\ Below(estimate6, loads[row][c])

CalculateUtilization ==
  /\ pc = "utilization"
  /\ accepted' = {rc \in UNION {{r} \X PositiveColumns(r) : r \in ValidRows} :
                    Below(bwsToPass[rc[1]][rc[2]], estimate6) /\ Saturates(rc[1], rc[2])}
  /\ pc' = "done"
  /\ UNCHANGED <<pass, probeSize, round, gapVars, sortVars, binSize, estimate1,
                 tableVars, loads, valid, clean, estimate6, kept>>

Finished == pc \in {"done", "exit"} /\ UNCHANGED vars

Next ==
  \/ Probe \/ ProbeExits \/ ComputeInterArrivalGaps \/ SkipRound \/ ProcessRound
  \/ WidenBins \/ CompressBins \/ EstimateGap \/ NextPass \/ EndProbing
  \/ RemoveRound \/ KeepRound \/ EndClean
  \/ ApplyNewGraphicalMethod \/ CalculateUtilization \/ Finished

\* rprobe() returns and the process runs on by itself.
Spec == Init /\ [][Next]_vars /\ WF_vars(Next)

-----------------------------------------------------------------------------
(* Properties *)

TypeOK ==
  /\ pass \in 0 .. NUM_ROUNDS
  /\ pairs \subseteq Train
  /\ DOMAIN gaps = Indices(gapCount) /\ DOMAIN departGaps = Indices(gapCount)
  /\ DOMAIN sortedGaps = Train
  /\ binSize \in Nat
  /\ valid \in 0 .. NUM_ROUNDS /\ clean \in 0 .. valid
  /\ \A r \in Rows : gapVector[r].count > 0
  /\ \A r \in Rows : DOMAIN loads[r] \subseteq 1 .. PacketCount
  /\ accepted \subseteq Rows \X (1 .. PacketCount)

\* The sizes grow fast enough that no round is stored behind the tables' end.
PassInBounds == pc = "next" => pass \in Rows

\* The gaps are sorted, and each is still paired with the departure gap of its
\* own two packets, in arrays that hold another round's entries behind them.
GapsSortedTogether ==
  pc \in {"floor", "bins"} => SortedTogether(gaps, departGaps, gapCount, sortedGaps, sortedDGaps)

\* Every gap is counted in a bin that was allocated, at every bin size tried.
BinsInBounds ==
  pc = "bins" => \A i \in Indices(gapCount) : BinNumber(i) \in 0 .. NumberOfBins - 1

\* The typical gap averages at least one gap, and lies between the smallest gap
\* and half a bin above the greatest, whichever bins were thrown out.
EstimateWithinGaps ==
  pc = "next" /\ ~BadIteration =>
    /\ estimate1.count > 0
    /\ 100 * minGap * estimate1.count <= estimate1.sum
    /\ 2 * estimate1.sum <= (200 * maxGap + binSize) * estimate1.count

\* createSet() gets its readings in ascending order when a row is read from the
\* right, so that "SORTED LIST ASSUMPTION VIOLATION" never ends the process.
RowsDescending ==
  \A r \in Rows : \A j, k \in PositiveColumns(r) :
    j < k => ~Below(bwsToPass[r][j], bwsToPass[r][k])

\* Removing entries while walking over the tables leaves exactly the rounds that
\* gave a typical gap, in order, each row with its own probe size.
CleanKeepsRounds ==
  pc = "filter" =>
    /\ valid = Len(kept)
    /\ \A r \in ValidRows : kept[r + 1] = [size |-> probeSizes[r], row |-> bwsToPass[r]]

\* If not all gaps are equal the histogram comes to an end.
HistogramEnds == (pc = "floor" /\ gapRange > 0) ~> (pc = "next")

\* A run ends with its output line or an error exit, whatever the gaps.
AlwaysReports == <>(pc \in {"done", "exit"})

\* "check that offered load was high enough to saturate": the load checked for
\* an accepted reading was offered in the reading's own round.
OfferedLoadIsOwn ==
  \A rc \in accepted : loads[rc[1]][rc[2]].bytes + 82 = bwsToPass[rc[1]][rc[2]].bytes
=============================================================================
