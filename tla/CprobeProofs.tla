---------------------------- MODULE CprobeProofs ----------------------------
(***************************************************************************)
(* probeLoop() of cprobe, for every number of packets, range of sizes and  *)
(* results of rprobe(): which rounds give a reading, what a reading says   *)
(* of its round, and that the gaps it is taken from are sorted.            *)
(***************************************************************************)
EXTENDS Cprobe, GapsProofs

-----------------------------------------------------------------------------
(* Types *)

\* The pass and the size of its packets go together, and every pass that is
\* probed has an entry in bandwidthVector.
ScheduleInv ==
  /\ pc \in {"probe", "gaps", "estimate", "next", "done", "exit"}
  /\ pass \in 0 .. Cardinality(Passes)
  /\ probeSize = FirstSize + (100 * pass)
  /\ pc \in {"gaps", "estimate", "next"} => pass \in Passes

RoundTypes ==
  /\ arrive \in [0 .. PacketCount -> 0 .. ULongMax]
  /\ returnCodes \in [inOrder : BOOLEAN, duplicates : BOOLEAN]
  /\ pairs \in SUBSET Train
  /\ gaps \in [Indices(gapCount) -> Int]
  /\ DOMAIN sortedGaps = Indices(MAX_PROBES)

ResultTypes ==
  /\ DOMAIN bandwidthVector = Passes
  /\ \A p \in Passes : bandwidthVector[p].bytes \in Nat
  /\ averaged \in SUBSET Passes /\ clean \in SUBSET Passes

TypeInv == ScheduleInv /\ RoundTypes /\ ResultTypes

LEMMA ConstantTypes ==
  /\ PacketCount \in Nat /\ PacketCount > 2 /\ MAX_PROBES \in Nat
  /\ PacketCount < MAX_PROBES /\ FirstSize \in Nat /\ LastSize \in Nat
  /\ ULongMax \in Nat /\ LostTime = ULongMax
BY CprobeAssumption, WidthsAssumption DEF LostTime

LEMMA PassesTypes ==
  /\ Passes \subseteq Nat /\ Cardinality(Passes) \in Nat
  /\ \A p \in Nat : p \in Passes <=> p < Cardinality(Passes)
  /\ \A p \in Nat : FirstSize + (100 * p) <= LastSize => p \in Passes
<1> DEFINE last == (LastSize - FirstSize) \div 100
<1>1. last \in Int
  BY ConstantTypes
<1>2. \A x \in Int : Cardinality(0 .. x) = IF 0 > x THEN 0 ELSE x - 0 + 1
  BY FS_Interval
<1>3. ASSUME NEW p \in Nat, FirstSize + (100 * p) <= LastSize
      PROVE  p <= last
  <2>1. /\ LastSize - FirstSize = (100 * last) + ((LastSize - FirstSize) % 100)
        /\ (LastSize - FirstSize) % 100 \in 0 .. 99
    BY ConstantTypes
  <2> HIDE DEF last
  <2> QED BY <1>1, <1>3, <2>1, ConstantTypes
<1> HIDE DEF last
<1>4. Passes = 0 .. last
  BY DEF Passes, last
<1>5. Cardinality(Passes) = IF 0 > last THEN 0 ELSE last + 1
  BY <1>1, <1>2, <1>4
<1>6. \A p \in Nat : p \in Passes <=> p <= last
  BY <1>1, <1>4
<1>7. \A p \in Nat : p <= last <=> p < Cardinality(Passes)
  BY <1>1, <1>5
<1>8. Passes \subseteq Nat /\ Cardinality(Passes) \in Nat
  BY <1>1, <1>4, <1>5
<1> QED BY <1>3, <1>6, <1>7, <1>8

LEMMA NoReadingTypes == NoReading.bytes = 0
BY DEF NoReading

LEMMA GapCountType ==
  ASSUME pairs \in SUBSET Train
  PROVE  IsFiniteSet(pairs) /\ gapCount \in 0 .. PacketCount
BY PairsInTrain, ConstantTypes DEF Train, gapCount

LEMMA ReadingTypes ==
  ASSUME NEW sorted, TypeInv
  PROVE  Reading(sorted).bytes \in Nat
<1>1. gapCount - 1 \in Int
  BY GapCountType, ConstantTypes DEF TypeInv, RoundTypes
<1>2. IsFiniteSet(SummedGaps)
  BY <1>1, FS_Interval DEF SummedGaps
<1>3. Cardinality(SummedGaps) \in Nat
  BY <1>2, FS_CardinalityType
<1>4. probeSize + 42 \in Nat
  BY ConstantTypes, PassesTypes DEF TypeInv, ScheduleInv
<1>5. Cardinality(SummedGaps) * (probeSize + 42) \in Nat
  BY <1>3, <1>4
<1> QED BY <1>5 DEF Reading

LEMMA InitTypes == Init => TypeInv
<1> SUFFICES ASSUME Init PROVE TypeInv
  OBVIOUS
<1> USE DEF Init
<1>1. ScheduleInv
  BY ConstantTypes, PassesTypes DEF ScheduleInv
<1>2. RoundTypes
  <2>1. arrive \in [0 .. PacketCount -> 0 .. ULongMax]
    BY ConstantTypes, CprobeAssumption
  <2>2. returnCodes \in [inOrder : BOOLEAN, duplicates : BOOLEAN]
    OBVIOUS
  <2>3. gapCount = 0
    BY FS_EmptySet DEF gapCount
  <2>4. gaps \in [Indices(gapCount) -> Int]
    BY <2>3 DEF Indices
  <2> QED BY <2>1, <2>2, <2>4 DEF RoundTypes, Indices
<1>3. ResultTypes
  BY NoReadingTypes DEF ResultTypes
<1> QED BY <1>1, <1>2, <1>3 DEF TypeInv

LEMMA NextTypes == TypeInv /\ [Next]_vars => TypeInv'
<1> SUFFICES ASSUME TypeInv, [Next]_vars PROVE TypeInv'
  OBVIOUS
<1>0. ScheduleInv /\ RoundTypes /\ ResultTypes
  BY DEF TypeInv
<1>1. CASE Probe
  <2>1. PICK o \in Outcomes :
          /\ arrive' = [i \in 0 .. PacketCount |->
                          IF i \in Train THEN o.arrive[i] ELSE arrive[i]]
          /\ returnCodes' = [inOrder |-> o.inOrder, duplicates |-> o.duplicates]
          /\ clean' = IF o.inOrder /\ ~o.duplicates THEN clean \cup {pass} ELSE clean
    BY <1>1 DEF Probe
  <2>2. /\ o.arrive \in [Train -> 1 .. ULongMax]
        /\ o.inOrder \in BOOLEAN /\ o.duplicates \in BOOLEAN
    BY CprobeAssumption
  <2>3. pass \in Passes
    BY <1>0, <1>1, PassesTypes DEF Probe, ScheduleInv
  <2>4. ScheduleInv'
    BY <1>0, <1>1, <2>3 DEF Probe, ScheduleInv
  <2>5. arrive' \in [0 .. PacketCount -> 0 .. ULongMax]
    <3>1. \A i \in Train : o.arrive[i] \in 0 .. ULongMax
      BY <2>2, ConstantTypes
    <3> QED BY <1>0, <2>1, <3>1 DEF RoundTypes
  <2>6. returnCodes' \in [inOrder : BOOLEAN, duplicates : BOOLEAN]
    BY <2>1, <2>2
  <2>7. RoundTypes'
    BY <1>0, <1>1, <2>5, <2>6 DEF Probe, RoundTypes, gapVars, gapCount
  <2>8. ResultTypes'
    BY <1>0, <1>1, <2>1, <2>3 DEF Probe, ResultTypes
  <2> QED BY <2>4, <2>7, <2>8 DEF TypeInv
<1>2. CASE ComputeInterArrivalGaps
  <2>1. pairs' \in SUBSET Train
    BY <1>2 DEF ComputeInterArrivalGaps, MeasuredPairs, Train
  <2>2. \A i \in 0 .. PacketCount : arrive[i] \in Int
    BY <1>0, ConstantTypes DEF RoundTypes
  <2>3. gaps' \in [Indices(Cardinality(pairs')) -> Int]
    BY <1>2, <2>1, <2>2, GapsTypes, ConstantTypes DEF ComputeInterArrivalGaps, Train
  <2>4. RoundTypes'
    BY <1>0, <1>2, <2>1, <2>3
       DEF ComputeInterArrivalGaps, RoundTypes, roundVars, gapCount
  <2>5. ScheduleInv' /\ ResultTypes'
    BY <1>0, <1>2 DEF ComputeInterArrivalGaps, ScheduleInv, ResultTypes
  <2> QED BY <2>4, <2>5 DEF TypeInv
<1>3. CASE Estimate
  <2>1. DOMAIN sortedGaps' = Indices(MAX_PROBES)
    BY <1>0, <1>3 DEF Estimate, RoundTypes, SortBy
  <2>2. RoundTypes'
    BY <1>0, <1>3, <2>1 DEF Estimate, RoundTypes, roundVars, gapCount
  <2>3. /\ DOMAIN bandwidthVector' = Passes
        /\ \A p \in Passes : bandwidthVector'[p].bytes \in Nat
    <3>1. Reading(sortedGaps').bytes \in Nat
      BY ReadingTypes
    <3>2. \/ bandwidthVector' = bandwidthVector
          \/ bandwidthVector' = [bandwidthVector EXCEPT ![pass] = Reading(sortedGaps')]
      BY <1>3 DEF Estimate
    <3> QED BY <1>0, <3>1, <3>2 DEF ResultTypes
  <2>4. ResultTypes'
    BY <1>0, <1>3, <2>3 DEF Estimate, ResultTypes
  <2>5. ScheduleInv'
    BY <1>0, <1>3 DEF Estimate, ScheduleInv
  <2> QED BY <2>2, <2>4, <2>5 DEF TypeInv
<1>4. CASE NextPass
  <2>1. ScheduleInv'
    BY <1>0, <1>4, PassesTypes, ConstantTypes DEF NextPass, ScheduleInv
  <2>2. RoundTypes' /\ ResultTypes'
    BY <1>0, <1>4
       DEF NextPass, RoundTypes, ResultTypes, roundVars, gapVars, gapCount
  <2> QED BY <2>1, <2>2 DEF TypeInv
<1>5. CASE Average
  <2>1. averaged' \in SUBSET Passes
    BY <1>0, <1>5, PassesTypes DEF Average, ScheduleInv
  <2>2. ScheduleInv' /\ RoundTypes'
    BY <1>0, <1>5 DEF Average, ScheduleInv, RoundTypes, roundVars, gapVars, gapCount
  <2> QED BY <1>0, <1>5, <2>1, <2>2 DEF Average, TypeInv, ResultTypes
<1>6. CASE ProbeExits \/ UNCHANGED vars
  BY <1>0, <1>6
     DEF ProbeExits, vars, TypeInv, ScheduleInv, RoundTypes, ResultTypes, roundVars,
         gapVars, gapCount
<1> QED BY <1>1, <1>2, <1>3, <1>4, <1>5, <1>6 DEF Next, Finished

LEMMA Typed == Spec => []TypeInv
BY InitTypes, NextTypes, PTL DEF Spec

\* No pass is behind bandwidthVector, and no gap behind the arrays, for every range
\* of probe sizes.
THEOREM TypeCorrect == Spec => []TypeOK
<1>1. TypeInv => TypeOK
  <2> SUFFICES ASSUME TypeInv PROVE TypeOK
    OBVIOUS
  <2>1. gapCount \in 0 .. PacketCount
    BY GapCountType DEF TypeInv, RoundTypes
  <2>2. DOMAIN gaps = 0 .. Cardinality(pairs) - 1
    BY DEF TypeInv, RoundTypes, gapCount, Indices
  <2>3. Cardinality(pairs) <= MAX_PROBES
    BY <2>1, ConstantTypes DEF gapCount
  <2> QED BY <2>2, <2>3 DEF TypeInv, ScheduleInv, RoundTypes, ResultTypes, TypeOK
<1> QED BY <1>1, Typed, PTL

-----------------------------------------------------------------------------
(* Readings *)

\* A reading belongs to a pass that had a clean round; the one just taken, to a
\* round that was good and missed no gap.
ReadingInv ==
  /\ pc \in {"estimate", "next"} => pairs = MeasuredPairs(PacketCount, arrive)
  /\ \A p \in Passes :
       p > pass \/ (p = pass /\ pc \in {"probe", "gaps", "estimate"}) =>
         bandwidthVector[p] = NoReading
  /\ \A p \in Passes : bandwidthVector[p] # NoReading => p \in clean
  /\ pc \in {"gaps", "estimate", "next"} /\ returnCodes.inOrder /\ ~returnCodes.duplicates
       => pass \in clean
  /\ ReadingTaken => EnoughGaps
  /\ averaged \subseteq clean

LEMMA InitReadings == Init => ReadingInv
BY PassesTypes DEF Init, ReadingInv, ReadingTaken

LEMMA NextReadings == TypeInv /\ ReadingInv /\ [Next]_vars => ReadingInv'
<1> SUFFICES ASSUME TypeInv, ReadingInv, [Next]_vars PROVE ReadingInv'
  OBVIOUS
<1>0. ScheduleInv /\ RoundTypes /\ ResultTypes
  BY DEF TypeInv
<1>1. CASE Probe
  <2>1. /\ pc = "probe" /\ pc' = "gaps" /\ clean \subseteq clean'
        /\ returnCodes'.inOrder /\ ~returnCodes'.duplicates => pass \in clean'
        /\ UNCHANGED <<pass, bandwidthVector, averaged>>
    BY <1>1 DEF Probe
  <2> QED BY <2>1 DEF ReadingInv, ReadingTaken
<1>2. CASE ComputeInterArrivalGaps
  <2>1. /\ pc = "gaps" /\ pc' = "estimate"
        /\ pairs' = MeasuredPairs(PacketCount, arrive)
        /\ UNCHANGED <<pass, arrive, returnCodes, bandwidthVector, averaged, clean>>
    BY <1>2 DEF ComputeInterArrivalGaps, roundVars
  <2> QED BY <2>1 DEF ReadingInv, ReadingTaken
<1>3. CASE Estimate
  <2>1. /\ pc = "estimate" /\ pc' = "next"
        /\ UNCHANGED <<pass, arrive, returnCodes, pairs, averaged, clean>>
    BY <1>3 DEF Estimate, roundVars
  <2>2. \/ bandwidthVector' = bandwidthVector
        \/ /\ EnoughGaps /\ ~BadIteration
           /\ bandwidthVector' = [bandwidthVector EXCEPT ![pass] = Reading(sortedGaps')]
    BY <1>3 DEF Estimate
  <2>3. pass \in Passes /\ bandwidthVector[pass] = NoReading
    BY <1>0, <2>1 DEF ScheduleInv, ReadingInv
  <2>4. \A p \in Passes : p # pass => bandwidthVector'[p] = bandwidthVector[p]
    BY <1>0, <2>2 DEF ResultTypes
  <2>5. bandwidthVector'[pass] # NoReading => EnoughGaps /\ ~BadIteration
    BY <2>2, <2>3
  <2>6. EnoughGaps' = EnoughGaps
    BY <2>1 DEF EnoughGaps, gapCount
  <2>7. \A p \in Passes : bandwidthVector'[p] # NoReading => p \in clean
    BY <2>1, <2>3, <2>4, <2>5 DEF ReadingInv, BadIteration
  <2>8. \A p \in Passes : p > pass => bandwidthVector'[p] = NoReading
    <3>1. \A p \in Passes : p > pass => p # pass
      BY <2>3, PassesTypes
    <3> QED BY <2>4, <3>1 DEF ReadingInv
  <2>9. (ReadingTaken => EnoughGaps)'
    BY <2>1, <2>5, <2>6 DEF ReadingTaken
  <2> QED BY <2>1, <2>7, <2>8, <2>9 DEF ReadingInv
<1>4. CASE NextPass
  <2>1. /\ pc' = "probe" /\ pass' = pass + 1
        /\ UNCHANGED <<bandwidthVector, averaged, clean>>
    BY <1>4 DEF NextPass
  <2>2. \A p \in Passes : p >= pass + 1 => p > pass
    BY <1>0, PassesTypes DEF ScheduleInv
  <2>3. \A p \in Passes : p > pass + 1 \/ p = pass + 1 => bandwidthVector[p] = NoReading
    BY <1>0, <2>2, PassesTypes DEF ReadingInv, ScheduleInv
  <2> QED BY <2>1, <2>3 DEF ReadingInv, ReadingTaken
<1>5. CASE Average
  <2>1. /\ pc' = "done"
        /\ averaged' = {p \in 0 .. pass - 1 : Positive(bandwidthVector[p])}
        /\ UNCHANGED <<pass, bandwidthVector, clean>>
    BY <1>5 DEF Average
  <2>2. ASSUME NEW p \in 0 .. pass - 1, Positive(bandwidthVector[p])
        PROVE  p \in clean
    <3>1. p \in Passes
      BY <1>0, PassesTypes DEF ScheduleInv
    <3>2. bandwidthVector[p] # NoReading
      BY <2>2, NoReadingTypes DEF Positive
    <3> QED BY <3>1, <3>2 DEF ReadingInv
  <2>3. averaged' \subseteq clean'
    BY <2>1, <2>2
  <2> QED BY <2>1, <2>3 DEF ReadingInv, ReadingTaken
<1>6. CASE ProbeExits
  BY <1>6 DEF ProbeExits, ReadingInv, ReadingTaken
<1>7. CASE UNCHANGED vars
  <2>1. UNCHANGED <<pc, pass, arrive, returnCodes, pairs, bandwidthVector, averaged, clean>>
    BY <1>7 DEF vars, roundVars, gapVars
  <2> QED BY <2>1 DEF ReadingInv, ReadingTaken, EnoughGaps, gapCount
<1> QED BY <1>1, <1>2, <1>3, <1>4, <1>5, <1>6, <1>7 DEF Next, Finished

LEMMA Readings == Spec => []ReadingInv
BY InitReadings, NextReadings, Typed, PTL DEF Spec

\* Only rounds without a duplicate or a reordering are averaged, whichever passes
\* were skipped in between.
THEOREM Averages == Spec => []AveragesCleanRounds
<1>1. ReadingInv => AveragesCleanRounds
  BY DEF ReadingInv, AveragesCleanRounds
<1> QED BY <1>1, Readings, PTL

\* A round that gave a reading without measuring past the train measured the pairs
\* of all its neighbours.
LEMMA AllNeighbours ==
  ASSUME TypeInv, ReadingInv, ReadingTaken, ~JunkMeasured
  PROVE  pairs = 0 .. PacketCount - 2
<1>1. Cardinality(pairs) = PacketCount - 1
  BY DEF ReadingInv, EnoughGaps, gapCount
<1>2. pairs \in SUBSET Indices(PacketCount - 1)
  BY ConstantTypes DEF TypeInv, RoundTypes, JunkMeasured, Train, Indices
<1>3. /\ IsFiniteSet(Indices(PacketCount - 1))
      /\ Cardinality(Indices(PacketCount - 1)) = PacketCount - 1
  BY IndicesFinite, ConstantTypes
<1>4. pairs = Indices(PacketCount - 1)
  BY <1>1, <1>2, <1>3, FS_Subset
<1> QED BY <1>4, ConstantTypes DEF Indices

\* A lost packet is never the first of a measured pair, so that a round with all but
\* one of the possible pairs has lost at most one packet, and if its pairs are all
\* within the train, only the packet that is the first of none.
THEOREM LostPacketsFew == Spec => []LossOnlyAtEnd
<1>1. TypeInv /\ ReadingInv => LossOnlyAtEnd
  <2> SUFFICES ASSUME TypeInv, ReadingInv, ReadingTaken
               PROVE  /\ Cardinality(LostPackets) <= 1
                      /\ ~JunkMeasured => LostPackets \subseteq {PacketCount - 1}
    BY DEF LossOnlyAtEnd
  <2>1. /\ pairs = MeasuredPairs(PacketCount, arrive)
        /\ Cardinality(pairs) = PacketCount - 1
    BY DEF ReadingInv, ReadingTaken, EnoughGaps, gapCount
  <2>2. pairs \cap LostPackets = {}
    <3> SUFFICES ASSUME NEW i \in pairs PROVE arrive[i] # LostTime
      BY DEF LostPackets
    <3>1. i \in Train /\ arrive[i + 1] > arrive[i]
      BY <2>1 DEF MeasuredPairs, NoRolloverOrTimeout, Train
    <3>2. arrive[i] \in 0 .. ULongMax /\ arrive[i + 1] \in 0 .. ULongMax
      BY <3>1, ConstantTypes DEF TypeInv, RoundTypes, Train
    <3> QED BY <3>1, <3>2, ConstantTypes
  <2>3. pairs \cup LostPackets \subseteq Train
    BY DEF TypeInv, RoundTypes, LostPackets
  <2>4. /\ IsFiniteSet(pairs) /\ IsFiniteSet(LostPackets)
        /\ Cardinality(pairs \cup LostPackets) <= PacketCount
    BY <2>3, PairsInTrain, ConstantTypes DEF Train
  <2>5. Cardinality(pairs \cup LostPackets) =
          Cardinality(pairs) + Cardinality(LostPackets) - Cardinality(pairs \cap LostPackets)
    BY <2>4, FS_Union
  <2>6. Cardinality(pairs \cap LostPackets) = 0
    BY <2>2, FS_EmptySet
  <2>7. Cardinality(LostPackets) \in Nat
    BY <2>4, FS_CardinalityType
  <2>8. Cardinality(LostPackets) <= 1
    BY <2>1, <2>4, <2>5, <2>6, <2>7, ConstantTypes
  <2>9. ASSUME ~JunkMeasured PROVE LostPackets \subseteq {PacketCount - 1}
    <3>1. pairs = 0 .. PacketCount - 2
      BY <2>9, AllNeighbours
    <3> QED BY <2>2, <2>3, <3>1, ConstantTypes DEF Train
  <2> QED BY <2>8, <2>9
<1> QED BY <1>1, Typed, Readings, PTL

\* Times that grow from each packet to the next grow from every packet to every
\* later one.
LEMMA Ascending ==
  ASSUME NEW n \in Nat, NEW f \in [0 .. n -> Int],
         \A k \in 0 .. n - 1 : f[k] < f[k + 1]
  PROVE  \A i, j \in 0 .. n : i < j => f[i] < f[j]
<1> DEFINE bad == {m \in 0 .. n : \E i \in 0 .. n : i < m /\ ~(f[i] < f[m])}
<1>1. ASSUME NEW m \in bad PROVE \E k \in bad : k < m
  <2>1. PICK i \in 0 .. n : i < m /\ ~(f[i] < f[m])
    OBVIOUS
  <2>2. /\ m - 1 \in 0 .. n - 1 /\ m - 1 \in 0 .. n /\ (m - 1) + 1 = m
        /\ f[m - 1] \in Int /\ f[i] \in Int /\ f[m] \in Int
    BY <2>1
  <2>3. f[m - 1] < f[m]
    BY <2>2
  <2>4. i < m - 1 /\ ~(f[i] < f[m - 1])
    BY <2>1, <2>2, <2>3
  <2> QED BY <2>2, <2>4
<1>2. bad = {}
  BY <1>1, NoLeast
<1> QED BY <1>2

\* cprobe ignores orderOK; yet, if nothing was lost and nothing measured behind the
\* train, the packets of a round that gave a reading came in the order they were sent.
THEOREM CompleteInOrder == Spec => []CompleteReadingInOrder
<1>1. TypeInv /\ ReadingInv => CompleteReadingInOrder
  <2> SUFFICES ASSUME TypeInv, ReadingInv, ReadingTaken, ~JunkMeasured
               PROVE  \A i, j \in Train : i < j => arrive[i] < arrive[j]
    BY DEF CompleteReadingInOrder
  <2>1. pairs = MeasuredPairs(PacketCount, arrive)
    BY DEF ReadingInv, ReadingTaken
  <2>4. pairs = 0 .. PacketCount - 2
    BY AllNeighbours
  <2>5. \A k \in 0 .. PacketCount - 2 : arrive[k + 1] > arrive[k]
    BY <2>1, <2>4 DEF MeasuredPairs, NoRolloverOrTimeout
  <2> DEFINE n == PacketCount - 1
             f == [k \in 0 .. n |-> arrive[k]]
  <2>6. n \in Nat /\ Train = 0 .. n /\ n - 1 = PacketCount - 2
    BY ConstantTypes DEF Train
  <2>7. f \in [0 .. n -> Int]
    BY ConstantTypes DEF TypeInv, RoundTypes
  <2>8. \A k \in 0 .. n - 1 : f[k] < f[k + 1]
    <3> SUFFICES ASSUME NEW k \in 0 .. n - 1 PROVE f[k] < f[k + 1]
      OBVIOUS
    <3>1. k \in 0 .. n /\ k + 1 \in 0 .. n /\ k \in 0 .. PacketCount - 2
      BY <2>6
    <3>2. f[k] \in Int /\ f[k + 1] \in Int /\ arrive[k + 1] > arrive[k]
      BY <2>5, <2>7, <3>1
    <3> QED BY <3>1, <3>2
  <2> HIDE DEF f, n
  <2>9. \A i, j \in 0 .. n : i < j => f[i] < f[j]
    BY <2>6, <2>7, <2>8, Ascending
  <2> QED BY <2>6, <2>9 DEF f
<1> QED BY <1>1, Typed, Readings, PTL

-----------------------------------------------------------------------------
(* Sorting *)

LEMMA NextSorted == TypeInv /\ GapsSorted /\ [Next]_vars => GapsSorted'
<1> SUFFICES ASSUME TypeInv, GapsSorted, [Next]_vars PROVE GapsSorted'
  OBVIOUS
<1>1. CASE Estimate
  <2>1. UNCHANGED <<returnCodes, pairs, gaps>>
    BY <1>1 DEF Estimate, roundVars
  <2>2. BadIteration' = BadIteration /\ gapCount' = gapCount
    BY <2>1 DEF BadIteration, gapCount
  <2> SUFFICES ASSUME ~BadIteration
               PROVE  SortedTogether(gaps, gaps, gapCount, sortedGaps', sortedGaps')
    BY <2>1, <2>2 DEF GapsSorted
  <2>3. sortedGaps' = SortBy(gaps, gapCount, gaps, sortedGaps)
    BY <1>1 DEF Estimate
  <2>4. gapCount \in 0 .. PacketCount /\ gaps \in [Indices(gapCount) -> Int]
    BY GapCountType DEF TypeInv, RoundTypes
  <2>5. gapCount \in Nat /\ Indices(gapCount) \subseteq DOMAIN sortedGaps
    BY <2>4, ConstantTypes DEF TypeInv, RoundTypes, Indices
  <2> HIDE DEF gapCount
  <2> QED BY <2>3, <2>4, <2>5, SortKeepsTogether
<1>2. CASE Probe \/ ProbeExits \/ ComputeInterArrivalGaps \/ NextPass \/ Average
  <2>1. pc' # "next"
    BY <1>2 DEF Probe, ProbeExits, ComputeInterArrivalGaps, NextPass, Average
  <2> QED BY <2>1 DEF GapsSorted
<1>3. CASE UNCHANGED vars
  <2>1. UNCHANGED <<pc, returnCodes, pairs, gaps, sortedGaps>>
    BY <1>3 DEF vars, roundVars, gapVars
  <2> QED BY <2>1 DEF GapsSorted, BadIteration, gapCount
<1> QED BY <1>1, <1>2, <1>3 DEF Next, Finished

\* The gaps of every good round are sorted, equal ones included, whatever earlier
\* rounds have left in the array.
THEOREM Sorted == Spec => []GapsSorted
<1>1. Init => GapsSorted
  BY DEF Init, GapsSorted
<1> QED BY <1>1, NextSorted, Typed, PTL DEF Spec

-----------------------------------------------------------------------------
(* What a reading divides by *)

ShortRound ==
  \A i, j \in Train : arrive[i] # LostTime /\ arrive[j] # LostTime
    => 2 * (arrive[j] - arrive[i]) < IntModulus

\* The gaps are those of the round; the reading just taken sums up all but the first
\* of them, sorted, and every gap is where sortGaps() sent it.
SpanInv ==
  /\ pc \in {"gaps", "estimate", "next"} => ShortRound
  /\ pc \in {"estimate", "next"} => gaps = GapsOf(pairs, arrive)
  /\ ReadingTaken =>
       /\ bandwidthVector[pass] = Reading(sortedGaps)
       /\ \A i \in Indices(gapCount) : sortedGaps[Position(gaps, gapCount, i)] = gaps[i]

LEMMA NextSpan == TypeInv /\ ReadingInv /\ SpanInv /\ [Next]_vars => SpanInv'
<1> SUFFICES ASSUME TypeInv, ReadingInv, SpanInv, [Next]_vars PROVE SpanInv'
  OBVIOUS
<1>0. ScheduleInv /\ RoundTypes /\ ResultTypes
  BY DEF TypeInv
<1>1. CASE Probe
  <2>1. PICK o \in Outcomes :
          arrive' = [i \in 0 .. PacketCount |-> IF i \in Train THEN o.arrive[i] ELSE arrive[i]]
    BY <1>1 DEF Probe
  <2>2. \A i \in Train : arrive'[i] = o.arrive[i]
    BY <2>1, ConstantTypes DEF Train
  <2>3. ShortRound'
    BY <2>2, ShortRoundsAssumption DEF ShortRound
  <2>4. pc' = "gaps"
    BY <1>1 DEF Probe
  <2> QED BY <2>3, <2>4 DEF SpanInv, ReadingTaken
<1>2. CASE ComputeInterArrivalGaps
  <2>1. /\ pc = "gaps" /\ pc' = "estimate"
        /\ gaps' = GapsOf(pairs', arrive) /\ arrive' = arrive
    BY <1>2 DEF ComputeInterArrivalGaps, roundVars
  <2>2. gaps' = GapsOf(pairs', arrive')
    BY <2>1
  <2> QED BY <2>1, <2>2 DEF SpanInv, ShortRound, ReadingTaken
<1>3. CASE Estimate
  <2>1. /\ pc = "estimate" /\ pc' = "next"
        /\ UNCHANGED <<pass, probeSize, arrive, pairs, gaps>>
    BY <1>3 DEF Estimate, roundVars
  <2>2. /\ ShortRound' /\ gaps' = GapsOf(pairs', arrive')
    BY <2>1 DEF SpanInv, ShortRound
  <2> SUFFICES ASSUME bandwidthVector'[pass] # NoReading
               PROVE  /\ bandwidthVector'[pass] = Reading(sortedGaps')
                      /\ \A i \in Indices(gapCount) :
                           sortedGaps'[Position(gaps, gapCount, i)] = gaps[i]
    BY <2>1, <2>2 DEF SpanInv, ReadingTaken, gapCount, SummedGaps, Reading
  <2>3. pass \in Passes /\ bandwidthVector[pass] = NoReading
    BY <1>0, <2>1 DEF ScheduleInv, ReadingInv
  <2>4. /\ sortedGaps' = SortBy(gaps, gapCount, gaps, sortedGaps)
        /\ bandwidthVector' = [bandwidthVector EXCEPT ![pass] = Reading(sortedGaps')]
    BY <1>3, <2>3 DEF Estimate
  <2>5. bandwidthVector'[pass] = Reading(sortedGaps')
    BY <1>0, <2>3, <2>4 DEF ResultTypes
  <2>6. gapCount \in Nat /\ gaps \in [Indices(gapCount) -> Int]
    BY <1>0, GapCountType DEF RoundTypes
  <2>7. Indices(gapCount) \subseteq DOMAIN sortedGaps
    BY <1>0, GapCountType, ConstantTypes DEF RoundTypes, Indices
  <2>8. \A i \in Indices(gapCount) : sortedGaps'[Position(gaps, gapCount, i)] = gaps[i]
    <3> HIDE DEF gapCount
    <3> QED BY <2>4, <2>6, <2>7, SortByAscends
  <2> QED BY <2>5, <2>8
<1>4. CASE NextPass \/ ProbeExits \/ Average
  <2>1. pc' \in {"probe", "exit", "done"}
    BY <1>4 DEF NextPass, ProbeExits, Average
  <2> QED BY <2>1 DEF SpanInv, ReadingTaken
<1>5. CASE UNCHANGED vars
  <2>1. UNCHANGED <<pc, pass, probeSize, arrive, pairs, gaps, sortedGaps, bandwidthVector>>
    BY <1>5 DEF vars, roundVars, gapVars
  <2> QED BY <2>1 DEF SpanInv, ShortRound, ReadingTaken, gapCount, SummedGaps, Reading
<1> QED BY <1>1, <1>2, <1>3, <1>4, <1>5 DEF Next, Finished

LEMMA Spans == Spec => []SpanInv
<1>1. Init => SpanInv
  BY DEF Init, SpanInv, ReadingTaken
<1> QED BY <1>1, NextSpan, Typed, Readings, PTL DEF Spec

\* The k-th of all packets but the last is packet k.
LEMMA NthOfTrain ==
  ASSUME NEW n \in Nat, NEW k \in Indices(n)
  PROVE  Nth(Indices(n), k) = k
<1> DEFINE m == Nth(Indices(n), k)
<1>1. /\ IsFiniteSet(Indices(n)) /\ Cardinality(Indices(n)) = n
      /\ Indices(n) \in SUBSET Nat
  BY IndicesFinite DEF Indices
<1>2. m \in Indices(n) /\ Cardinality({j \in Indices(n) : j < m}) = k
  BY <1>1, NthInPairs
<1> HIDE DEF m
<1>3. m \in Nat /\ {j \in Indices(n) : j < m} = Indices(m)
  BY <1>2 DEF Indices
<1>4. Cardinality(Indices(m)) = m
  BY <1>3, IndicesFinite
<1> QED BY <1>2, <1>3, <1>4 DEF m

\* A time that is short for an int is measured right.
LEMMA ShortElapsed ==
  ASSUME NEW a \in 0 .. ULongMax, NEW b \in 0 .. ULongMax, a <= b,
         2 * (b - a) < IntModulus
  PROVE  Elapsed(a, b) = b - a
<1>1. ULongMax + 1 \in Nat \ {0} /\ IntModulus \in Nat \ {0}
  BY WidthsAssumption
<1>2. b - a \in 0 .. (ULongMax + 1) - 1 /\ b - a \in 0 .. IntModulus - 1
  <2>1. ULongMax \in Nat /\ IntModulus \in Nat /\ a \in Nat /\ b \in Nat /\ b <= ULongMax
    BY WidthsAssumption
  <2> QED BY <2>1
<1>3. ASSUME NEW w \in Nat \ {0}, NEW r \in 0 .. w - 1
      PROVE  r % w = r
  <2>1. w * 0 + r = r
    OBVIOUS
  <2>2. (w * 0 + r) % w = r
    BY ModUnique
  <2> QED BY <2>1, <2>2
<1>4. (b - a) % (ULongMax + 1) = b - a /\ (b - a) % IntModulus = b - a
  BY <1>1, <1>2, <1>3
<1> QED BY <1>4 DEF Elapsed, AsInt

\* What the sorted gaps sum up to from the second on is what the gaps sum up to
\* without the one that was sorted to the first place.
LEMMA SumButFirst ==
  ASSUME NEW n \in Nat, n > 0, NEW g \in [Indices(n) -> Int], NEW sorted,
         \A i \in Indices(n) : sorted[Position(g, n, i)] = g[i]
  PROVE  \E k \in Indices(n) :
           SumFunctionOnSet(sorted, 1 .. n - 1) = SumFunctionOnSet(g, Indices(n) \ {k})
<1> DEFINE place == [i \in Indices(n) |-> Position(g, n, i)]
<1>1. IsFiniteSet(Indices(n)) /\ 0 \in Indices(n)
  BY IndicesFinite DEF Indices
<1>2. /\ place \in [Indices(n) -> Indices(n)]
      /\ \A i, j \in Indices(n) : place[i] = place[j] => i = j
      /\ \A p \in Indices(n) : \E i \in Indices(n) : place[i] = p
  BY PositionsPermute
<1>3. \A i \in Indices(n) : g[i] \in Int /\ sorted[place[i]] = g[i]
  OBVIOUS
<1> HIDE DEF place
<1>4. SumFunctionOnSet(sorted, Indices(n)) = SumFunctionOnSet(g, Indices(n))
  BY <1>1, <1>2, <1>3, SumReindexed
<1>5. \A p \in Indices(n) : sorted[p] \in Int
  BY <1>2, <1>3
<1>6. PICK k \in Indices(n) : place[k] = 0
  BY <1>1, <1>2
<1>7. /\ Indices(n) \ {0} = 1 .. n - 1
      /\ IsFiniteSet(Indices(n) \ {0}) /\ IsFiniteSet(Indices(n) \ {k})
  <2>1. Indices(n) \ {0} = 1 .. n - 1
    BY DEF Indices
  <2>2. IsFiniteSet(Indices(n) \ {0}) /\ IsFiniteSet(Indices(n) \ {k})
    BY <1>1, FS_RemoveElement
  <2> QED BY <2>1, <2>2
<1> HIDE DEF Indices
<1>8. /\ SumFunctionOnSet(sorted, Indices(n))
           = sorted[0] + SumFunctionOnSet(sorted, Indices(n) \ {0})
      /\ SumFunctionOnSet(g, Indices(n)) = g[k] + SumFunctionOnSet(g, Indices(n) \ {k})
  BY ONLY <1>1, <1>3, <1>5, <1>6, SumRemove
<1>9. /\ SumFunctionOnSet(sorted, Indices(n) \ {0}) \in Int
      /\ SumFunctionOnSet(g, Indices(n) \ {k}) \in Int
  BY <1>3, <1>5, <1>7, SumType
<1>10. sorted[0] = g[k] /\ g[k] \in Int
  BY <1>3, <1>6
<1>11. SumFunctionOnSet(sorted, Indices(n) \ {0}) = SumFunctionOnSet(g, Indices(n) \ {k})
  <2>1. \A x, y, z \in Int : x + y = x + z => y = z
    OBVIOUS
  <2>2. g[k] + SumFunctionOnSet(sorted, Indices(n) \ {0})
          = g[k] + SumFunctionOnSet(g, Indices(n) \ {k})
    BY ONLY <1>4, <1>8, <1>10
  <2> QED BY ONLY <1>9, <1>10, <2>1, <2>2
<1> QED BY <1>6, <1>7, <1>11

\* The reading of a complete round divides the size of at least one packet by the
\* times that as many packets took to follow their predecessors: sorting neither
\* loses a gap nor takes one twice, and nothing of an earlier round comes in.
THEOREM ReadingsSpan == Spec => []ReadingOfOwnGaps
<1>1. TypeInv /\ ReadingInv /\ SpanInv => ReadingOfOwnGaps
  <2> DEFINE n == PacketCount - 1
             reading == bandwidthVector[pass]
             gap == [i \in 0 .. PacketCount - 2 |-> arrive[i + 1] - arrive[i]]
  <2> SUFFICES ASSUME TypeInv, ReadingInv, SpanInv,
                      ReadingTaken, LostPackets = {}, ~JunkMeasured
               PROVE  \E summed \in SUBSET (0 .. PacketCount - 2) :
                        /\ summed # {}
                        /\ reading.bytes = Cardinality(summed) * (probeSize + 42)
                        /\ reading.time = SumFunctionOnSet(gap, summed)
    BY DEF ReadingOfOwnGaps
  <2>1. n \in Nat /\ n > 1 /\ Indices(n) = 0 .. PacketCount - 2 /\ Train = 0 .. n
    BY ConstantTypes DEF Indices, Train
  <2>2. pairs = MeasuredPairs(PacketCount, arrive) /\ gapCount = n
    BY DEF ReadingInv, ReadingTaken, EnoughGaps
  <2>3. pairs = Indices(n)
    BY <2>1, AllNeighbours
  <2>4. /\ gaps \in [Indices(n) -> Int]
        /\ \A i \in Indices(n) : sortedGaps[Position(gaps, n, i)] = gaps[i]
        /\ reading.time = SumFunctionOnSet(sortedGaps, 1 .. n - 1)
        /\ reading.bytes = Cardinality(1 .. n - 1) * (probeSize + 42)
    BY <2>2 DEF TypeInv, RoundTypes, SpanInv, SummedGaps, Reading
  <2>5. PICK k \in Indices(n) :
          SumFunctionOnSet(sortedGaps, 1 .. n - 1) = SumFunctionOnSet(gaps, Indices(n) \ {k})
    <3> HIDE DEF n
    <3>1. n > 0
      BY <2>1
    <3> QED BY <2>1, <2>4, <3>1, SumButFirst
  <2>6. ASSUME NEW k2 \in Indices(n)
        PROVE  gaps[k2] = arrive[k2 + 1] - arrive[k2]
    <3>1. k2 \in Indices(n) /\ k2 \in Train /\ k2 + 1 \in Train
      BY <2>1 DEF Indices
    <3>2. /\ arrive[k2] \in 0 .. ULongMax /\ arrive[k2 + 1] \in 0 .. ULongMax
          /\ arrive[k2] # LostTime /\ arrive[k2 + 1] # LostTime
      <4>1. \A i \in Train : arrive[i] \in 0 .. ULongMax
        BY ConstantTypes DEF TypeInv, RoundTypes, Train
      <4>2. \A i \in Train : arrive[i] # LostTime
        BY DEF LostPackets
      <4> QED BY <3>1, <4>1, <4>2
    <3>3. arrive[k2] < arrive[k2 + 1]
      BY <2>2, <2>3, <3>1 DEF MeasuredPairs, NoRolloverOrTimeout
    <3>4. 2 * (arrive[k2 + 1] - arrive[k2]) < IntModulus
      BY <3>1, <3>2 DEF SpanInv, ReadingTaken, ShortRound
    <3>5. Elapsed(arrive[k2], arrive[k2 + 1]) = arrive[k2 + 1] - arrive[k2]
      BY <3>2, <3>3, <3>4, ShortElapsed
    <3>6. gaps[k2] = Elapsed(arrive[Nth(pairs, k2)], arrive[Nth(pairs, k2) + 1])
      BY <2>2, <3>1 DEF SpanInv, ReadingTaken, GapsOf, gapCount, Indices
    <3>7. Nth(pairs, k2) = k2
      BY <2>1, <2>3, <3>1, NthOfTrain
    <3> QED BY <3>5, <3>6, <3>7
  <2> DEFINE summed == Indices(n) \ {k}
  <2>7. /\ summed \in SUBSET (0 .. PacketCount - 2)
        /\ IsFiniteSet(summed) /\ Cardinality(summed) = n - 1
        /\ Cardinality(1 .. n - 1) = n - 1
    <3> HIDE DEF n
    <3>1. IsFiniteSet(Indices(n)) /\ Cardinality(Indices(n)) = n
      BY <2>1, IndicesFinite
    <3>2. Cardinality(1 .. n - 1) = n - 1
      BY <2>1, FS_Interval
    <3>3. IsFiniteSet(summed) /\ Cardinality(summed) = n - 1
      BY <3>1, FS_RemoveElement
    <3> QED BY <2>1, <3>2, <3>3
  <2>8. summed # {}
    <3> SUFFICES ASSUME summed = {} PROVE FALSE
      OBVIOUS
    <3>1. Cardinality(summed) = 0
      BY FS_EmptySet
    <3> QED BY <2>1, <2>7, <3>1
  <2>9. SumFunctionOnSet(gaps, summed) = SumFunctionOnSet(gap, summed)
    <3>1. \A i \in summed : gaps[i] \in Int /\ gap[i] = gaps[i]
      BY <2>1, <2>4, <2>6
    <3> HIDE DEF summed, gap
    <3> QED BY <2>7, <3>1, SumAgrees
  <2> QED BY <2>4, <2>5, <2>7, <2>8, <2>9
<1> QED BY <1>1, Typed, Readings, Spans, PTL
=============================================================================
