------------------------------- MODULE Cprobe -------------------------------
(***************************************************************************)
(* congtool.c: probeLoop() of cprobe.  One round of probes per packet      *)
(* size; a round with a gap for every pair of neighbours gives a reading   *)
(* of the available bandwidth; the positive readings are averaged.         *)
(*                                                                         *)
(* A round is an element of Outcomes, the results of rprobe() (module      *)
(* Rprobe).  A reading is kept as the two numbers whose quotient it is.    *)
(* Departure times play no part in cprobe's result and are left out.       *)
(***************************************************************************)
EXTENDS Gaps, SortGaps, Functions

CONSTANTS
  MAX_PROBES,     \* length of the arrays (10)
  PacketCount,    \* packets per round (8)
  FirstSize,      \* first probe size (600)
  LastSize,       \* last probe size (900)
  Outcomes,       \* what a call of rprobe() can return
  JunkTimes       \* what arrive[PacketCount], never assigned, can hold

Train == 0 .. PacketCount - 1

ASSUME CprobeAssumption ==
  /\ MAX_PROBES \in Nat
  /\ PacketCount \in 3 .. MAX_PROBES - 1
  /\ FirstSize \in Nat /\ LastSize \in Nat
  /\ Outcomes \subseteq [arrive : [Train -> 1 .. ULongMax],
                         inOrder : BOOLEAN, duplicates : BOOLEAN]
  /\ JunkTimes \subseteq 0 .. ULongMax

\* Half the range of an int is more than half an hour: the packets of a round,
\* sent within moments and awaited for seconds, arrive closer together than that.
ASSUME ShortRoundsAssumption ==
  \A o \in Outcomes : \A i, j \in Train :
    o.arrive[i] # LostTime /\ o.arrive[j] # LostTime
      => 2 * (o.arrive[j] - o.arrive[i]) < IntModulus

NoReading == [bytes |-> 0, time |-> 1]      \* the 0.0 of an unused entry

VARIABLES
  pc,               \* "probe", "gaps", "estimate", "next", "done" or "exit"
  pass, probeSize,
  arrive,           \* the caller's array, on 0 .. PacketCount
  returnCodes,      \* [inOrder, duplicates] of the last round
  pairs,            \* the pairs behind gaps[]
  gaps, sortedGaps,
  bandwidthVector,
  averaged,         \* passes whose readings the result averages
  clean             \* history: passes whose round had no bad return code

roundVars == <<arrive, returnCodes>>
gapVars == <<pairs, gaps, sortedGaps>>
vars == <<pc, pass, probeSize, roundVars, gapVars, bandwidthVector, averaged, clean>>

Passes == 0 .. (LastSize - FirstSize) \div 100

TypeOK ==
  /\ pc \in {"probe", "gaps", "estimate", "next", "done", "exit"}
  /\ pass \in 0 .. Cardinality(Passes)
  /\ arrive \in [0 .. PacketCount -> 0 .. ULongMax]
  /\ pairs \subseteq Train
  /\ DOMAIN gaps = 0 .. Cardinality(pairs) - 1
  /\ Cardinality(pairs) <= MAX_PROBES
  /\ \A p \in Passes : bandwidthVector[p].bytes \in Nat
  /\ averaged \subseteq Passes /\ clean \subseteq Passes

Init ==
  /\ pc = "probe"
  /\ pass = 0 /\ probeSize = FirstSize
  /\ \E junk \in JunkTimes :
       arrive = [i \in 0 .. PacketCount |-> IF i \in Train THEN LostTime ELSE junk]
  /\ returnCodes = [inOrder |-> TRUE, duplicates |-> FALSE]
  /\ pairs = {} /\ gaps = <<>>
  /\ sortedGaps = [i \in 0 .. MAX_PROBES - 1 |-> 0]
  /\ bandwidthVector = [p \in Passes |-> NoReading]
  /\ averaged = {} /\ clean = {}

-----------------------------------------------------------------------------

\* The head of the loop and the call of rprobe().
Probe ==
  /\ pc = "probe" /\ probeSize <= LastSize
  /\ \E o \in Outcomes :
       /\ arrive' = [i \in 0 .. PacketCount |->
                       IF i \in Train THEN o.arrive[i] ELSE arrive[i]]
       /\ returnCodes' = [inOrder |-> o.inOrder, duplicates |-> o.duplicates]
       /\ clean' = IF o.inOrder /\ ~o.duplicates THEN clean \cup {pass} ELSE clean
  /\ pc' = "gaps"
  /\ UNCHANGED <<pass, probeSize, gapVars, bandwidthVector, averaged>>

\* rprobe() cannot set the round up and the process exits.
ProbeExits ==
  /\ pc = "probe" /\ probeSize <= LastSize
  /\ pc' = "exit"
  /\ UNCHANGED <<pass, probeSize, roundVars, gapVars, bandwidthVector, averaged, clean>>

ComputeInterArrivalGaps ==
  /\ pc = "gaps"
  /\ pairs' = MeasuredPairs(PacketCount, arrive)
  /\ gaps' = GapsOf(pairs', arrive)
  /\ pc' = "estimate"
  /\ UNCHANGED <<pass, probeSize, roundVars, sortedGaps, bandwidthVector, averaged, clean>>

gapCount == Cardinality(pairs)

\* Mutant: duplicates are not a reason to skip the round.
BadIterationWithoutDuplicates == ~returnCodes.inOrder \/ gapCount < 2

BadIteration ==
  \/ ~returnCodes.inOrder
  \/ returnCodes.duplicates
  \/ gapCount < 2

\* Mutant: a round that misses a gap still counts.
EnoughGapsButOne == gapCount >= PacketCount - 2

EnoughGaps == gapCount = PacketCount - 1

\* Mutant: the sum goes on to what an earlier round left behind the gaps.
SummedGapsAndOne == 1 .. gapCount

SummedGaps == 1 .. gapCount - 1

Reading(sorted) ==
  [bytes |-> Cardinality(SummedGaps) * (probeSize + 42),
   time |-> SumFunctionOnSet(sorted, SummedGaps)]

\* The gaps of a good round are sorted and, if none is missing, read.
Estimate ==
  /\ pc = "estimate"
  /\ IF BadIteration
       THEN UNCHANGED <<sortedGaps, bandwidthVector>>
       ELSE /\ sortedGaps' = SortBy(gaps, gapCount, gaps, sortedGaps)
            /\ bandwidthVector' =
                 IF EnoughGaps
                   THEN [bandwidthVector EXCEPT ![pass] = Reading(sortedGaps')]
                   ELSE bandwidthVector
  /\ pc' = "next"
  /\ UNCHANGED <<pass, probeSize, roundVars, pairs, gaps, averaged, clean>>

\* Mutant: the sizes grow half as fast, and there are more passes than foreseen.
NextPassHalfStep ==
  /\ pc = "next"
  /\ pass' = pass + 1
  /\ probeSize' = probeSize + 50
  /\ pc' = "probe"
  /\ UNCHANGED <<roundVars, gapVars, bandwidthVector, averaged, clean>>

NextPass ==
  /\ pc = "next"
  /\ pass' = pass + 1
  /\ probeSize' = probeSize + 100
  /\ pc' = "probe"
  /\ UNCHANGED <<roundVars, gapVars, bandwidthVector, averaged, clean>>

\* bytes / time > 0.0, a quotient by zero being infinite.
Positive(reading) == reading.bytes > 0 /\ reading.time >= 0

Average ==
  /\ pc = "probe" /\ probeSize > LastSize
  /\ averaged' = {p \in 0 .. pass - 1 : Positive(bandwidthVector[p])}
  /\ pc' = "done"
  /\ UNCHANGED <<pass, probeSize, roundVars, gapVars, bandwidthVector, clean>>

Finished == pc \in {"done", "exit"} /\ UNCHANGED vars

Next ==
  \/ Probe \/ ProbeExits \/ ComputeInterArrivalGaps \/ Estimate \/ NextPass
  \/ Average \/ Finished

Spec == Init /\ [][Next]_vars

-----------------------------------------------------------------------------
(* Properties *)

\* This round has just given a reading.
ReadingTaken == pc = "next" /\ bandwidthVector[pass] # NoReading

LostPackets == {i \in Train : arrive[i] = LostTime}

\* The pair of the last packet and the slot past the train was measured.
JunkMeasured == PacketCount - 1 \in pairs

\* The sort, run on whatever an earlier round left in sortedGaps, yields this
\* round's gaps in ascending order.
GapsSorted ==
  pc = "next" /\ ~BadIteration => SortedTogether(gaps, gaps, gapCount, sortedGaps, sortedGaps)

\* Two bogus gaps cannot make up for two missing ones, and no packet is lost from
\* within the train unnoticed: a reading stands for a round that lost at most one
\* packet, and unless the slot past the train was measured, the last one.  (That a
\* round without its last packet gives a reading is refuted in module Measure.)
LossOnlyAtEnd ==
  ReadingTaken =>
    /\ Cardinality(LostPackets) <= 1
    /\ ~JunkMeasured => LostPackets \subseteq {PacketCount - 1}

\* cprobe does not look at orderOK; nevertheless, a reading of a round that
\* lost nothing and measured nothing past the train means that the packets
\* arrived in the order they were sent.
CompleteReadingInOrder ==
  ReadingTaken /\ LostPackets = {} /\ ~JunkMeasured =>
    \A i, j \in Train : i < j => arrive[i] < arrive[j]

\* Such a reading is the size of one or more packets over the times that as many
\* packets of this round took to follow their predecessors, none of them counted
\* twice: sorting loses no gap, and the sum takes in nothing an earlier round left.
\* Which gaps are outliers is not said here.
ReadingOfOwnGaps ==
  ReadingTaken /\ LostPackets = {} /\ ~JunkMeasured =>
    \E summed \in SUBSET (0 .. PacketCount - 2) :
      LET reading == bandwidthVector[pass]
          gap == [i \in 0 .. PacketCount - 2 |-> arrive[i + 1] - arrive[i]]
      IN  /\ summed # {}
          /\ reading.bytes = Cardinality(summed) * (probeSize + 42)
          /\ reading.time = SumFunctionOnSet(gap, summed)

\* What is averaged in the end stems from rounds without duplicates or
\* reordering, whichever rounds were skipped in between.
AveragesCleanRounds == averaged \subseteq clean
=============================================================================
