------------------------------ MODULE Measure -------------------------------
(***************************************************************************)
(* The probing engine with what both tools do to the rounds it really      *)
(* produces, flags left over from earlier rounds included (modules Bprobe  *)
(* and Cprobe take the results of rounds from a set): bprobe.c measures    *)
(* the pairs in order of a round, congtool.c all pairs, which it sorts and *)
(* sums up.                                                                *)
(***************************************************************************)
EXTENDS Rprobe

CONSTANTS
  ULongMax, IntModulus,
  Epoch           \* what the clock said before the first packet of a round was read

G == INSTANCE Gaps
S == INSTANCE SortGaps

\* The caller's arrays.  The slot past the train is taken to be 0, which no
\* pair with it survives: this is the best case.
ReturnArrive ==
  [i \in 0 .. NPackets |->
     CASE i = NPackets -> 0
       [] i # NPackets /\ arrive[i] = Lost -> G!LostTime
       [] OTHER -> Epoch + arrive[i]]

ReturnOrderOK == [i \in 0 .. NPackets |-> i # NPackets /\ orderOK[i]]

\* Both tools skip a round with a bad return code.
RoundGood == pc = "caller" /\ round > 0 /\ inOrder /\ ~duplicatePkts

-----------------------------------------------------------------------------
(* bprobe *)

PairsInOrder == G!MeasuredPairsInOrder(NPackets, ReturnArrive, ReturnOrderOK)

\* The pairs whose gaps bprobe makes its estimate of.
BprobePairs == IF RoundGood /\ Cardinality(PairsInOrder) >= 2 THEN PairsInOrder ELSE {}

-----------------------------------------------------------------------------
(* cprobe *)

AllPairs == G!MeasuredPairs(NPackets, ReturnArrive)

\* The pairs whose gaps make up a round that cprobe reads.
CprobePairs ==
  IF RoundGood /\ Cardinality(AllPairs) = NPackets - 1 THEN AllPairs ELSE {}

gaps == G!GapsOf(CprobePairs, ReturnArrive)

sortedGaps ==
  S!SortBy(gaps, Cardinality(CprobePairs), gaps, [k \in 0 .. NPackets |-> 0])

\* The time that cprobe divides by adds up the sorted gaps from the second on.
SummedUp == {sortedGaps[k] : k \in 1 .. Cardinality(CprobePairs) - 1}

-----------------------------------------------------------------------------

GapTo(i) == G!Elapsed(ReturnArrive[i - 1], ReturnArrive[i])

Highest(gap) == \A k \in DOMAIN gaps : gaps[k] <= gap

\* The gap to a packet that timed out is kept out of the results by one of the
\* three: "check that no rollover or timeout occurred" of bprobe, the same of
\* cprobe, or, where it is the highest, cprobe's "remove hi and low outliers".
LostPacketKeptOut ==
  \A i \in Ids \ {0} : Arrived(i) \/
    \/ i - 1 \notin BprobePairs
    \/ i - 1 \notin CprobePairs
    \/ ~Highest(GapTo(i))
    \/ GapTo(i) \notin SummedUp
=============================================================================
