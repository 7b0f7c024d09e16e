-------------------------------- MODULE Gaps --------------------------------
(***************************************************************************)
(* computeInterArrivalGaps() of bprobe.c and congtool.c: which pairs of    *)
(* neighbouring packets are measured, and what is measured.  Times are     *)
(* unsigned longs, gaps are ints.                                          *)
(*                                                                         *)
(* The loops look at arrive[i + 1] for every packet i, so they read one    *)
(* slot past the train: "arrive" is a function on 0 .. n whose last value  *)
(* is whatever the memory behind the train holds.                          *)
(***************************************************************************)
EXTENDS Integers, FiniteSets

CONSTANTS
  ULongMax,       \* greatest hw_time_t
  IntModulus      \* number of values of an int

ASSUME WidthsAssumption ==
  /\ ULongMax \in Nat /\ IntModulus \in Nat \ {0}
  /\ (ULongMax + 1) % IntModulus = 0

LostTime == ULongMax      \* (hw_time_t) -1, the arrival of a lost packet

\* Conversion to int keeps the low bits.
AsInt(x) ==
  LET r == x % IntModulus IN IF 2 * r < IntModulus THEN r ELSE r - IntModulus

Elapsed(from, to) == AsInt((to - from) % (ULongMax + 1))

\* "check that no rollover or timeout occurred"
NoRolloverOrTimeout(arrive, i) ==
  /\ arrive[i] > 0
  /\ arrive[i + 1] > 0
  /\ arrive[i + 1] > arrive[i]

\* Mutant: the time of the second packet of a pair is not compared.
MeasuredPairsUncompared(n, arrive) ==
  {i \in 0 .. n - 1 : arrive[i] > 0 /\ arrive[i + 1] > 0}

\* congtool.c: the first packets of the measured pairs ...
MeasuredPairs(n, arrive) == {i \in 0 .. n - 1 : NoRolloverOrTimeout(arrive, i)}

\* ... and bprobe.c, which measures "the pairs that are in order".
MeasuredPairsInOrder(n, arrive, orderOK) ==
  {i \in MeasuredPairs(n, arrive) : orderOK[i + 1]}

\* The k-th element of a set of numbers, from 0.
Nth(pairs, k) == CHOOSE i \in pairs : Cardinality({j \in pairs : j < i}) = k

\* gaps[] or departGaps[], filled in the order of the train.
GapsOf(pairs, times) ==
  [k \in 0 .. Cardinality(pairs) - 1 |->
     Elapsed(times[Nth(pairs, k)], times[Nth(pairs, k) + 1])]
=============================================================================
