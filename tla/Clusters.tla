------------------------------ MODULE Clusters ------------------------------
(***************************************************************************)
(* What applyNewGraphicalMethod() computes, without lists, pieces, saved   *)
(* counts or identifiers.  The bandwidth readings of several probe sizes   *)
(* are points; try after try every point is widened, and the first try at  *)
(* which one cluster of all the points beats every other gives the answer. *)
(* Module Filter implements this specification.                            *)
(***************************************************************************)
EXTENDS Integers, Sequences, FiniteSets, Functions

CONSTANTS
  FuzzRounds,     \* tries, and the fraction of a reading it grows by
  MinPeakSize,    \* readings an answer needs
  MinNumSets,     \* probe sizes they have to come from
  Samples         \* possible inputs: per probe size the sequence of its readings

VARIABLES
  samples,        \* the input
  tries,          \* tries completed
  answer,         \* the range that was found, or None
  over            \* has the method ended?

vars == <<samples, tries, answer, over>>

None == [low |-> 0, high |-> 0, count |-> 0]

Sizes == DOMAIN samples

-----------------------------------------------------------------------------
(* Clusters: the ranges that a set of overlapping ranges covers *)

Lowest(S) == CHOOSE x \in S : \A y \in S : x <= y

\* Where a cluster begins: no range reaches there from below.  Likewise, its end.
Begins(R) == {r.low : r \in {r \in R : \A q \in R : q.low < r.low => q.high < r.low}}
Ends(R) == {r.high : r \in {r \in R : \A q \in R : q.high > r.high => q.low > r.high}}

ClustersOf(R) ==
  {[low |-> l, high |-> Lowest({h \in Ends(R) : h >= l})] : l \in Begins(R)}

\* The readings of a probe size that have grown together widen by a step of
\* their least one.
Joined(R) ==
  {[low |-> c.low, high |-> c.high,
    step |-> Lowest({r.step : r \in {r \in R : c.low <= r.low /\ r.high <= c.high}})] :
     c \in ClustersOf(R)}

Point(x) == [low |-> x * FuzzRounds, high |-> x * FuzzRounds, step |-> x]

Widened(r) == [r EXCEPT !.low = @ - r.step, !.high = @ + r.step]

\* The readings of a probe size at the n-th try.
Ranges(s, n) ==
  LET After[k \in 0 .. n] ==
        IF k = 0 THEN {Point(samples[s][j]) : j \in DOMAIN samples[s]}
        ELSE Joined({Widened(r) : r \in After[k - 1]})
  IN After[n]

-----------------------------------------------------------------------------
(* The answer *)

Inside(s, c) ==
  {j \in DOMAIN samples[s] :
     c.low <= samples[s][j] * FuzzRounds /\ samples[s][j] * FuzzRounds <= c.high}

CountIn(c) == SumFunction([s \in Sizes |-> Cardinality(Inside(s, c))])

\* Cluster c has more readings than any other, enough, and from enough sizes.
Wins(c, all) ==
  /\ \A d \in all \ {c} : CountIn(d) < CountIn(c)
  /\ CountIn(c) >= MinPeakSize
  /\ Cardinality({s \in Sizes : Inside(s, c) # {}}) >= MinNumSets

AllClusters(n) == ClustersOf(UNION {Ranges(s, n) : s \in Sizes})

Init ==
  /\ samples \in Samples
  /\ tries = 0 /\ answer = None
  /\ over = (Len(samples) < 2)

Succeed ==
  /\ ~over /\ tries < FuzzRounds
  /\ tries' = tries + 1 /\ over' = TRUE
  /\ LET all == AllClusters(tries + 1) IN
       \E c \in all : Wins(c, all) /\ answer' = [low |-> c.low, high |-> c.high, count |-> CountIn(c)]
  /\ UNCHANGED samples

Fail ==
  /\ ~over /\ tries < FuzzRounds
  /\ tries' = tries + 1
  /\ LET all == AllClusters(tries + 1) IN \A c \in all : ~Wins(c, all)
  /\ UNCHANGED <<samples, answer, over>>

GiveUp ==
  /\ ~over /\ tries = FuzzRounds
  /\ over' = TRUE
  /\ UNCHANGED <<samples, tries, answer>>

Next == Succeed \/ Fail \/ GiveUp

Spec == Init /\ [][Next]_vars
=============================================================================
