------------------------------ MODULE MCFilter ------------------------------
(* Model-checking values for Filter. *)
EXTENDS Filter

CONSTANTS
  MCReadings,     \* bandwidths
  MCRowLength,    \* readings of a row, at most
  MCTotal         \* readings of a matrix, at most

DescendingRows ==
  {row \in UNION {[1 .. n -> MCReadings] : n \in 0 .. MCRowLength} :
     \A j, k \in DOMAIN row : j < k => row[j] >= row[k]}

\* The first row, which is united last, has at most one reading.
MCMatrices ==
  {m \in [1 .. 4 -> DescendingRows] :
     Len(m[1]) <= 1 /\ SumFunction([r \in 1 .. 4 |-> Len(m[r])]) <= MCTotal}
=============================================================================
