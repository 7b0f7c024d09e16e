------------------------------ MODULE MCBprobe ------------------------------
(* Model-checking values for Bprobe: trains of six packets. *)
EXTENDS Bprobe

CONSTANT MCEqualGaps      \* are rounds with only equal gaps included?

\* What lies behind the arrays.
MCJunk ==
  {[arrive |-> 0, depart |-> 0, orderOK |-> TRUE],
   [arrive |-> 400, depart |-> 5, orderOK |-> TRUE]}

\* A round of packets that left departStep apart and arrived by the given steps.
MCRound(steps, departStep, lost, stale, junk) ==
  [arrive |-> [i \in 0 .. 6 |->
     IF i = 6 THEN junk.arrive ELSE IF i \in lost THEN LostTime
     ELSE 10 + SumFunctionOnSet(steps, 1 .. i)],
   depart |-> [i \in 0 .. 6 |-> IF i = 6 THEN junk.depart ELSE 1 + i * departStep],
   orderOK |-> [i \in 0 .. 6 |->
     IF i = 6 THEN junk.orderOK ELSE IF i \in lost THEN stale ELSE i = 0 \/ i - 1 \notin lost],
   inOrder |-> TRUE, duplicates |-> FALSE]

MCSteps ==
  {<<2, 30, 41, 90, 60>>, <<5, 5, 5, 6, 5>>, <<9, 1, 4, 1, 20>>, <<10, 20, 30, 40, 50>>}
  \cup IF MCEqualGaps THEN {<<4, 4, 4, 4, 4>>} ELSE {}

MCWhole == {MCRound(s, 2, {}, FALSE, j) : s \in MCSteps, j \in MCJunk}

MCSame == {MCRound(<<10, 20, 30, 40, 50>>, d, {}, FALSE,
                   [arrive |-> 0, depart |-> 0, orderOK |-> TRUE]) : d \in {0, 25}}

MCLossy == {MCRound(<<9, 1, 4, 1, 20>>, 2, l, s, [arrive |-> 0, depart |-> 0, orderOK |-> TRUE]) :
              l \in {{2}, {5}, {1, 3}}, s \in BOOLEAN}

MCSpecial ==
  LET whole == MCRound(<<9, 1, 4, 1, 20>>, 2, {}, FALSE,
                       [arrive |-> 0, depart |-> 0, orderOK |-> TRUE])
  IN {[whole EXCEPT !.duplicates = TRUE], [whole EXCEPT !.inOrder = FALSE],
      \* packets 2 and 3 changed places
      [whole EXCEPT !.arrive = [@ EXCEPT ![2] = whole.arrive[3], ![3] = whole.arrive[2]],
                    !.orderOK = [@ EXCEPT ![2] = FALSE, ![3] = FALSE, ![4] = FALSE]],
      \* nothing came back
      MCRound(<<9, 1, 4, 1, 20>>, 2, 0 .. 5, FALSE,
              [arrive |-> 0, depart |-> 0, orderOK |-> TRUE])}

MCOutcomes == MCWhole \cup MCSame \cup MCLossy \cup MCSpecial
=============================================================================
