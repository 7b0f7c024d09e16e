----------------------------- MODULE ProbeRound -----------------------------
(***************************************************************************)
(* What one call of rprobe() promises its caller, without sockets, signal  *)
(* handlers or counters: a round collects replies to a set of packets and  *)
(* ends either because every packet has been answered or because the       *)
(* timeout went off.  Module Rprobe implements this specification.         *)
(***************************************************************************)
CONSTANT Ids            \* the packets of a round

VARIABLES
  phase,                \* "idle", "probing", or "exit" once the process is gone
  answered,             \* packets whose arrival has been recorded
  repeated,             \* was a reply seen again after it was recorded?
  stopped               \* has the timeout gone off since the round began?

vars == <<phase, answered, repeated, stopped>>

TypeOK ==
  /\ phase \in {"idle", "probing", "exit"}
  /\ answered \subseteq Ids
  /\ repeated \in BOOLEAN
  /\ stopped \in BOOLEAN

Init ==
  /\ phase = "idle"
  /\ answered = {}
  /\ repeated = FALSE
  /\ stopped = FALSE

\* The caller starts a round: nothing of the previous round survives.
Begin ==
  /\ phase = "idle"
  /\ phase' = "probing"
  /\ answered' = {}
  /\ repeated' = FALSE
  /\ stopped' = FALSE

\* A packet that was not answered yet is.
Answer(i) ==
  /\ phase = "probing"
  /\ i \notin answered
  /\ answered' = answered \cup {i}
  /\ UNCHANGED <<phase, repeated, stopped>>

\* A packet that was answered already is answered again: only reported.
Repeat ==
  /\ phase = "probing"
  /\ answered # {}
  /\ repeated' = TRUE
  /\ UNCHANGED <<phase, answered, stopped>>

\* The timer goes off.
Stop ==
  /\ phase # "exit"
  /\ stopped' = TRUE
  /\ UNCHANGED <<phase, answered, repeated>>

\* The only two ways a round can end with a result.
End ==
  /\ phase = "probing"
  /\ answered = Ids \/ stopped
  /\ phase' = "idle"
  /\ UNCHANGED <<answered, repeated, stopped>>

\* The round cannot be set up and the process exits: nothing was answered.
Abort ==
  /\ phase = "probing"
  /\ answered = {}
  /\ phase' = "exit"
  /\ UNCHANGED <<answered, repeated, stopped>>

Next ==
  \/ Begin \/ Repeat \/ Stop \/ End \/ Abort
  \/ \E i \in Ids : Answer(i)

Spec == Init /\ [][Next]_vars
=============================================================================
