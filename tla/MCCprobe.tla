------------------------------ MODULE MCCprobe ------------------------------
(* Model-checking values for Cprobe. *)
EXTENDS Cprobe

CONSTANT MCTimes      \* arrival times of received packets

MCOutcomes ==
  {o \in [arrive : [0 .. PacketCount - 1 -> MCTimes \cup {LostTime}],
           inOrder : BOOLEAN, duplicates : BOOLEAN] :
     o.inOrder \/ ~o.duplicates}
=============================================================================
