-------------------------- MODULE MCListenerLease ---------------------------
(* Three PIDs on two nodes: two of them compete on one machine, the third  *)
(* elsewhere with a clock one heartbeat period ahead.                      *)
EXTENDS ListenerLease

CONSTANTS p1, p2, q1, here, there

MCProcs == {p1, p2, q1}
MCNodes == {here, there}
MCNodeOf == [p \in MCProcs |-> IF p = q1 THEN there ELSE here]
MCOffset == [n \in MCNodes |-> IF n = there THEN 1 ELSE 0]
=============================================================================
