-------------------------- MODULE MCThrottleGroup --------------------------
(* Two jobs of one group, one of which has a load threshold too.          *)
EXTENDS ThrottleGroup, TLC

CONSTANTS u1, u2, g

MCGroup     == [u \in Unit |-> g]
MCHasTarget == [u \in Unit |-> u = u1]
MCFREQ      == [u \in Unit |-> IF u = u1 THEN 2 ELSE 1]
=============================================================================
