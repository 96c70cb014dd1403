-------------------------- MODULE MCAccountClient --------------------------
(* TLC instances of AccountClient: two episodes of different lengths.       *)
EXTENDS AccountClient

CONSTANTS e1, e2

MCDuration == [v \in Videos |-> IF v = e1 THEN 3 ELSE 2]
=============================================================================
