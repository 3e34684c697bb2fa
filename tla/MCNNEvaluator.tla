---------------------------- MODULE MCNNEvaluator ----------------------------
(* NNEvaluator for TLC.                                                        *)
EXTENDS NNEvaluator

CONSTANTS c1, c2, s1, e1

(* All positions collide in the one entry of the table.                         *)
OneSlot == [p \in Positions |-> e1]
===============================================================================
