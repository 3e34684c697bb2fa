--------------------------- MODULE MCAnalysisEngine ---------------------------
(* AnalysisEngine for TLC.                                                       *)
EXTENDS AnalysisEngine

CONSTANTS t1, t2, r1, r2

(* The second request overtakes the others; ties go to the earlier one.            *)
MCPriority == [r \in Requests |-> IF r = r2 THEN 1 ELSE 0]
===============================================================================
