--------------------------- MODULE MCGroupSummary ---------------------------
(* Model-checking instance of GroupSummary: two requests with one fault, or *)
(* one request, after another that failed before it reached Redis, with     *)
(* two.                                                                     *)
EXTENDS GroupSummary

CONSTANTS j1, j2

MCInit ==
  /\ SummaryInit
  /\ \/ faults = MaxFaults - 1 /\ request = [j \in Jobs |-> "new"]
     \/ faults = 0 /\ request = [j \in Jobs |-> IF j = j1 THEN "new" ELSE "failed"]

MCSpec == MCInit /\ [][SummaryNext]_allVars /\ Fairness
=============================================================================
