--------------------------- MODULE MCMobileSession ---------------------------
(* Model-checking instance of MobileSession: the launch and three calls, two *)
(* of which read.                                                            *)
EXTENDS MobileSession

CONSTANTS boot, c1, c2, c3

\* One call reads, and the others are of any kind; there are faults, or
\* tokens expire.
MCInit ==
  /\ Init
  /\ \/ faults = MaxFaults /\ expiries = 0
     \/ faults = 0 /\ expiries = MaxExpiries
  /\ kind[c1] = "get"

MCFairSpec == MCInit /\ [][Next]_vars /\ \A c \in Calls : WF_vars(Step(c))
=============================================================================
