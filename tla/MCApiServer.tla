----------------------------- MODULE MCApiServer -----------------------------
(* Model-checking instance of ApiServer: two processes and two requests.    *)
EXTENDS ApiServer

CONSTANTS r1, r2

\* The e-mail endpoints have the tightest limit.
Limits == [k \in Kinds |-> IF k = "rl:auth-email:" THEN 1 ELSE 2]
TwoBuckets == <<1, 2>>

EmailRequests == route[r1] = "reset-password" /\ route[r2] = "forgot-password"
OtherRequests == route[r1] = "summary" /\ route[r2] = "unmatched"

\* Two e-mail endpoints, with two processes of which none fails while a window
\* ends, or with one process that may fail; or other requests, with two
\* processes or with one that may fail.
MCInit ==
  /\ Init
  /\ \/ EmailRequests /\ windows = 1 /\ starts = 2 /\ faults = 0
     \/ EmailRequests /\ windows = 0 /\ starts = 1 /\ faults = 1
     \/ OtherRequests /\ windows = 0 /\ starts + faults = 2 /\ starts > 0

MCFairSpec == MCInit /\ [][Next]_vars /\ Fairness
=============================================================================
