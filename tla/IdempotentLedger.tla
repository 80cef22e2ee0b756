--------------------------- MODULE IdempotentLedger ---------------------------
(***************************************************************************)
(* What settlement creation promises its clients, without transactions,    *)
(* locks or records: each step is one atomic change of a ledger.           *)
(*                                                                         *)
(* An attempt either adds its settlement, which it may do only while its   *)
(* key stands for nothing, or is answered with a settlement that an        *)
(* earlier attempt of the same request added.  Anything may go wrong       *)
(* before that without leaving a trace, so refusals and failures are not   *)
(* steps of this specification at all.                                     *)
(***************************************************************************)
CONSTANTS Attempts, Keys, Groups, NoAttempt

VARIABLES request,  \* [user, key, group, payer, payee, amount] of each attempt
          current,  \* the settlement each key stands for during its lifetime
          ledger,   \* the settlements, named by the attempt that added them
          answer,   \* the settlement each attempt was answered with
          groups    \* the groups that exist

ledgerVars == <<request, current, ledger, answer, groups>>

SameRequest(a, b) == request[a] = request[b]

\* The ledger starts empty, over any set of groups and any requests: those
\* are inputs, not something this specification constrains.
Init ==
  /\ current = [k \in Keys |-> NoAttempt]
  /\ ledger = {}
  /\ answer = [a \in Attempts |-> NoAttempt]

\* The settlement is added, the key stands for it from now on; the answer
\* may be lost.
Add(a) ==
  /\ current[request[a].key] = NoAttempt
  /\ a \notin ledger
  /\ answer[a] = NoAttempt
  /\ request[a].group \in groups
  /\ current' = [current EXCEPT ![request[a].key] = a]
  /\ ledger' = ledger \cup {a}
  /\ answer' \in {answer, [answer EXCEPT ![a] = a]}
  /\ UNCHANGED <<request, groups>>

Replay(a, s) ==
  /\ answer[a] = NoAttempt
  /\ s \in ledger
  /\ SameRequest(a, s)
  /\ answer' = [answer EXCEPT ![a] = s]
  /\ UNCHANGED <<request, current, ledger, groups>>

\* The lifetime of a key ends.
EndLife(k) ==
  /\ current[k] # NoAttempt
  /\ current' = [current EXCEPT ![k] = NoAttempt]
  /\ UNCHANGED <<request, ledger, answer, groups>>

\* A group goes away with its settlements, for good.
Erase(g) ==
  /\ g \in groups
  /\ groups' = groups \ {g}
  /\ ledger' = {s \in ledger : request[s].group # g}
  /\ UNCHANGED <<request, current, answer>>

Next ==
  \/ \E a \in Attempts : Add(a) \/ \E s \in Attempts : Replay(a, s)
  \/ \E k \in Keys : EndLife(k)
  \/ \E g \in Groups : Erase(g)

Spec == Init /\ [][Next]_ledgerVars
=============================================================================
