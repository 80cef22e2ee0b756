---------------------------- MODULE MCGroupReads ----------------------------
(* Model-checking instance of GroupReads: three calls that read and change  *)
(* the details of the group, or two that read its records and one that      *)
(* changes its members, with up to three records.                           *)
EXTENDS GroupReads, TLC

CONSTANTS alice, bob, c1, c2, c3

Get(user) == [op |-> "get", user |-> user]
List(user, limit) == [op |-> "list", user |-> user, limit |-> limit]
One(user) == [op |-> "one", user |-> user, record |-> CHOOSE r \in Records : TRUE]
Change1(op) == [op |-> op, user |-> alice, member |-> bob]
Profile == [op |-> "profile", user |-> bob]

Changes == {Change1(op) : op \in {"rename", "delete", "add", "remove"}}
DetailRequests == {Get(alice), Get(bob), Profile} \cup Changes
ListRequests == {List(bob, 1), List(bob, 2), List(bob, None), One(bob)}
AllRequests == DetailRequests \cup ListRequests

\* Without records when details are read: all were removed before.
MCInit ==
  /\ Init
  /\ \/ /\ erased = Records /\ faults = MaxFaults
        /\ \A c \in Calls : request[c] \in DetailRequests
     \/ /\ erased = {} /\ faults = 0
        /\ request[c1] \in ListRequests
        /\ request[c2] \in {Change1(op) : op \in {"delete", "add", "remove"}}
        /\ request[c3] = Profile

MCSpec == MCInit /\ [][Next]_vars
=============================================================================
