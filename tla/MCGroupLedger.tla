---------------------------- MODULE MCGroupLedger ----------------------------
(* Model-checking instance of GroupLedger: alice owns the group, carol is a *)
(* member and bob may be one; requests concern the expense created by call  *)
(* c1.                                                                      *)
EXTENDS GroupLedger, TLC

CONSTANTS alice, bob, carol, c1, c2, c3, c4

\* calculateEqualSplits deals the units out one by one, in turn, starting with
\* the first participant.
ASSUME SharesAreDealt ==
  \A count \in 1 .. 4, total \in 0 .. 25 : \A i \in 1 .. count :
    calculateEqualSplits(total, [j \in 1 .. count |-> j])[i]
      = Cardinality({unit \in 0 .. total - 1 : unit % count = i - 1})

\* toNum gives the nearest of the numbers m * 2^k, 0 <= m <= Precision.
ASSUME NumbersAreNearest ==
  LET range == 8 * Precision
      held == {m * 2^k : m \in 0 .. Precision, k \in 0 .. 4}
      numbers == held \cup {-n : n \in held}
      Distance(x, y) == IF x < y THEN y - x ELSE x - y
  IN \A x \in -range .. range :
       /\ toNum(x) \in numbers
       /\ \A y \in numbers : Distance(x, toNum(x)) <= Distance(x, y)

Shares(amounts) ==
  [i \in DOMAIN amounts |->
     [user |-> <<alice, bob>>[i], amount |-> amounts[i]]]

CreateEqual ==
  [op |-> "create", user |-> alice, payer |-> alice, total |-> 3,
   type |-> "EQUAL", participants |-> Shares(<<Absent, Absent>>)]
CreateExact ==
  [op |-> "create", user |-> alice, payer |-> bob, total |-> 3,
   type |-> "EXACT", participants |-> Shares(<<1, 2>>)]

Patch(payer, total, type, participants) ==
  [op |-> "update", user |-> alice, expense |-> c1, payer |-> payer,
   total |-> total, type |-> type, participants |-> participants]

Patches ==
  {Patch(bob, Absent, Absent, Absent),
   Patch(Absent, 5, Absent, Absent),
   Patch(Absent, 4, "EQUAL", Absent),
   Patch(Absent, Absent, "EXACT", Shares(<<1, 2>>)),
   Patch(Absent, 4, "EXACT", Shares(<<4>>)),
   Patch(Absent, Absent, Absent, Shares(<<Absent>>))}

\* alice is owed more than a Number holds exactly in this instance.
Uneven ==
  Patch(alice, 5, "EXACT", <<[user |-> bob, amount |-> 3],
                             [user |-> carol, amount |-> 2]>>)

Delete1 == [op |-> "delete", user |-> bob, expense |-> c1]
Dissolve1 == [op |-> "dissolve", user |-> alice]
AddBob == [op |-> "add", user |-> alice, member |-> bob]
RemoveBob == [op |-> "remove", user |-> alice, member |-> bob]
SettleUp == [op |-> "settle", user |-> bob, payer |-> bob, payee |-> alice,
             total |-> 1]
ShowBalances == [op |-> "balances", user |-> alice]

Expenses == {CreateEqual, CreateExact, Delete1} \cup Patches
Memberships ==
  {CreateEqual, Uneven, Delete1, AddBob, RemoveBob,
   Dissolve1, SettleUp, ShowBalances}
Departures == {CreateEqual, RemoveBob, ShowBalances}
AllRequests == Expenses \cup Memberships

\* Calls that work on the expense, or calls of every kind.
MCInit ==
  /\ Init
  /\ carol \in members
  /\ \E kind \in {Expenses, Memberships} : \A c \in Calls : request[c] \in kind

\* No request names the calls other than c1.
OtherCalls == Permutations({c2, c3, c4})

MCSpec == MCInit /\ [][Next]_vars
=============================================================================
