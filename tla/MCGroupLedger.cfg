SPECIFICATION MCSpec
CONSTANTS
  Calls = {c1, c2, c3, c4}
  Users = {alice, bob, carol}
  Owner = alice
  Requests <- AllRequests
  Absent = Absent
  LastTime = 1
  Precision = 4
  alice = alice
  bob = bob
  carol = carol
  c1 = c1
  c2 = c2
  c3 = c3
  c4 = c4
INVARIANTS
  SplitsMatchTotals
  FeedTellsExpenses
  FeedTellsMembers
PROPERTIES
  SettledBalancesAddUp
SYMMETRY OtherCalls
CHECK_DEADLOCK FALSE
