SPECIFICATION Spec
CONSTANTS
  Calls = {c1, c2, c3}
  Users = {alice, bob, carol}
  Owner = alice
  Requests <- Departures
  Absent = Absent
  LastTime = 0
  Precision = 4
  alice = alice
  bob = bob
  carol = carol
  c1 = c1
  c2 = c2
  c3 = c3
  c4 = c4
INVARIANTS
  ShownBalancesAddUp
CHECK_DEADLOCK FALSE
