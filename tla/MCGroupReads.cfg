SPECIFICATION MCSpec
CONSTANTS
  Calls = {c1, c2, c3}
  Users = {alice, bob}
  Owner = alice
  Requests <- AllRequests
  Records = {r1, r2, r3}
  MaxFaults = 2
  None = None
  alice = alice
  bob = bob
  c1 = c1
  c2 = c2
  c3 = c3
INVARIANTS
  IInv
  CacheTellsTheGroup
  ServedToMembers
  WalksAreComplete
CHECK_DEADLOCK FALSE
