SPECIFICATION FairSpec
CONSTANTS
  Attempts = {a1, a2}
  Users = {alice, bob}
  Keys = {k1}
  Groups = {g1}
  Requests <- OneKeyAndOneself
  Owner <- OwnedByAlice
  NoAttempt = NoAttempt
  alice = alice
  bob = bob
  k1 = k1
  g1 = g1
  a1 = a1
  a2 = a2
  a3 = a3
INVARIANTS
  CreatedMeansRecorded
  RefusedRecordsNothing
PROPERTIES
  ConflictOnlyAfterExpiry
  EveryAttemptAnswered
CHECK_DEADLOCK FALSE
