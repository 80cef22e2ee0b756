SPECIFICATION Spec
CONSTANTS
  Attempts = {a1, a2, a3}
  Users = {alice, bob}
  Keys = {k1}
  Groups = {g1}
  Requests <- SameRequest
  Owner <- OwnedByAlice
  NoAttempt = NoAttempt
  alice = alice
  bob = bob
  k1 = k1
  g1 = g1
  a1 = a1
  a2 = a2
  a3 = a3
SYMMETRY AttemptSymmetry
INVARIANTS
  IInv
  AtMostOncePerKeyLife
  RecordsMatchBook
  GroupSerialised
PROPERTIES
  ImplementsLedger
CHECK_DEADLOCK FALSE
