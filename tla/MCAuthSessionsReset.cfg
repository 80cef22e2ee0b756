SPECIFICATION Spec
CONSTANTS
  Calls = {founder, c1, c2, c3}
  Founders = {founder}
  Emails = {e1, e2}
  Passwords = {p1, p2}
  MaxExpiries = 1
  None = None
  founder = founder
  c1 = c1
  c2 = c2
  c3 = c3
SYMMETRY Alike
INVARIANTS
  EverySessionEnds
CHECK_DEADLOCK FALSE
