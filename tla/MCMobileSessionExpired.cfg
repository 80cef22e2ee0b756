SPECIFICATION Spec
CONSTANTS
  Calls = {boot, c1}
  Boot = boot
  MaxFaults = 0
  MaxExpiries = 1
  None = None
  boot = boot
  c1 = c1
  c2 = c2
  c3 = c3
INVARIANT
  ExpiredWhenRefreshFails
CHECK_DEADLOCK FALSE
