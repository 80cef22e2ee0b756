SPECIFICATION MCFairSpec
CONSTANTS
  Calls = {boot, c1, c2, c3}
  Boot = boot
  MaxFaults = 1
  MaxExpiries = 1
  None = None
  boot = boot
  c1 = c1
  c2 = c2
  c3 = c3
INVARIANTS
  RotatedTokensAreReplaced
  StoredTokenIsLive
PROPERTIES
  CallsEnd
CHECK_DEADLOCK FALSE
