SPECIFICATION FairSpec
CONSTANTS
  Procs <- MCProcs
  Resources <- MCResources
  NoProc = NoProc
  p1 = p1
  p2 = p2
  p3 = p3
  r1 = r1
  r2 = r2
INVARIANTS CoordinatedExclusion
PROPERTIES OnlyOwnerOrTTLFrees LockEventuallyFreed
CHECK_DEADLOCK FALSE
