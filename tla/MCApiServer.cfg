SPECIFICATION MCFairSpec
CONSTANTS
  Processes = {p1, p2}
  Requests = {r1, r2}
  Limit <- Limits
  Buckets <- TwoBuckets
  Durations = {1, 3}
  MaxFaults = 1
  MaxStarts = 2
  MaxWindows = 1
  None = None
  r1 = r1
  r2 = r2
INVARIANTS
  LimitsHold
  MetricsTellResponses
PROPERTIES
  ShutdownsEnd
CHECK_DEADLOCK FALSE
