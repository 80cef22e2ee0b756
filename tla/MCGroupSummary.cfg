SPECIFICATION MCSpec
CONSTANTS
  Jobs = {j1, j2}
  Workers = {w1, w2}
  MaxAttempts = 2
  MaxFaults = 2
  MaxWrites = 1
  Metrics = {expenses}
  None = None
  j1 = j1
  j2 = j2
INVARIANTS
  IInv
  JobsNotLost
  OneWorkerPerJob
  GivenUpAfterAllAttempts
  CompletedStaysCompleted
  PerformedMeansSummarised
PROPERTIES
  SummaryNeverGoesBack
  EveryJobLeaves
CHECK_DEADLOCK FALSE
