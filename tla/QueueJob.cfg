SPECIFICATION FairSpec
CONSTANTS
  Jobs = {j1}
  Workers = {w1, w2}
  NoJob = NoJob
  NoWorker = NoWorker
  MaxRetries = 2
  MaxRequests = 2
  MaxCrashes = 2
  MaxConflicts = 1
  MaxButtons = 1
INVARIANTS TypeOK MutualExclusion   RetryWithinLimit
PROPERTIES  EventuallyExecuted NeverStuck
