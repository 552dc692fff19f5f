SPECIFICATION FairSpec
CONSTANTS
  NumVariants = 2
  Workers = {w1}
  Users = {u1}
  Cron = Cron
  Config = Config
  BatchSize = 1
  RetryLimit = 2
  MaxChanges = 1
  MaxPushes = 1
  MaxFailures = 1
  MaxRejected = 1
CHECK_DEADLOCK FALSE
INVARIANTS TypeOK 
PROPERTY EventuallySynced
