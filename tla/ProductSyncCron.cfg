SPECIFICATION Spec
CONSTANTS
  NumVariants = 1
  Workers = {w1}
  Users = {}
  Cron = Cron
  Config = Config
  BatchSize = 1
  RetryLimit = 2
  MaxChanges = 1
  MaxPushes = 1
  MaxFailures = 0
  MaxRejected = 0
INVARIANT PriceReachesCartona
CHECK_DEADLOCK FALSE
