SPECIFICATION FairSpec
CONSTANTS
  Runners = {r1, r2}
  N = 2
  Free = Free
  Lost = Lost
  MaxFailures = 2
  MaxUsers = 2
INVARIANTS TypeOK OneMaster Informed
PROPERTY EventuallyPerformed
