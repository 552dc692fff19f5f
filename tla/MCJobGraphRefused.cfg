SPECIFICATION Spec
CONSTANTS
  a = a
  b = b
  c = c
  d = d
  Jobs = {a, b, c, d}
  Parents <- SharedChild
  Users = {}
  NoJob = NoJob
  MaxCrashes = 0
  MaxButtons = 0
INVARIANT StartedWhenParentsDone
CHECK_DEADLOCK FALSE
