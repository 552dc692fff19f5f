SPECIFICATION Spec
CONSTANTS
  a = a
  b = b
  c = c
  d = d
  Jobs = {a, b, c}
  Parents <- TwoParents
  Users = {u, v}
  NoJob = NoJob
  MaxCrashes = 1
  MaxButtons = 2
SYMMETRY Symmetry
INVARIANTS TypeOK OnlyAfterParents NoLostWakeup
CHECK_DEADLOCK FALSE
