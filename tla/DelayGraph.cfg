SPECIFICATION Spec
CONSTANTS
  Size = 3
  Keyed = {1}
  MaxComposed = 2
  MaxParts = 2
  MaxLinks = 2
INVARIANTS TypeOK OrderKept NoVainWait NoneForgotten DirectOrder
CHECK_DEADLOCK FALSE
