SPECIFICATION Spec
CONSTANTS
  Size = 4
  Keyed = {1}
  MaxComposed = 2
  MaxParts = 2
  MaxLinks = 1
INVARIANT NestedOrderKept
CHECK_DEADLOCK FALSE
