SPECIFICATION FairSpec
CONSTANTS
  Jobs = {1, 2, 3}
  Channels = {1, 2, 3}
  Root = 3
  Over <- Tree
  Home <- JobHome
  Capacity <- Capacities
  Sequential = {1}
  Throttled = {2}
  Delayed = {}
  Waiting = {2}
  MaxEvents = 1
  MaxButtons = 1
INVARIANTS TypeOK CapacityKept MemoryFollows
PROPERTIES SequentialBlocks EventuallySent
CHECK_DEADLOCK FALSE
