SPECIFICATION FairSpec
CONSTANTS
  Orders = {o1, o2}
  Pullers = {p1, p2}
  Workers = {}
  Clerks = {}
  retailer = retailer
  Customers = {retailer}
  Buyer <- OneBuyer
  Payments = {"free"}
  Config = Config
  MaxCartona = 0
  MaxUser = 1
  MaxFailures = 1
INVARIANTS NoDuplicateOrders NoDuplicateCustomers
PROPERTIES StopIsEffective EveryOrderImported
CHECK_DEADLOCK FALSE
