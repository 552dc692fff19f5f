SPECIFICATION Spec
CONSTANTS
  Orders = {o1}
  Pullers = {p1}
  Workers = {w1, w2}
  Clerks = {c1}
  retailer = retailer
  Customers = {retailer}
  Buyer <- OneBuyer
  Payments = {"free", "asked"}
  Config = Config
  MaxCartona = 1
  MaxUser = 2
  MaxFailures = 1
SYMMETRY Symmetry
INVARIANTS TypeOK  
PROPERTY DeliveredIsKept
CHECK_DEADLOCK FALSE
