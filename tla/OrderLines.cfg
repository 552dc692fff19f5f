SPECIFICATION FairSpec
CONSTANTS
  Imported = {l1}
  Added = {l2}
  Workers = {w1, w2}
  Pullers = {p1}
  MaxEdits = 2
  MaxFailures = 1
INVARIANTS TypeOK 
PROPERTIES PullRestoresOnlyEmptyDrafts 
