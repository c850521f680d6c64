SPECIFICATION Spec
CONSTANTS
  Stock = {s1, s2, s3, s4}
  Capacity = 3
  Batch = 2
  MaxApproach = 2
  Kept = 2
  MaxTicks = 4
SYMMETRY StockSymmetry
INVARIANTS TypeOK AtMostOneOrder EndSignPending EndSignIsLast
PROPERTIES PredictsOnlyComputed
CHECK_DEADLOCK FALSE
