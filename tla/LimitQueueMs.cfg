SPECIFICATION Spec
CONSTANTS
  OpenTimes = {92500000}
  DayTimes = {93000000, 93000005}
  CloseTimes = {150000000}
  MaxQty = 2
  MaxOrders = 8
INVARIANTS
  SignDecodes
CHECK_DEADLOCK FALSE
