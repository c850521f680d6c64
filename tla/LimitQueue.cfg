SPECIFICATION Spec
CONSTANTS
  OpenTimes = {92500000}
  DayTimes = {93000000, 145659990}
  CloseTimes = {150000000}
  MaxQty = 2
  MaxOrders = 8
INVARIANTS
  SignalIsReal
  MissedOnlyByCancel
  SignDecodes
CHECK_DEADLOCK FALSE
