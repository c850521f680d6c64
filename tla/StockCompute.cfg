SPECIFICATION Spec
CONSTANTS
  Order = {o1, o2}
  NearOrder = {o1}
  Quantity = {1, 2}
  Times = {92500000, 93000100, 93000210, 93000350}
  MaxTicks = 5
INVARIANTS TypeOK FilterInStep VolumeConserved RoundWithoutGap BookMatchesExchange
PROPERTIES ImplementsClock
