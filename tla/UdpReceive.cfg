SPECIFICATION FairSpec
CONSTANTS
  Capacity = 5
  Batch = 2
  PollMax = 3
  QuoteSize = 2
  Lengths = {1, 5}
  MaxPackets = 6
INVARIANTS
  BufferConserved
  NeverDry
  HandledInOrder
PROPERTIES
  PacketsHandled
CHECK_DEADLOCK FALSE
