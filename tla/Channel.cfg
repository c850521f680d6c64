SPECIFICATION FairSpec
CONSTANTS
  Stock = {s1, s2}
  Capacity = 2
  Batch = 2
  MaxApproach = 1
  Kept = 1
  MaxTicks = 3
PROPERTIES EndsWhenAsked QuietWhenStopped
CHECK_DEADLOCK FALSE
