SPECIFICATION FairSpec
CONSTANTS
  Stock = {1, 2, 3, 4}
  Market = "SZSE"
  Listed <- MCListed
  UpperLimit <- MCUpperLimit
INVARIANTS
  IdentityKnown
  OwnLimit
  StaticsSettled
PROPERTIES
  StartsIfAnswered
CHECK_DEADLOCK FALSE
