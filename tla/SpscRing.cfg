SPECIFICATION FairSpec
CONSTANTS
  N = 4
  Batch = 2
  Tick = {t1, t2}
  NoTick = NoTick
INVARIANTS
  TypeOK
  PositionOrder
  CallsConsistent
  NoSlotRace
PROPERTIES
  ImplementsFifo
  EverySlotReleased
CHECK_DEADLOCK TRUE
