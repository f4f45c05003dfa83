CONSTANTS
  Threads = {t1}
  NameOrder <- NamesAB
  Flags <- SomeFlags
  NumDbs = 3
  PoolCapacity = 1
  Bounds <- ThreeBounds
  RdrGroups <- ThreeGroups
  DefaultSize = 4
  U16 = 16
  U32 = 64
  Bits = 6
  Sizes = {1}
SPECIFICATION TrashSpec
CHECK_DEADLOCK FALSE
PROPERTIES
  ScheduledIsPlaced
