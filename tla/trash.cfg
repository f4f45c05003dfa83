CONSTANTS
  Threads = {t1, t2}
  NameOrder <- NamesAB
  Flags <- SomeFlags
  NumDbs = 3
  PoolCapacity = 1
  Bounds <- ThreeBounds
  RdrGroups <- ThreeGroups
  DefaultSize = 4
  U16 = 16
  U32 = 64
  Bits = 6
  Sizes = {0, 1, 3, 4, 7, 8, 20}
SPECIFICATION TrashSpec
INVARIANTS
  RegistryComplete
  HandlesAgree
  CommittedIsFound
PROPERTIES
  OpenDbReturns
  ShortChunksFit
CHECK_DEADLOCK FALSE
