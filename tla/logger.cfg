CONSTANTS
  Loggers = {p1,p2}
  Msgs = {m1,m2}
  MaxLogs = 3
  MaxInits = 2
SPECIFICATION FairSpec
INVARIANTS
  TypeOK
  WrittenInOrder
  ClosedIsFlushed
PROPERTIES
  CloseReturns
