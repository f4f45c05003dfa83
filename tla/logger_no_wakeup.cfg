CONSTANTS
  Loggers = {p1}
  Msgs = {m1}
  MaxLogs = 1
  MaxInits = 1
SPECIFICATION FairSpec
PROPERTIES
  AcceptedIsWritten
