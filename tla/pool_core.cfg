CONSTANTS
  None = None
  c1 = c1
  c2 = c2
  Clients = {c1, c2}
  Groups = {g1}
  Works = {w1, w2, w3}
  MaxThrds = 3
  GroupArgs <- UpToThree
  ThrdBound = 3
  QSizeMult = 1
  UIntMod = 16
  ClientOps <- WorkAndWait
  TaskSubmits = FALSE
SPECIFICATION Spec
CONSTRAINT FixedGroupsGo
SYMMETRY WorksSymmetry
INVARIANTS
  TypeOK
  QueueIdleExclusion
  HandOverToParked
  FetchesRunning
  ListsAgree
  FreedIsQuiet
PROPERTIES
  LedgerSpec
  WaitDrainsQueues
