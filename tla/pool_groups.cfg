CONSTANTS
  None = None
  c1 = c1
  c2 = c2
  Clients = {c1}
  Groups = {g1, g2}
  Works = {w1, w2}
  MaxThrds = 3
  GroupArgs <- OneToTwo
  ThrdBound = 2
  QSizeMult = 3
  UIntMod = 16
  ClientOps <- GroupsComeAndGo
  TaskSubmits = TRUE
SPECIFICATION Spec
SYMMETRY WorksSymmetry
INVARIANTS
  FreedIsQuiet
  NoWaitCycle
  WaitAccounting
PROPERTIES
  LedgerSpec
  WaitDrainsQueues
