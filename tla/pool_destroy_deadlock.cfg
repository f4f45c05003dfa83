CONSTANTS
  None = None
  c1 = c1
  c2 = c2
  Clients = {c1}
  Groups = {g1}
  Works = {w1, w2}
  MaxThrds = 2
  GroupArgs <- OneToTwo
  ThrdBound = 2
  QSizeMult = 1
  UIntMod = 16
  ClientOps <- WorkThenDestroyPool
  TaskSubmits = TRUE
SPECIFICATION Spec
INVARIANTS
  NoWaitCycle
