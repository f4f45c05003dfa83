CONSTANTS
  None = None
  c1 = c1
  c2 = c2
  Clients = {c1, c2}
  Groups = {g1, g2}
  Works = {w1}
  MaxThrds = 3
  GroupArgs <- TwoAtOnce
  ThrdBound = 2
  QSizeMult = 1
  UIntMod = 16
  ClientOps <- AddGroupsOnly
  TaskSubmits = FALSE
SPECIFICATION Spec
INVARIANTS
  PoolWithinMax
