CONSTANTS
    p1 = p1
    p2 = p2
    NoPid = NoPid
    Procs = {p1, p2}
    Keys = {k1, k2}
    MaxPg = 10
    MaxReaders = 2
    MaxTxn = 5
    SpillNeed = 2
    SpillCount = 1
    MaxFree1pg = 2
    Scenarios <- AllScenarios
SYMMETRY KeySymmetry
SPECIFICATION Spec
INVARIANTS
    SnapshotStable
    NestedViews
    PagesOnce
    NewestMetaIsWhole
    BackupIsSnapshot
PROPERTY CrashUndoesLittle
CHECK_DEADLOCK FALSE
