SPECIFICATION Spec
CONSTANTS
    t1 = t1  t2 = t2  w1 = w1  w2 = w2  w3 = w3  w4 = w4  f = f
    None = None
    Tenants = {t1}
    Environments = {"live"}
    Fields = {f}
    Events <- ThreeContents
    Locks = {"lock"}
    LockKey <- OwnLock
    Writers = {w1, w2, w3}
    LegacyRows <- OneLegacy
    FirstId = 2
    MaxId = 6
    MaxCrashes = 0
    MaxEdits = 1
SYMMETRY WriterSymmetry
CHECK_DEADLOCK FALSE
INVARIANTS PassMeansUnedited UneditedPasses
