SPECIFICATION Spec
CONSTANTS
    t1 = t1  t2 = t2  w1 = w1  w2 = w2  w3 = w3  w4 = w4  f = f
    None = None
    Tenants = {t1}
    Environments = {"live"}
    Fields = {f}
    Events <- OneChain
    Locks = {"lock"}
    LockKey <- OwnLock
    Writers = {w1, w2}
    LegacyRows <- NoLegacy
    FirstId = 9
    MaxId = 11
    MaxCrashes = 0
    MaxEdits = 0
CHECK_DEADLOCK FALSE
INVARIANTS IntactMeansPass
