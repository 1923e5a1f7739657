SPECIFICATION FairSpec
CONSTANTS
    t1 = t1  t2 = t2  w1 = w1  w2 = w2  w3 = w3  w4 = w4  f = f
    None = None
    Tenants = {t1}
    Environments = {"live"}
    Fields = {f}
    Events <- OneChain
    Locks = {"lock"}
    LockKey <- OwnLock
    Writers = {w1, w2, w3}
    LegacyRows <- NoLegacy
    FirstId = 1
    MaxId = 4
    MaxCrashes = 1
    MaxEdits = 0
CHECK_DEADLOCK FALSE
PROPERTIES AppendSettles
