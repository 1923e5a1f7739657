SPECIFICATION Spec
CONSTANTS
    t1 = t1  t2 = t2  w1 = w1  w2 = w2  w3 = w3  w4 = w4  f = f
    None = None
    Tenants = {t1, t2}
    Environments = {"live", "test"}
    Fields = {f}
    Events <- MixedEvents
    Locks = {"lock1", "lock2"}
    LockKey <- OwnLocks
    Writers = {w1, w2, w3}
    LegacyRows <- OneLegacy
    FirstId = 2
    MaxId = 6
    MaxCrashes = 1
    MaxEdits = 0
SYMMETRY WriterSymmetry
CHECK_DEADLOCK FALSE
INVARIANTS TypeOK ChainLinked AnnouncedIsCommitted
