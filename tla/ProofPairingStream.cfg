\* A stream follows a session that is bound, locked, or left to expire.
SPECIFICATION FairSpec
CONSTANTS
    s1 = s1  s2 = s2  t1 = t1  t2 = t2  u1 = u1  u2 = u2
    None = None  Stray = Stray
    Sessions = {s1}
    Tenants = {t1}
    Users = {u1, u2}
    Residents <- OneUser
    Requests = {r1, r2}
    Streams = {v1}
    Submissions <- StreamSubmissions
    Policies <- NoPolicies
    TTL = 2
    StreamLifetime = 3
    MaxFailures = 1
    MaxPending = 2
    SweepScheduled = FALSE
    MaxTime = 3
    MaxUpsets = 0
INVARIANT StreamTruthful
PROPERTY SubmitAnswered StreamSettles
CHECK_DEADLOCK FALSE
