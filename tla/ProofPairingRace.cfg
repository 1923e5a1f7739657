\* Two users and a replayed proof race for two sessions.
SPECIFICATION Spec
CONSTANTS
    s1 = s1  s2 = s2  t1 = t1  t2 = t2  u1 = u1  u2 = u2
    None = None  Stray = Stray
    Sessions = {s1, s2}
    Tenants = {t1}
    Users = {u1, u2}
    Residents <- BothUsers
    Requests = {r1, r2}
    Streams = {}
    Submissions <- RaceSubmissions
    Policies <- NoPolicies
    TTL = 1
    StreamLifetime = 2
    MaxFailures = 2
    MaxPending = 2
    SweepScheduled = TRUE
    MaxTime = 2
    MaxUpsets = 1
SYMMETRY RequestSymmetry
INVARIANT SingleUse TokensAudited ConsumedByGenuineProof
PROPERTY TicketSpec
CHECK_DEADLOCK FALSE
