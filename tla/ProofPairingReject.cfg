\* Every kind of rejected submit races an honest one; a foreign tenant joins in, and the policy is edited.
SPECIFICATION Spec
CONSTANTS
    s1 = s1  s2 = s2  t1 = t1  t2 = t2  u1 = u1  u2 = u2
    None = None  Stray = Stray
    Sessions = {s1}
    Tenants = {t1, t2}
    Users = {u1, u2}
    Residents <- OneUser
    Requests = {r1, r2, r3}
    Streams = {}
    Submissions <- RejectSubmissions
    Policies <- StrictPolicies
    TTL = 1
    StreamLifetime = 2
    MaxFailures = 2
    MaxPending = 2
    SweepScheduled = FALSE
    MaxTime = 1
    MaxUpsets = 1
SYMMETRY RequestSymmetry
INVARIANT TypeOK FailuresAccounted LockedAtThreshold
PROPERTY TerminalStatesFinal
CHECK_DEADLOCK FALSE
