\* Two ceremonies of one phone race each other, an operator and a device claim.
SPECIFICATION Spec
CONSTANTS
    s1 = s1  s2 = s2  d1 = d1  d2 = d2  d3 = d3  f1 = f1  p1 = p1  p2 = p2  t1 = t1
    None = None
    Devices = {d1, d2}
    Slots = {d1}
    Scope <- OneScope
    Fingerprints = {f1}
    Claims = {c1}
    MaxCodes = 2
    Sessions = {s1, s2}
    SessionScope <- OneSessionScope
    DemoScopes = {t1}
    Persons = {p1, p2}
    Calls = {k1, k2}
    Messages <- SmallMessages
    MaxMishaps = 1
SYMMETRY CallSymmetry
INVARIANT TypeOK UsersProveCommitment OneRowPerFingerprint CodeEnrolsOnce
PROPERTY RevokedReturnsByPairing CeremonySpec
CHECK_DEADLOCK FALSE
