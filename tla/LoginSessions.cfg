CONSTANTS
 Pods = {p1, p2}
 Primary = p1
 SessionIds = {s1}
 Tenants = {t1}
 OidcStates = {x1}
 None = None
 MaxRestarts = 2
SPECIFICATION Spec
INVARIANTS
 TypeOK
 LogoutSurvivesRestart
PROPERTY ExpiredForgotten
CHECK_DEADLOCK FALSE
