CONSTANTS
 None = None
 Off = Off
 r1 = r1
 r2 = r2
 t1 = t1
 f1 = f1
 f2 = f2
 x1 = x1
 x2 = x2
 Parts = {"proof", "chain", "anchor", "logs", "feed", "bridge", "records", "accounts", "meters", "policy", "webhooks", "portal", "signup", "waiting"}
 Requests = {r1, r2}
 Ids = {f1, f2}
 Scopes = {x1, x2}
 Tenants = {t1}
 Times = {1, 2}
 ListLimit = 1
 MaxRecords = 2
 MaxEvents = 2
 MaxKeys = 4
 KeyCap = 1
 RateLimit = 2
 Quota = 1
 WindowMax = 1
 MaxCalls = 3
 MaxTurns = 2
 Values = {"v0", "v1"}
 Default = "v0"
 MaxWrites = 2
 WebhookCap = 1
 MaxBoots = 2
 MaxRetries = 2
 MaxRevokes = 1
 ChainLimits = {2, 3}
 MaxDay = 2
 MaxRows = 3
 MaxOpen = 2
 RingSize = 3
 TailSize = 2
 PageSize = 2
 MaxLines = 5
 MaxConnects = 2
 Packets = 2
 MaxAttempts = 2
 MaxRequests = 2
 MaxMishaps = 1
SPECIFICATION Spec
SYMMETRY Symmetry
INVARIANTS
 TypesOK
 AcceptedIsLogged
 LogReplays
 ReceiptIsOnChain
 AnchorReplays
 PackReplaysItsHead
 PagesInOrder
 MatchIsOwnFinger
 AccountsAreSaved
 RecordsAreBacked
 AccountsAreSound
 MetersHold
 SettingsHold
 PagesAreTrue
CHECK_DEADLOCK FALSE
