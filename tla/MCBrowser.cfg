\* A thread's page over renewals of the token; the datasources page through a retry, a
\* reload and a lost connection; two tabs of one session or of none, raced or not.
SPECIFICATION Spec
CONSTANTS
    MaxRenewals = 3
    MaxRequests = 3
    MaxLoads = 3
    MaxAttempts = 2
    MaxPageLoads = 2
    MaxLosses = 1
    Tabs = {t1, t2}
    NoTab = NoTab
    MaxEvents = 2
    MaxAcquires = 2
CHECK_DEADLOCK FALSE
INVARIANTS
    BrowserTypeOK
    PendingIsStreamed
    TranscriptIsWhole
    ToldOnce
    SessionKept
    LogoutReachesEveryTab
PROPERTIES
    SpinnerStops
    TabsSettle
