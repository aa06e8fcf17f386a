CONSTANTS
    r1 = r1  r2 = r2  r3 = r3  k1 = k1  k2 = k2  a = a  b = b
    NoRequest = NoRequest
    Requests = {r1, r2}
    Workers = {k1, k2}
    Instances = {a, b}
    Home <- TwoHomes
    Host <- TwoHosts
    Timeouts = TRUE
    RedisFaults = TRUE
    Resent = {}
    Outages = TRUE
    FailureThreshold = 1
    HalfOpenMaxCalls = 1
    RecoveryTimeout = 1
    Multiplier = 10
    MaxStamp = 1
    Tiers = {1, 2}
SPECIFICATION Spec
INVARIANTS
    OneCopy
    LeakOnlyFromEnqueue
PROPERTIES
    SettledOnce
    NoWorkForTheGone
    KeepsPromise
    PopsByPriority
