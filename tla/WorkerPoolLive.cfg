CONSTANTS
    r1 = r1  r2 = r2  r3 = r3  k1 = k1  k2 = k2  a = a  b = b
    NoRequest = NoRequest
    Requests = {r1, r2, r3}
    Workers = {k1, k2}
    Instances = {a}
    Home <- OneHome
    Host <- OneHost
    Timeouts = FALSE
    RedisFaults = FALSE
    Resent = {r1}
    Outages = FALSE
    FailureThreshold = 1
    HalfOpenMaxCalls = 1
    RecoveryTimeout = 1
    Multiplier = 10
    MaxStamp = 0
    Tiers = {2}
SPECIFICATION FairSpec
INVARIANTS
    TypeOK
    NotForgotten
    HalfOpenHasWorker
PROPERTIES
    Answered
