CONSTANTS
    c1 = c1
    c2 = c2
    c3 = c3
    Callers <- MCCallers
    FailureThreshold = 2
    HalfOpenMaxCalls = 2
    RecoveryTimeout = 2
    MaxFailures = 5
SPECIFICATION FairSpec
INVARIANTS
    TypeOK
    ClosedBelowThreshold
    SlotsAreRunningProbes
    HalfOpenHasProbe
PROPERTIES
    ClosesAfterRecovery
    HalfOpenEnds
