\* The system stops when every request is answered or stop() was called.
CHECK_DEADLOCK FALSE
CONSTANTS
    r1 = r1  r2 = r2  r3 = r3  r4 = r4
    Requests = {r1, r2, r3, r4}
    Prompt <- Prompts
    MaxTokens <- Limits
    Temperature <- Warmth
    Continuations <- Said
    Pad = 0
    MaxBatchSize = 2
    Stops = TRUE
    Cancels = TRUE
SPECIFICATION FairSpec
INVARIANTS
    TypeOK
    BatchBounded
    NothingLost
    LeftMeansSettled
    OwnResult
    PaddingLeavesNoTrace
PROPERTIES SettledOnce EverySubmitEnds
