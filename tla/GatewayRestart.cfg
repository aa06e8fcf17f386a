CONSTANTS
    h1 = h1  h2 = h2
    Handlers = {h1}
    MaxDepth = 1
    MaxTime = 0
    MaxSaved = 2
    BucketSize = 1
    Unit = 1
    Rate = 1
    Outages = TRUE
    LostReplies = FALSE
SPECIFICATION Spec
PROPERTIES
    FailsOpenOnlyWithoutRedis
