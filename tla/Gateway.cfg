CONSTANTS
    h1 = h1  h2 = h2
    Handlers = {h1, h2}
    MaxDepth = 1
    MaxTime = 3
    MaxSaved = 1
    BucketSize = 1
    Unit = 3
    Rate = 2
    Outages = TRUE
    LostReplies = TRUE
SPECIFICATION Spec
SYMMETRY Symmetric
VIEW WithoutAnswer
INVARIANTS
    DepthBounded
    GrantsWithinBudget
    RetryAfterSuffices
PROPERTIES
    ExpiryGivesNothing
