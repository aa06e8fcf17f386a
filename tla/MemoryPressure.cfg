CONSTANTS
    tiny = tiny  small = small  little = little  medium = medium
    t1 = t1  t2 = t2
    NoPrefix = NoPrefix
    PrefixHashes = {tiny, small, little, medium}
    Sizes <- SizesOf
    MaxMemoryBytes = 16
    MaxEntries = 3
    Threads = {t1, t2}
    OtherBytes = {20, 37}
    HighBytes = 34
    CriticalBytes = 38
SPECIFICATION FairSpec
INVARIANTS
    Accounting
    RejectingSinceCritical
PROPERTIES
    EvictsOldest
    RejectionEnds
