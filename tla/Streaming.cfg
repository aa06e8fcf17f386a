CONSTANTS
    s1 = s1  s2 = s2
    Streams = {s1, s2}
    Chunks <- Generated
    MaxWorkers = 1
SPECIFICATION FairSpec
INVARIANTS
    GenerationsBounded
PROPERTIES
    KeepsStreamPromise
    StreamEnds
    SlotFreed
\* The streams are over.
CHECK_DEADLOCK FALSE
