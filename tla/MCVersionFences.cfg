SPECIFICATION Spec
CONSTANTS
    Workers = {w1, w2}
    LeaseDuration = 2
    MaxTime = 5
    MaxLeases = 3
    Readers = {r1, r2}
    MaxVersion = 4
    None = None
INVARIANTS
    TypeOK
    QuietCacheIsFresh
PROPERTIES
    OwnersInOrder
    NoResurrection
CHECK_DEADLOCK FALSE
