SPECIFICATION FairSpec
CONSTANTS
    a = a
    b = b
    p = p
    s1 = s1
    s2 = s2
    w1 = w1
    w2 = w2
    None = None
    Ids = {a, b, p}
    Stream <- ThreeEvents
    Shards = {s1, s2}
    ShardOf <- HotShard
    Poison = {p}
    Workers = {w1, w2}
    ShardQueueSize = 1
    WorkQueueSize = 5
    MaxAttempts = 2
INVARIANTS
    TypeOK
    OneEffectPerEvent
    NothingLeftBehind
    Conservation
PROPERTIES
    RunReturns
