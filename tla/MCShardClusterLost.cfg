SPECIFICATION Spec
CONSTANTS
    A = A
    B = B
    k1 = k1
    k2 = k2
    r1 = r1
    r2 = r2
    Nodes = {A, B}
    Shards = {0, 1}
    Keys = {k1, k2}
    Routers = {r1, r2}
    ShardOf <- ShardOfKey
    InitialOwner <- FirstOwner
    InitialEpoch = 7
    MaxSequence = 3
    MaxMigrations = 2
SYMMETRY AnyRouter
CHECK_DEADLOCK FALSE
INVARIANTS
    EveryAcknowledgedWriteSurvives
