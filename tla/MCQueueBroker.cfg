SPECIFICATION FairSpec
CONSTANTS
    d1 = d1
    d2 = d2
    w1 = w1
    w2 = w2
    None = None
    Ids = {d1, d2}
    GroupOf <- OneAccount
    Workers = {w1, w2}
    MaxReceiveCount = 2
    MaxSequence = 3
INVARIANTS
    TypeOK
    OneBusinessEffect
    NoMessageLost
    EffectsInGroupOrder
PROPERTIES
    EveryMessageSettles
