SPECIFICATION FairSpec
CONSTANTS
    o1 = o1
    o2 = o2
    r1 = r1
    r2 = r2
    c1 = c1
    c2 = c2
    None = None
    Orders = {o1, o2}
    Relays = {r1, r2}
    Consumers = {c1, c2}
    MaxDuplicate = 1
    MaxCrashes = 1
INVARIANTS
    TypeOK
    EventNeverLost
    ConsumedMeansFulfilled
PROPERTIES
    ExactlyOneEffect
    EveryOrderFulfilled
