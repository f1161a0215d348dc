SPECIFICATION OutboxFairSpec
CONSTANTS
    i1 = i1
    i2 = i2
    w1 = w1
    w2 = w2
    Items = {i1, i2}
    Workers = {w1, w2}
    MaxAttempts = 2
    Lease = 2
    BackoffCap = 2
    Limit = 2
    MaxFaults = 2
    None = None
INVARIANT HandledOnceUnlessFaulty
PROPERTY OutcomesAreFenced
PROPERTY LeaseIsRespected
PROPERTY ImplementsFencedWork
PROPERTY EveryItemSettles
CHECK_DEADLOCK FALSE
