SPECIFICATION Spec
CONSTANTS
    w1 = w1
    r1 = r1
    r2 = r2
    Items = {1, 2}
    Workers = {w1}
    Requests = {r1, r2}
    Ops = {"update", "delete"}
    MaxAttempts = 2
    Lease = 2
    BackoffCap = 1
    Limit = 2
    MaxFaults = 1
    None = None
SYMMETRY Symmetric
INVARIANT ProjectionTypeOK
INVARIANT MirrorIsCurrent
INVARIANT MirrorIsErased
PROPERTY OutboxSpec
CHECK_DEADLOCK FALSE
