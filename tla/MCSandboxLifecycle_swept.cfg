SPECIFICATION Spec
CONSTANTS
    s1 = s1
    s2 = s2
    s3 = s3
    t1 = t1
    t2 = t2
    Sandboxes = {s1, s2}
    Callers = {t1, t2}
    Requests <- PoolRequests
    MaxActive = 1
    MaxBuilds = 3
    None = None
SYMMETRY Symmetric
PROPERTY SweptIsRecreated
