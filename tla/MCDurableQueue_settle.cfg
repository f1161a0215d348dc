SPECIFICATION FairSpec
CONSTANTS
    w1 = w1
    w2 = w2
    Jobs = {j1}
    Workers = {w1, w2}
    Producers = {p1}
    Tokens = {1, 2, 3, 4, 5, 6}
    Works <- AllWorks
    Requests <- ReqBoth
    MaxAttempts <- Budgets
    Renewing = {"build"}
    Continuous = {"build", "extract"}
    Restartable = {"build"}
    Debounced = {"extract"}
    Lease = 3
    BackoffCap = 2
    Delay = 1
    MaxLag = 1
    MaxSpent = 1
    Timely = TRUE
    NoKey = NoKey
    None = None
PROPERTY EveryJobSettles
