SPECIFICATION SceneSpec
CONSTANTS
    w1 = w1
    w2 = w2
    j1 = j1
    p1 = p1
    Jobs = {j1, j2}
    Workers = {w1, w2}
    Producers = {p1, p2}
    Tokens = {1, 2, 3, 4, 5, 6, 7}
    Works <- AllWorks
    Requests <- ReqEnqueue
    MaxAttempts <- Budgets
    Renewing = {"build"}
    Continuous = {"build", "extract"}
    Restartable = {"build"}
    Debounced = {"extract"}
    Lease = 2
    BackoffCap = 2
    Delay = 1
    MaxLag = 2
    MaxSpent = 2
    Timely = FALSE
    NoKey = NoKey
    None = None
SYMMETRY Symmetric
INVARIANT RetryBudget
INVARIANT EnqueueGivesOwnWork
PROPERTY HolderKeepsLease
PROPERTY ReportsAreFenced
PROPERTY SettledIsFinal
PROPERTY ImplementsFencedWork
