SPECIFICATION Spec
CONSTANTS
    c1 = c1
    c2 = c2
    Callers = {c1, c2}
    None = None
    Ends = {1, 3}
    Budget = 2
    MaxAttempts = 2
    MaxTrouble = 1
SYMMETRY Symmetric
INVARIANT NeverAutoReplayed
CHECK_DEADLOCK FALSE
