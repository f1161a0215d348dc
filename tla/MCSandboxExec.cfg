SPECIFICATION ExecFairSpec
CONSTANTS
    c1 = c1
    c2 = c2
    Commands = {k1}
    Callers = {c1, c2}
    Daemon = daemon
    MaxLaunches = 1
    MaxTrouble = 1
    OtherSlots = 1
    None = None
INVARIANT ExecTypeOK
INVARIANT LaunchedOnce
INVARIANT SlotsMatch
PROPERTY ResultIsFinal
PROPERTY EveryCommandEnds
CHECK_DEADLOCK FALSE
