SPECIFICATION LearningFairSpec
CONSTANTS
    w1 = w1
    w2 = w2
    Items = {1}
    Workers = {w1, w2}
    None = None
    Last = 2
    Needs <- Stages
    OneByOne = {0}
    Trainable <- Learnable
    ReplayLimit = 1
    MaxTrouble = 2
INVARIANT LearningTypeOK
INVARIANT ReplaysAreBounded
PROPERTY BuildMovesOn
PROPERTY ResultsAreKept
PROPERTY BuildSettles
CHECK_DEADLOCK FALSE
