SPECIFICATION FairSpec
CONSTANTS
    c1 = c1
    c2 = c2
    Callers = {c1, c2}
    None = None
    Ends = {1, 3}
    Budget = 2
    MaxAttempts = 2
    MaxTrouble = 2
CONSTRAINT RowIsFresh
INVARIANT ExtractionTypeOK
INVARIANT EachPartOnce
INVARIANT PaidOnceUnlessOvertaken
PROPERTY AnswersAreUsed
PROPERTY PassesSettle
CHECK_DEADLOCK FALSE
