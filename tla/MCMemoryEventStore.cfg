SPECIFICATION Spec
CONSTANTS
    s1 = s1
    s2 = s2
    s3 = s3
    a = a
    b = b
    c = c
    Sessions = {s1, s2, s3}
    Names = {a, b, c}
    None = None
    MaxEvents = 3
SYMMETRY Symmetric
INVARIANT EventsAreNumbered
INVARIANT ForgottenIsUnreadable
INVARIANT SearchShowsHead
PROPERTY ForgottenStaysHidden
CHECK_DEADLOCK FALSE
