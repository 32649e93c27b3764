CONSTANTS
    t1 = t1
    t2 = t2
    s1 = s1
    s2 = s2
    Threads = {t1, t2}
    Sessions = {s1, s2}
    MaxRequests = 2
    NoSession = NoSession
SPECIFICATION Spec
SYMMETRY MCSymmetry
INVARIANTS
    TypeOK
    RepliesInOrder
    OneStepAtATime
    OrderlyEnd
    RouterOutlivesHandlers
CHECK_DEADLOCK FALSE
