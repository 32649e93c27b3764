CONSTANTS
    t1 = t1
    s1 = s1
    s2 = s2
    Threads = {t1}
    Sessions = {s1, s2}
    MaxRequests = 1
    NoSession = NoSession
    Free = Free
SPECIFICATION FairSpec
INVARIANTS
    OneOwner
    ExitIsClean
PROPERTIES
    RequestIsAnswered
    SignalEnds
    OperationEnds
CHECK_DEADLOCK FALSE
