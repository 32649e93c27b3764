CONSTANTS
    t1 = t1
    t2 = t2
    v1 = v1
    v2 = v2
    Threads = {t1, t2}
    Values = {v1, v2}
    Ids = {1}
    MaxCalls = 3
    MaxRows = 1
SPECIFICATION FairSpec
INVARIANTS
    TypeOK
    DeletionIsFinal
    ReadsAreCurrent
PROPERTIES
    ImplementsEntityStore
    CallReturns
CHECK_DEADLOCK FALSE
