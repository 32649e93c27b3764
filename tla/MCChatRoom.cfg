CONSTANTS
    s1 = s1
    s2 = s2
    c1 = c1
    c2 = c2
    Sessions = {s1, s2}
    Senders = {c1, c2}
    MaxSends <- MCMaxSends
    MaxCalls = 2
    Readers = {s1}
    NoSession = NoSession
    Free = Free
SPECIFICATION FairSpec
INVARIANTS
    TypeOK
    NoDanglingSession
    WriteOwnsFront
    InOrder
PROPERTIES
    NoWriteAfterFailure
    ClosedIsFreed
    PostedIsWritten
CHECK_DEADLOCK FALSE
