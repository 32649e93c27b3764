CONSTANTS
    t1 = t1
    t2 = t2
    u1 = u1
    Threads = {t1, t2}
    Usernames = {u1}
    Tick = 2
    Lifetime = 2
    MaxClock = 6
    MaxTokens = 2
    MaxRequests = 2
SPECIFICATION Spec
SYMMETRY MCSymmetry
INVARIANTS
    TypeOK
    PassesWhileLive
    RefusalIsFinal
CHECK_DEADLOCK FALSE
