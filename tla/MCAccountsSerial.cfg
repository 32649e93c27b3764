CONSTANTS
    t1 = t1
    u1 = u1
    u2 = u2
    p1 = p1
    p2 = p2
    Threads = {t1}
    Usernames = {u1, u2}
    Passwords = {p1, p2}
    Salts <- MCSalts
    MaxRequests = 3
    LookupFaults = FALSE
SPECIFICATION Spec
INVARIANT RegisteredCanLogin
PROPERTY ImplementsRegistry
CHECK_DEADLOCK FALSE
