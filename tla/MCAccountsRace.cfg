CONSTANTS
    t1 = t1
    t2 = t2
    u1 = u1
    p1 = p1
    p2 = p2
    Threads = {t1, t2}
    Usernames = {u1}
    Passwords = {p1, p2}
    Salts <- MCOneSalt
    MaxRequests = 2
    LookupFaults = FALSE
SPECIFICATION Spec
INVARIANT UniqueUsernames
CHECK_DEADLOCK FALSE
