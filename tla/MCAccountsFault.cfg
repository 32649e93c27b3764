CONSTANTS
    t1 = t1
    u1 = u1
    p1 = p1
    p2 = p2
    Threads = {t1}
    Usernames = {u1}
    Passwords = {p1, p2}
    Salts <- MCOneSalt
    MaxRequests = 2
    LookupFaults = TRUE
SPECIFICATION Spec
INVARIANT UniqueUsernames
CHECK_DEADLOCK FALSE
