CONSTANTS
    t1 = t1
    t2 = t2
    u1 = u1
    u2 = u2
    p1 = p1
    p2 = p2
    Threads = {t1, t2}
    Usernames = {u1, u2}
    Passwords = {p1, p2}
    Salts <- MCSalts
    MaxRequests = 3
    LookupFaults = TRUE
SPECIFICATION Spec
SYMMETRY MCSymmetry
INVARIANTS
    TypeOK
    RepliesAreTrue
    FoundAfterCreate
CHECK_DEADLOCK FALSE
