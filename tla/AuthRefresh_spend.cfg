SPECIFICATION Spec
CONSTANTS
    t1 = t1
    t2 = t2
    p1 = p1
    p2 = p2
    NoTask = NoTask
    Task = {t1, t2}
    Proc = {p1, p2}
    Homes <- Apart
    Jobs <- Mixed
    MaxCred = 3
    MaxBlips = 1
    MaxFaults = 1
    Listening = {}
INVARIANTS
    SpentOnce
    LockoutHasCause
