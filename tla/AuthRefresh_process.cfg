SPECIFICATION Spec
CONSTANTS
    t1 = t1
    t2 = t2
    p1 = p1
    p2 = p2
    NoTask = NoTask
    Task = {t1, t2}
    Proc = {p1}
    Homes <- Together
    Jobs <- Callers
    MaxCred = 2
    MaxBlips = 1
    MaxFaults = 2
    Listening = {p1}
INVARIANTS
    NoStraddle
PROPERTY CallsReturn
