SPECIFICATION Spec
CONSTANTS
    t1 = t1
    t2 = t2
    NoTask = NoTask
    Task = {t1, t2}
    MaxInode = 6
INVARIANT LockInv
PROPERTIES
    KeepsPromise
