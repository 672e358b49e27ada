\* A client that calls again and again, leaders of every version, one of them
\* perhaps started by hand, killed or shut down.
SPECIFICATION FairSpec
CONSTANTS
    c1 = c1
    c2 = c2
    l1 = l1
    l2 = l2
    NoOne = NoOne
    Client = {c1}
    Leader = {l1, l2}
    Build = {1, 2, 3}
    Version <- Versions
    RelaunchFrom = 2
    MaxInode = 4
    MaxFaults = 1
INVARIANTS
    TypeOK
    SplitHasCause
    HolderSeesNoLeader
PROPERTIES
    CallReturns
