\* Two clients of different versions and the leaders they start, none of which is
\* killed or shut down.
SPECIFICATION Spec
CONSTANTS
    c1 = c1
    c2 = c2
    l1 = l1
    l2 = l2
    NoOne = NoOne
    Client = {c1, c2}
    Leader = {l1, l2}
    Build = {2, 3}
    Version <- Versions
    RelaunchFrom = 2
    MaxInode = 5
    MaxFaults = 0
INVARIANTS
    OneLeader
SYMMETRY Leaders
