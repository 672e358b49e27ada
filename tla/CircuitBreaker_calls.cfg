SPECIFICATION Spec
CONSTANTS
    c1 = c1
    c2 = c2
    Callers <- TwoCallers
    OpenFor = 1
    WindowFor = 0
    MinSamples = 1
    RateNum = 1
    RateDen = 2
    MaxProbes = 1
    MaxEntries = 2
    Word = 4
    MaxPause = 1
INVARIANTS
    FailuresCounted
    MirrorAgrees
    SerialProbesWithinSlots
PROPERTY
    SheddingEnds
