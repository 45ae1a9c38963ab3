SPECIFICATION CpuSpec
CONSTANTS
    t1 = t1
    t2 = t2
    Threads <- MCThreads
    Word = 8
    MaxTotal = 3
SYMMETRY Symmetry
INVARIANT CpuTypeOK
PROPERTY LoneCallsExact
