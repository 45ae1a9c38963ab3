SPECIFICATION FairSpec
CONSTANTS
    Slots = 2
    Counts <- MCCounts
    MaxSeq = 3
    LowBytes <- MCLowBytes
    MaxAttempts = 2
    MaxResults = 2
    MaxStarts = 2
INVARIANT WholeSnapshot
PROPERTIES ImplementsRegister LastResultSeen CountsSettle
CHECK_DEADLOCK FALSE
