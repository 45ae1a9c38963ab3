SPECIFICATION Spec
CONSTANTS
    Slots = 2
    Counts <- MCCounts
    MaxSeq = 3
    LowBytes <- MCLowBytes
    MaxAttempts = 2
    MaxResults = 2
    MaxStarts = 1
INVARIANT NeverTorn
CONSTRAINT InProgramOrder
CHECK_DEADLOCK FALSE
