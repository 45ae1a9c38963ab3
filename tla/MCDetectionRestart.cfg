SPECIFICATION Spec
CONSTANTS
    Slots = 2
    Counts <- MCCounts
    MaxSeq = 3
    LowBytes <- MCLowBytes
    MaxAttempts = 2
    MaxResults = 1
    MaxStarts = 2
INVARIANT EvenMeansStable
CONSTRAINT InProgramOrder
CHECK_DEADLOCK FALSE
