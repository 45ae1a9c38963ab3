SPECIFICATION Spec
CONSTANTS
    Max = 3
    MaxAdds = 6
    MaxStarts = 3
INVARIANT NeverEmptied
CHECK_DEADLOCK FALSE
