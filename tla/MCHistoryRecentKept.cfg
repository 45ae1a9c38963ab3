SPECIFICATION Spec
CONSTANTS
    Max = 3
    MaxAdds = 6
    MaxStarts = 3
INVARIANT RecentKept
CHECK_DEADLOCK FALSE
