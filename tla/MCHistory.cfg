SPECIFICATION Spec
CONSTANTS
    Max = 3
    MaxAdds = 6
    MaxStarts = 3
INVARIANTS RecordsInOrder RunIsRecent
PROPERTY NeverGoesBack
CHECK_DEADLOCK FALSE
