SPECIFICATION PathSpec
CONSTANTS
    Debounce = 3
    Jumps <- MCJumps
    MaxJumps = 0
    MaxCrashes = 0
PROPERTY AtMostOne
