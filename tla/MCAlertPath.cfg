SPECIFICATION PathFairSpec
CONSTANTS
    Debounce = 2
    Jumps <- MCJumps
    MaxJumps = 1
    MaxCrashes = 1
INVARIANT NoFalseAlarm
PROPERTIES AlertsApart PersonReported QuietAgain FramesGoOn
