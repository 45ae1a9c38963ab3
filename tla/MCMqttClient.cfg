SPECIFICATION MqttFairSpec
CONSTANTS
    Fallible <- EveryCall
    MaxStarts = 3
INVARIANTS OnlineShown FlagNotAhead
PROPERTY GoneMeansOffline
CHECK_DEADLOCK FALSE
