SPECIFICATION MqttFairSpec
CONSTANTS
    Fallible <- EveryCall
    MaxStarts = 3
PROPERTY ConnectionIsUsed
CHECK_DEADLOCK FALSE
