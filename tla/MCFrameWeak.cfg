SPECIFICATION Spec
CONSTANTS
    Chunks = 2
    Geometries <- MCGeometries
    MaxFrames = 2
    MaxStarts = 1
INVARIANT NeverTorn
CHECK_DEADLOCK FALSE
