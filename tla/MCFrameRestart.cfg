SPECIFICATION Spec
CONSTANTS
    Chunks = 2
    Geometries <- MCGeometries
    MaxFrames = 2
    MaxStarts = 2
INVARIANT NeverTorn
CONSTRAINT InProgramOrder
CHECK_DEADLOCK FALSE
