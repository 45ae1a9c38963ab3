SPECIFICATION Spec
CONSTANTS
    Chunks = 2
    Geometries <- MCGeometries
    MaxFrames = 2
    MaxStarts = 2
PROPERTY IgnoresOnlyTheSame
CONSTRAINT InProgramOrder
CHECK_DEADLOCK FALSE
