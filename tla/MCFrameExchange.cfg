SPECIFICATION FairSpec
CONSTANTS
    Chunks = 2
    Geometries <- MCGeometries
    MaxFrames = 2
    MaxStarts = 2
INVARIANTS NoTornFrame IgnoredIsTaken
PROPERTIES ImplementsRegister LatestFrameTaken WritingEnds
CHECK_DEADLOCK FALSE
