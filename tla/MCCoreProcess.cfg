SPECIFICATION FairSpec
CONSTANTS
    BufferCount = 3
    FixedRate = FALSE
INVARIANTS BuffersConserved OrderlyEndIsClean
PROPERTIES FramesGoOn StopsWhenAsked
