SPECIFICATION FairSpec
CONSTANTS
    BufferCount = 3
    FixedRate = FALSE
PROPERTY StallEnds
