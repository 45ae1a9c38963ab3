SPECIFICATION FairSpec
CONSTANTS
    BufferCount = 3
    FixedRate = TRUE
PROPERTY RateIsNotFatal
