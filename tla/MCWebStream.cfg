SPECIFICATION FairSpec
CONSTANTS
    Viewers = {v1, v2, v3}
    Limit = 2
    Sizes <- MCSizes
    Wrap = 3
INVARIANTS TypeOK BacklogBounded
PROPERTIES FrameSentOnce SlowViewersSkipped
