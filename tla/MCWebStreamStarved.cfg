SPECIFICATION FairSpec
CONSTANTS
    Viewers = {v1, v2}
    Limit = 1
    Sizes = {2}
    Wrap = 3
PROPERTY EveryViewerServed
