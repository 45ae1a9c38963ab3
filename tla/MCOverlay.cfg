SPECIFICATION Spec
CONSTANTS
    Sizes <- MCSizes
    Corners <- MCCorners
    MaxBoxes = 2
    Rows = 1
    Cols = 1
    Glyph <- MCGlyph
    Status <- MCStatus
    LabelLength = 2
    ConfidenceLength = 1
    LabelUp = 3
    LabelIn = 1
    LabelStep = 2
INVARIANTS TypeOK PersonsFramed NothingElseDrawn
