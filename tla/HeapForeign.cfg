SPECIFICATION Spec
CONSTANTS
    d1 = d1 d2 = d2 d3 = d3
    HDR = 4
    ALIGN = 2
    MinRest = 2
    Static = 16
    Chunk = 12
    Top = 48
    Sizes = {1, 4, 7}
    Tags = {d1, d2, d3}
    Gaps = {0, 2}
    NULL = NULL
SYMMETRY TagSymmetry
CHECK_DEADLOCK FALSE
INVARIANT ForeignIntact
