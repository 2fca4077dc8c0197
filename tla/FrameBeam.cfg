\* Three visible lines of two units and one more; transfers of one chunk, and
\* of more chunks than a frame has lines.
CONSTANTS
    Line = 2
    Hblank = 1
    Visible = 3
    Total = 4
    Overshoot = 1
    Lengths = {0, 3}
    Chunks = 4
    LogSize = 2
    Values = {0, 1}
SPECIFICATION Spec
INVARIANT HdmaCatchesUp LinesShowTheirValue
PROPERTY TransferEnds
