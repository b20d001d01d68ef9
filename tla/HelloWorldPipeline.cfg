\* Two blocks of 2 * 2 tiles; element counts wrap around at 32.
SPECIFICATION Spec
CONSTANTS
    Shapes <- MCShapes
    blockDim = 2
    tileNum = 2
    BUFFER_NUM = 2
    UintLimit = 32
INVARIANTS PipelineTypeOK SumsOfOneTile TilesSplitTheTensor
PROPERTIES PipelineEnds
\* A kernel that is through stops; that it is through is PipelineEnds.
CHECK_DEADLOCK FALSE
