\* The sizes are scaled down from 512, 50 and 256.  A text is parsed and chunked once.
CONSTANTS
    MaxBlocks = 4
    Texts <- MCTexts
    Size = 6
    Overlap = 3
    SemanticSize = 6
SPECIFICATION Spec
CHECK_DEADLOCK FALSE
INVARIANTS TypeOK PathsAreAncestors TextIsCovered ChunksFit RangesEncloseText
