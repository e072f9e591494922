SPECIFICATION Spec
CONSTANTS
    Pies <- MCAllPies
    Blocks <- MCAllBlocks
    Related <- MCRelated
    WordBits = 2
    BlobBits = 4
    Modulus = 97
    Generator = 8
INVARIANTS NodesTile EachOnce RightVerdict BlobRebuildsState CalldataDecodes
CHECK_DEADLOCK FALSE
