SPECIFICATION Spec
CONSTANTS
    x = x
    y = y
    Names = {1, 2, 3}
    StoredName <- ShortNames
    MaxFiles = 2
    TotalBlocks = 4
    MaxLen = 2
    Capacity = 3
    Blk <- TwoBlk
    DeviceFails = TRUE
INVARIANTS
    NoSharedBlocks
    DiskHoldsRam
PROPERTIES
    OthersUntouched
SYMMETRY Sym
