SPECIFICATION Spec
CONSTANTS
    x = x
    y = y
    Names = {1, 2}
    StoredName <- LongName
    MaxFiles = 2
    TotalBlocks = 3
    MaxLen = 1
    Capacity = 2
    Blk <- TwoBlk
    DeviceFails = FALSE
PROPERTIES
    SyncStoresFiles
