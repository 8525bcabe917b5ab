SPECIFICATION AllSpec
CONSTANTS
    Key = {1, 2, 3, 4, 5, 6}
    Val = {1}
    LeafMax = 2
    IndexMax = 4
    NodeBlock = {1, 2, 3, 4, 5, 6, 7, 8}
    Rec = {1, 2, 3}
    DiskBlock = {1, 2, 3, 4, 5, 6}
    Path <- MCPath
    FileBlocks = 3
    BlockSize = 2
    AttrMax = 5
    CollectMax = 1
    GenMax = 2
    LinkMax = 3
    Length = {1, 4}
    Fd = {0}
    Inode = {1, 2, 3}
    AData = {1, 2, 3, 4}
    APath <- MCAPath
    Direct = 1
    Indirect = 2
    PerSector = 2
    DirMax = 4
    CallMax = 5
    N = 5
    R = 3
    W = 8
    MaxCount = 2
    MaxFaults = 1
INVARIANTS Exclusive RegionHonest CountsExact TreeSound BlocksOwnedOnce  FileContents AmfsSound
PROPERTY DirectorySpec
CHECK_DEADLOCK FALSE
