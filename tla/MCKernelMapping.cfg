SPECIFICATION Spec
CONSTANTS
    Foci = {"screen"}
    KNode = {1, 2, 3, 4}
    KsMaxNodes = 3
    RequireMax = 1
    Sector = {0, 1, 2}
    Lba28 = 2
    ByteMod = 2
    Count = {0, 1, 2, 3}
    IdeMax = 2
    RxRing = 3
    TxRing = 2
    RxMax = 4
    TxMax = 3
    KeyName = {"a", "lshift", "rshift", "ctrl", "up", "home"}
    KbdSize = 3
    KeyEvents = 4
    Packet <- MCPacket
    Packets = 2
    Width = 3
    Height = 2
    AmxFile <- MCAmxFile
    AmxHeader = 2
    AmxMaxImage = 8
    SizeMod = 16
    WordMod = 256
    TypeMod = 4
    HeapAlign = 2
    HeapMax = 12
    PastBlock <- MCBeyond
    Address = {100, 200}
    Machines <- MCMachines
    Slots = 2
    Functions_ = 2
    IoFirst = 4
    IoLimit = 8
    MemFirst = 8
    MemMod = 16
    PciFailures = 1
    EdChar = {"a"}
    EdCapacity = 2
    EdRead = 2
    EdRows = 2
    EdCols = 2
    EdFiles <- MCEdFiles
    EdMax = 3
    SvDevices <- MCSvDevices
    BootModes <- MCBootModes
    TargetW = 2
    TargetH = 2
    PagePx = 2
    FbPage = 2
    SpacePage = 8
    FifoPage = 3
    RecursivePage = 5
    Ring = 7
    SvUpdates = 4
    SurfW = 6
    SurfH = 5
    SurfPitch = 8
    IntBits = 10
    FxShift = 4
    AngleFull = 32
    TenthsFull = 9
    SectorStep = 3
    RasterCalls <- MCRasterCalls
INVARIANT
    MappingClear
CHECK_DEADLOCK FALSE
