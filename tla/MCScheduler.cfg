SPECIFICATION AllSpec
CONSTANTS
    Slots = 4
    Normal = 1
    AboveNorm = 2
    RealTime = 4
    Critical = 4
    UserPrio = {2, 3}
    WheelSize = 2
    Sleeps = {1}
    ReapTicks = 1
    MaxUnits = 1
    Locking = TRUE
    MaxTick = 2
    H = 2
    Page = 4
    Arena = 16
    Initial = 4
    MaxReq = 5
    Client = {c1}
    Slot = {0, 1}
    GenMod = 4
    Creations = 3
    ScreenWidth = 3
    WinX <- MCWinX
    WinW = {2, 6}
INVARIANTS
    RunningIsCurrent
    WaitersBlocked
    MutexExclusive
    SemConserved
    Tiled
    Coalesced
    HeldIntact
    CopyFits
    WindowsSound
CHECK_DEADLOCK FALSE
CONSTRAINT UntilAstray
