SPECIFICATION FairSpec
CONSTANTS
    Slots = 3
    Normal = 1
    AboveNorm = 2
    RealTime = 4
    Critical = 4
    UserPrio = {2}
    WheelSize = 2
    Sleeps = {1, 2}
    ReapTicks = 2
    MaxUnits = 1
    Locking = FALSE
    MaxTick = 4
PROPERTY SleepersWake
CHECK_DEADLOCK FALSE
