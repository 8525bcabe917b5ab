SPECIFICATION Spec
CONSTANTS
    FrameSize = 2
    Total = 7
    Available <- McAvailable
    Reserved <- McReserved
    Fan = 2
    Depth = 2
    WindowPages = 3
    HeapPages = 2
    Device = 8
    MaxCount = 2
    Client = {c1, c2}
INVARIANTS
    TypeOK
    CountExact
    FramesExclusive
    WindowIntact
    WindowAccounted
    AlignedExact
SYMMETRY Symmetry
