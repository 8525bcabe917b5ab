SPECIFICATION Spec
CONSTANTS
    N = 2
    R = 2
    W = 8
    MaxCount = 1
    MaxFaults = 0
INVARIANTS
    FreeBlocksSane
