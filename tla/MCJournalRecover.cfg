SPECIFICATION Spec
CONSTANTS
    Rec = {r1}
    Mrt = {m1}
    Bit = {}
    L = 3
    MaxFaults = 0
    MaxCrashes = 2
    MaxTx = 2
    MaxSeq = 6
CHECK_DEADLOCK FALSE
INVARIANTS
    Recoverable
