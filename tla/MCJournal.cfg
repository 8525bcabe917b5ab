SPECIFICATION Spec
CONSTANTS
    Rec = {r1}
    Mrt = {}
    Bit = {b1}
    L = 3
    MaxFaults = 1
    MaxCrashes = 1
    MaxTx = 2
    MaxSeq = 5
CHECK_DEADLOCK FALSE
INVARIANTS
    TypeOK
    Durable
    SeqOrdered
