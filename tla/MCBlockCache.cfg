SPECIFICATION Spec
CONSTANTS
    Block = {b1, b2, b3}
    Val = {v1, v2}
    NSlots = 2
    NSectors = 2
SYMMETRY Symmetry
INVARIANTS
    TypeOK
    Coherent
PROPERTIES
    StoreSpec
