CONSTANTS
    a1 = a1
    a2 = a2
    a3 = a3
    Addr = {a1, a2, a3}
    Scalar = {0, 1}
    Immidiate = {1, 9}
    klasses <- MCKlasses
    OBJ_ARR_IMM = 9
    NumSlots = 2
    Length = {1}
    MaxNative = 2
    Size = 15
SYMMETRY AddrSymmetry
SPECIFICATION Spec
CHECK_DEADLOCK FALSE
INVARIANTS
    TypeOK
    SweepIsExact
    MarksAreCleared
    TraceMatchesBlocks
    DiesOnlyOnBadShapes
PROPERTIES
    ImplementsObjectStore
