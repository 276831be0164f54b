CONSTANTS
    Half = 8
    WordBytes = 2
    ByteSize = 4
    Size = 2
    ElemSize = {1}
    Count <- MCCount
    Origin = 2
    RegisterId = {r0}
    Literal = {1}
    MaxArrays = 2
SPECIFICATION PrimSpec
INVARIANTS
    PrimTypeOK
    DivisionIsSigned
    RefArrayFits
PROPERTIES
    ImplementsArrayStore
    ElementIsReached
    ExhaustionIsForEver
CHECK_DEADLOCK FALSE
