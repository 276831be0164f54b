CONSTANTS
    a1 = a1
    a2 = a2
    Addr = {a1, a2}
    Scalar <- MCScalar
    Immidiate = {1, 9}
    klasses <- MCKlasses
    OBJ_ARR_IMM = 9
    main = main
    foo = foo
    Func = {main, foo}
    Main = main
    numRegs <- MCNumRegs
    numArgs <- MCNumArgs
    RegisterId = {0, 1}
    Offset = {0, 4}
    MaxFrames = 2
    MaxNative = 2
    AddressSpace = 16
    Size = 7
SYMMETRY AddrSymmetry
SPECIFICATION DisciplinedSpec
CHECK_DEADLOCK FALSE
INVARIANTS
    TypeOK
    NoDangling
    NeverUndefined
    NoGarbageWhenTight
PROPERTIES
    ImplementsObjectStore
