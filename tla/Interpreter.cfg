CONSTANTS
    a1 = a1
    a2 = a2
    a3 = a3
    Addr = {a1, a2, a3}
    Scalar = {0, 1}
    Immidiate = {1, 9}
    klasses <- MCKlasses
    OBJ_ARR_IMM = 9
    main = main
    foo = foo
    Func = {main, foo}
    Main = main
    numRegs <- MCNumRegs
    numArgs <- MCNumArgs
    RegisterId = {0}
    Offset = {0}
    MaxFrames = 2
    MaxNative = 2
    AddressSpace = 16
    Size = 9
SPECIFICATION InterpreterSpec
CHECK_DEADLOCK FALSE
PROPERTIES
    ImplementsExecutor
    CollectionEnds
