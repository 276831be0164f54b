CONSTANTS
    main = main
    foo = foo
    bar = bar
    Func = {main, foo, bar}
    Main = main
    numRegs <- MCNumRegs
    FrameWords = 2
    Size = 24
    ElemSize = {1, 2}
    Count = {0, 1, 2, 3}
SPECIFICATION StackSpec
CHECK_DEADLOCK FALSE
INVARIANTS
    Disjoint
    Stacked
    NoLeak
    LeakIsOneFrame
PROPERTIES
    RetUndoesCall
    LastInFirstOut
