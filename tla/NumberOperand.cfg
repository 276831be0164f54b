CONSTANTS
    ByteSize = 16
    Ldia = 2
    Call = 6
    Word = {}
    Text = {}
    Name <- MCName
    Signature = {}
    MaxPool = 0
    MaxLoads = 0
    MaxInstrs = 0
    MaxFields = 0
    NUL = "0"
    MaxMade = 0
    MaxText = 0
    Source <- MCSource
    Mnemonic <- MCMnemonic
    FromPool = {2}
    RegisterNumber <- MCRegisterNumber
    WordSize = 256
    Ret = 1
    Goto = 5
    Inv = 0
    MovRef = 9
    If = {4}
    Acmp = {8}
    Straight = {2, 3, 7}
    Sibling = {1, 3, 4, 5, 6, 7}
    MaxFrames = 3
    NativeLimit = 3
SPECIFICATION PipelineSpec
INVARIANTS
    NumbersAreOperands
CHECK_DEADLOCK FALSE
