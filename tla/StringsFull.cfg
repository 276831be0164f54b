CONSTANTS
    ByteSize = 3
    Ldia = 1
    Call = 2
    Word = {9}
    Text <- MCShortText
    Name <- MCName
    Signature <- MCSignature
    MaxPool = 8
    MaxLoads = 1
    MaxInstrs = 0
    MaxFields = 0
    NUL = "0"
    MaxMade = 2
    MaxText = 2
SPECIFICATION Spec
CHECK_DEADLOCK FALSE
PROPERTIES
    ConcatInAcc
