CONSTANTS
    ByteSize = 3
    Ldia = 1
    Call = 2
    Word = {9}
    Text <- MCText
    Name <- MCName
    Signature <- MCSignature
    MaxPool = 9
    MaxLoads = 1
    MaxInstrs = 1
    MaxFields = 3
    NUL = "0"
    MaxMade = 2
    MaxText = 2
SPECIFICATION Spec
CHECK_DEADLOCK FALSE
INVARIANTS
    ReadsWhatIsWritten
    FunctionsAsTold
    FieldsAsTold
    ConstantsAsTold
PROPERTIES
    ConcatWhileIdsLast
