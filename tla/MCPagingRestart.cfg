CONSTANTS
    NumFrames = 3
    MaxMapping = 1
    NumData = 3
    MaxSwapAddress = 103
    zero = zero
    code = code
    small = small
    wide = wide
    NULL = NULL
    NoFile = NoFile
    EmptyFile = EmptyFile
    Proc = p1
    Code = code
    Blank = zero
    PTEs <- MCPTEs
    Words <- MCWords
    Unparsable <- MCUnparsable
    StoreWords <- MCWideWords
VIEW system
SPECIFICATION FairSpec
PROPERTIES
    SecondExecutionSucceeds
CHECK_DEADLOCK FALSE
