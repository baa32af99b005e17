CONSTANTS
    NumFrames = 3
    MaxMapping = 1
    NumData = 3
    MaxSwapAddress = 103
    zero = zero
    code = code
    small = small
    wide = wide
    NULL = NULL
    NoFile = NoFile
    EmptyFile = EmptyFile
    Proc = p1
    Code = code
    Blank = zero
    PTEs <- MCPTEs
    Words <- MCWords
    Unparsable <- MCUnparsable
    StoreWords <- MCStoreWords
VIEW system
SPECIFICATION Spec
INVARIANTS
    TypeOK
    ReverseMapConsistent
    CleanFrameIsOnSwap
    SwapFilesNotShared
PROPERTIES
    PagingIsTransparent
CHECK_DEADLOCK FALSE
