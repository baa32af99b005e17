CONSTANTS
    NumFrames = 5
    MaxMapping = 3
    MaxProcs = 3
    NumPages = 2
    MaxSwapAddress = 100
    zero = zero
    code = code
    one = one
    NULL = NULL
    NoFile = NoFile
    EmptyFile = EmptyFile
    Code = code
    Blank = zero
    PTEs <- MCPTEs
    Words <- MCWords
    Unparsable <- MCWords
    StoreWords <- MCStoreWords
VIEW system
SPECIFICATION FairSpec
INVARIANTS
    TypeOK
    SharingAccounted
    ProtectedWhileShared
    RingHoldsEveryProcess
PROPERTIES
    ProcessesAreIsolated
    FaultedStoreIsDone
    EveryProcessRuns
CHECK_DEADLOCK FALSE
