CONSTANTS
    NumProcessor = 4
    Values <- MCValues
    WriteValues <- MCWriteValues
    InitValue = 15213
SPECIFICATION Spec
INVARIANTS
    TypeOK
    check_state
    CleanCopiesMatchMemory
PROPERTIES
    DirtyCopyWrittenBack
    ImplementsMemory
CHECK_DEADLOCK TRUE
