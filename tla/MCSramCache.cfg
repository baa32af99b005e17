CONSTANTS
    NumSets = 1
    NumLines = 3
    Tags = {a, b, c, d}
    BlockSize = 8
    MaxAccesses = 6
SPECIFICATION Spec
INVARIANTS
    DirtyBytesExact
PROPERTIES
    ImplementsLru
CHECK_DEADLOCK FALSE
