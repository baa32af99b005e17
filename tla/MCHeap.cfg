SPECIFICATION Spec
CONSTANTS
    PageSize = 64
    HeapMax = 128
    Width = 1024
    Requests = {4, 8, 16, 60}
    MaxHeld = 4
INVARIANTS
    TagsTileTheHeap
    IndexesAreExact
    HeldPayloadsIntact
    OrdinaryRefusedOnlyWithoutRoom
PROPERTY ImplementsAllocator
