CONSTANTS
    Inputs <- MCInputs
    MaxLines = 18
    MaxSymbols = 5
    Placeholder = Placeholder
SPECIFICATION Spec
INVARIANTS
    SectionsHoldDefinitions
    ReferencesRelocated
PROPERTIES
    SymbolsResolved
CHECK_DEADLOCK FALSE
