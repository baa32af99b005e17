CONSTANTS
    Keys <- MCKeys
    Hash <- MCHash
    Size = 2
    Calls <- MCCalls
SPECIFICATION Spec
VIEW trie
INVARIANTS
    DirectoriesExact
PROPERTIES
    ImplementsDictionary
CHECK_DEADLOCK FALSE
