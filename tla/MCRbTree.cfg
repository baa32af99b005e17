SPECIFICATION Spec
CONSTANTS
    Nodes = {1, 2, 3, 4, 5, 6, 7, 8}
    Key <- MCKey
    NULL_ID = 0
INVARIANTS
    MembersInOrder
    RedAndBlack
    FindSuccIsBestFit
PROPERTY CallsReturn
