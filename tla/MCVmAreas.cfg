CONSTANTS
    NULL_ID = NULL_ID
    NoArea = NoArea
    MaxPage = 6
    MaxAreas = 6
    AreaKinds = {text,data}
SPECIFICATION Spec
INVARIANTS
    RingsAgree
PROPERTIES
    LowerAreaIsFound
    ChildFindsParentsAreas
CHECK_DEADLOCK FALSE
