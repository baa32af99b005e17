CONSTANTS
    NumPids = 3
    MAX_NUM_JOBS = 2
SPECIFICATION FairSpec
INVARIANTS
    TypeOK
    ForegroundHoldsPrompt
PROPERTIES
    LiveJobKeepsSlot
    ZombiesAreReaped
CHECK_DEADLOCK FALSE
