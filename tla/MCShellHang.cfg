CONSTANTS
    NumPids = 2
    MAX_NUM_JOBS = 2
SPECIFICATION FairSpec
PROPERTIES
    ForegroundJobEnds
CHECK_DEADLOCK FALSE
