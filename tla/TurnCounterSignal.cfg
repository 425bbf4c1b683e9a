\* Three threads, one increment each.
SPECIFICATION FairSpec
CONSTANTS
    Nobody = Nobody
    N = 3
    M = 1
PROPERTIES Termination
CHECK_DEADLOCK FALSE
