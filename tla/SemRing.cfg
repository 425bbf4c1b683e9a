\* Three threads, one round, one increment left over.
SPECIFICATION FairSpec
CONSTANTS
    num_threads = 3
    count_max = 4
PROPERTIES Termination
CHECK_DEADLOCK FALSE
