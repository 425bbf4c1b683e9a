\* Two clients that connect at about the same time.
SPECIFICATION Spec
CONSTANTS
    N = 2
    MAX_CLIENTS = 2
    REQUESTS = 1
INVARIANTS OwnThread
CHECK_DEADLOCK FALSE
