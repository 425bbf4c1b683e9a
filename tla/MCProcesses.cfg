\* Two clients: with sockets the second may get the descriptor of the first, with pipes
\* each makes a request and an exit.  One client is the limit of the arrays of the server.
SPECIFICATION MCSpec
CONSTANTS
    N = 2
    MAX_CLIENTS = 1
    REQUESTS = 2
    Files <- FourFiles
    CHUNK = 2
    WRAP = 4
    INT = 2
    SUMS = 1
INVARIANTS MCTypeOK OwnAnswers ResultsMatch FilesArrive FreshIdsDiffer
PROPERTIES AllAnswered
\* A server may end, and users need not type.
CHECK_DEADLOCK FALSE
