\* Files of no, one, two and five bytes for two processes; two runs of proc1 and proc2, so
\* that one meets what a killed or finished one left; three rounds of writer and reader;
\* forks of up to sixteen processes; five students, so that the vector grows twice.
SPECIFICATION MCSpec
CONSTANTS
    SIZES = {0, 1, 2, 5}
    LETTER_SIZES = {1, 3}
    LETTERS = 2
    LETTER_RUNS = 2
    FILE_SIZES = {1, 2, 4}
    FILE_RUNS = 3
    STEPS = {0, 1, 2, 3, 4}
    SKIPS = {0, 1, 2, 3}
    Addresses = {1, 2}
    ADDS = 5
INVARIANTS MCTypeOK ReadsAreFresh CountIsRight EachByteOnce SequentialRight
PROPERTIES BothEnd
\* Programs end, and users need not start them again.
CHECK_DEADLOCK FALSE
