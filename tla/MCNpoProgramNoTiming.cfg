CONSTANTS
    Parts = {"npo"}
    PageTuples = 2
    INT_MAX = 8
    Inputs <- MCInputs
    NThreads = 2
    BUCKET_SIZE = 2
    CHAINEDBUFF_NUMTUPLESPERBUF = 2
    UINT32_SIZE = 16
    Algorithms = {"NPO"}
    OVERFLOW_BUF_SIZE = 1
    Timing = FALSE
    Relations <- OneInput
    Callers = {t1, t2, t3, t4}
    MaxRounds = 3
    SpuriousWakeups = {TRUE, FALSE}
SPECIFICATION ProgramSpec
INVARIANT NoUseAfterFree
CHECK_DEADLOCK FALSE
