CONSTANTS
    PASS1RADIXBITS = 1
    PASS2RADIXBITS = 1
    SMALL_PADDING_TUPLES = 1
    PROBE_BUFFER_SIZE = 4
    Inputs <- MCInputs
    Bits <- MCBits
    Threads = {t1, t2}
    JoinFunctionNames = {"bucket_chaining", "histogram", "optimized"}
    Junk = {0, 4}
    None = None
SPECIFICATION FairSpec
INVARIANTS
    TypeOK
    TasksApart
    ClustersRight
    ResultRight
PROPERTY Termination
CHECK_DEADLOCK FALSE
