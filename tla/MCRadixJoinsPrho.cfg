CONSTANTS
    PASS1RADIXBITS = 1
    PASS2RADIXBITS = 1
    SMALL_PADDING_TUPLES = 1
    PROBE_BUFFER_SIZE = 4
    Inputs <- MCInputs
    Bits <- MCBits
    Threads = {t1, t2}
    JoinFunctionNames = {"optimized"}
    Junk = {0, 4}
    None = None
SPECIFICATION Spec
INVARIANT ResultIsCount
CHECK_DEADLOCK FALSE
