CONSTANTS
    Parts = {"generator", "npo", "barrier"}
    PageTuples = 2
    INT_MAX = 8
    Inputs <- MCInputs
    NThreads = 3
    BUCKET_SIZE = 2
    CHAINEDBUFF_NUMTUPLESPERBUF = 2
    UINT32_SIZE = 16
    Algorithms = {"NPO", "NPO_st"}
    OVERFLOW_BUF_SIZE = 1
    Timing = TRUE
    Relations <- MCRelations
    Callers = {t1, t2, t3, t4}
    MaxRounds = 3
    SpuriousWakeups = {TRUE, FALSE}
SPECIFICATION ProgramFairSpec
INVARIANTS
    TypeOK
    SwapsExclusive
    KeysAsOrdered
    TableOK
    EveryTupleStored
    NoProbeWhileBuilding
    NoUseAfterFree
    ResultRight
    WaitersCounted
PROPERTIES
    OnlySwaps
    Termination
    JoinEnds
    ImplementsBarrier
    AllCallsReturn
CHECK_DEADLOCK FALSE
