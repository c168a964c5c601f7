CONSTANTS
    NThreads = 3
    FanOut = 2
    FanOut2 = 2
    Builds = {TRUE, FALSE}
    Threshold1 = 4
    ThresholdJoin = 3
    JoinFunctionNames = {"bucket_chaining", "histogram", "optimized"}
    Strays = {0, 1}
    Inputs <- MCInputs
    NumaId <- ThreeThreads
    NodeOf <- TwoNodes
    NoTask = NoTask
SPECIFICATION FairSpec
INVARIANTS
    TypeOK
    SameBarrier
    NothingLeftOver
    ResultRight
    OneSkewTask
    UnlockedAlone
PROPERTY Termination
CHECK_DEADLOCK FALSE
