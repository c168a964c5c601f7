CONSTANTS
    NThreads = 3
    FanOut = 2
    FanOut2 = 2
    Builds = {TRUE, FALSE}
    Threshold1 = 4
    ThresholdJoin = 3
    JoinFunctionNames = {"optimized"}
    Strays = {0, 1}
    Inputs <- EmptyRInputs
    NumaId <- ThreeThreads
    NodeOf <- TwoNodes
    NoTask = NoTask
SPECIFICATION FairSpec
PROPERTY JoinReturns
CHECK_DEADLOCK FALSE
