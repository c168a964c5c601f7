CONSTANTS
    NThreads = 2
    FanOut = 2
    Shift = 2
    Padding = 2
    Line = 2
    Keys <- MCKeys
    Inputs <- SeamInputs
    K = 2
    Positions <- MCPositions
    Programs <- FilterSwwc
SPECIFICATION PassSpec
PROPERTY ImplementsContract
