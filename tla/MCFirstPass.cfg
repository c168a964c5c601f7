CONSTANTS
    NThreads = 3
    FanOut = 2
    Shift = 2
    Padding = 2
    Line = 2
    Keys <- MCKeys
    Inputs <- FewInputs
    K = 2
    Positions <- MCPositions
    Programs <- AllPrograms
SPECIFICATION PassFairSpec
INVARIANTS
    TypeOK
    NoFalseNegative
    FilterRaceFree
    HistogramsComplete
    WithinAllocation
    UnreachedSlotsRight
    NothingMisplaced
PROPERTIES
    PlainImplementsContract
    Termination
