CONSTANTS
    Parts = {"filter", "queue"}
    Keys <- MCKeys
    Word = 16
    Adders = {a1, a2}
    ArgSet <- ManyArgs
    Seeds = {5}
    Hashes <- MCHashes
    NoKey = NoKey
    Threads = {t1, t2, t3}
    AllocSize = 2
    Tasks = {a, b, c, d}
    NoTask = NoTask
    Asking = Asking
    NoThread = NoThread
SPECIFICATION SharedSpec
SYMMETRY Symmetry
INVARIANTS
    WithinBitmap
    NoFalseNegative
    OneBlockPerKey
    OneOwner
PROPERTY ImplementsPool
