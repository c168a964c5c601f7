CONSTANTS
    Keys <- MCKeys
    Word = 16
    Adders = {a1, a2}
    ArgSet <- EmptyArgs
    Seeds = {0, 5}
    Hashes <- MCHashes
    NoKey = NoKey
SPECIFICATION Spec
INVARIANT BitsInBitmap
CHECK_DEADLOCK FALSE
