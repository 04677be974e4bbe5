SPECIFICATION Spec
CONSTANTS
    Accounts = {a1, a2}
    Shapes <- MCShapes
    Fee = 1
    InitialFunds = 2
    MaxMempool = 4
    MaxSequence = 3
    MaxHeight = 3
    MaxSquareSize = 2
    SquareSizeUpperBound = 4
    SubtreeRootThreshold = 2
    FirstCompactShareContentSize = 6
    ContinuationCompactShareContentSize = 7
    FirstSparseShareContentSize = 2
    ContinuationSparseShareContentSize = 3
    VarintBase = 4
    WrapperOverhead = 0
    TxLens = {4, 13}
    PfbLens = {4}
    BlobLists <- MCBlobLists
    MaxPower = 6
SYMMETRY MCSymmetry
INVARIANTS
    InvalidFilteredOut
CHECK_DEADLOCK FALSE
