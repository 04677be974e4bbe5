SPECIFICATION Spec
CONSTANTS
    MaxSquareSize = 4
    SquareSizeUpperBound = 4
    SubtreeRootThreshold = 2
    FirstCompactShareContentSize = 6
    ContinuationCompactShareContentSize = 7
    FirstSparseShareContentSize = 2
    ContinuationSparseShareContentSize = 3
    VarintBase = 4
    WrapperOverhead = 0
    TxLens = {4, 5, 12}
    PfbLens = {1}
    BlobLists <- MCBlobLists
    MaxTxs = 2
    MaxPfbs = 3
    MaxPower = 6
INVARIANTS
    TypeOK
    ExportSucceeds
    ProposalAccepted
    CommitmentsInRows
    NamespaceOrder
    IndexesFound
    CountersExact
    TxRangesExact
