SPECIFICATION FairSpec
CONSTANTS
    p1 = p1
    g = g
    InPackets = {p1}
    Imported = {}
    AmountIn = 2
    RetryCounts = {1}
    SymmetricChannel = FALSE
    ReceiverFunds = 0
    MaxSends = 2
PROPERTY
    WaitingIsAnswered
CHECK_DEADLOCK FALSE
