SPECIFICATION Spec
CONSTANTS
    p1 = p1
    g = g
    InPackets = {p1, g}
    Imported = {g}
    AmountIn = 2
    RetryCounts = {0, 2}
    SymmetricChannel = TRUE
    ReceiverFunds = 1
    MaxSends = 4
INVARIANTS
    TypeOK
    AckedOrWaiting
    InFlightRecorded
    RetriesCounted
    EscrowAccounting
CHECK_DEADLOCK FALSE
