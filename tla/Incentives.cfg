SPECIFICATION Spec
CONSTANTS
    val = val
    op = op
    del = del
    q1 = q1
    q2 = q2
    FeeDenom = "fee"
    BondDenom = "bond"
    OtherDenom = "ibc"
    BypassDenoms = {"bond"}
    BurnNum = 1
    BurnDen = 2
    FeeAmounts = {3}
    ConvertAmounts = {2}
    GenesisMaxSupply = 7
    MaxSupplies = {4, 7}
    InitialBalance = 4
    Prec = 100
    Pools <- MCPools
    Accounts <- MCAccounts
    Validators <- MCValidators
    Operator <- MCOperator
    Delegations <- MCDelegations
    Ballots <- MCBallots
    EpochBlocks = 2
    StakingRatio = 25
    BlockReward = 10
    MaxHeight = 5
    MaxTxs = 3
INVARIANTS
    TypeOK
    SupplyHeld
    NoPowerCountedTwice
    EpochStoresAgree
    HaltsNotByRounding
PROPERTIES
    CapRespected
    StakersPaid
    EndedEpochReplaced
CHECK_DEADLOCK FALSE
