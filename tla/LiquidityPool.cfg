SPECIFICATION Spec
CONSTANTS
    Prec = 64
    TickSqrtPrice <- MCTickSqrtPrice
    MinSqrtPrice <- MCMinSqrtPrice
    MaxSqrtPrice <- MCMaxSqrtPrice
    FeeRates = {0, 8}
    Ranges <- MCRanges
    Deposits <- MCDeposits
    Fractions <- MCFractions
    SwapAmounts = {1, 3, 7}
    IncentiveAmount = 3
    NoProgressLimit = 3
    MaxPositions = 3
    MaxIterations = 20
    MaxSteps = 5
INVARIANTS
    TypeOK
    ActiveLiquidity
    StoresAgree
    PriceInTick
    PositionsCovered
    RewardsCovered
CHECK_DEADLOCK FALSE
