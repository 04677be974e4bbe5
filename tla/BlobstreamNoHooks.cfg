SPECIFICATION Spec
CONSTANTS
    v1 = v1
    v2 = v2
    e1 = e1
    e2 = e2
    Validators = {v1, v2}
    EvmAddrs = {e1, e2}
    DefaultEvmAddress <- MCDefaultEvmAddress
    PowerTables <- MCPowerTables
    PowerScale = 1000
    ThresholdDenominator = 20
    Windows = {1, 2}
    ExpiryTime = 3
    BlockDelays = {1}
    HooksRegistered = FALSE
    MaxHeight = 5
INVARIANT
    NeverHalts
