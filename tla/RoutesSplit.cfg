SPECIFICATION Spec
CONSTANTS
    Prec = 100
    Denoms = {"a", "b", "c"}
    Pools = {"p1", "p2", "p3"}
    Price <- MCPrice
    RouteSet <- MCRouteSet
    Amounts = {2, 4, 6}
    InterfaceFeeRate = 25
    InitialCoins = 20
    MaxSwaps = 2
INVARIANT TradeAsOrdered
CHECK_DEADLOCK FALSE
