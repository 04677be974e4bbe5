-------------------------------- MODULE Routes --------------------------------
(***************************************************************************)
(* Swaps along routes (x/swap/types/route.go, keeper/swap_exact_amount_in  *)
(* and swap_exact_amount_out).  A route is a pool, a series of routes or a *)
(* set of parallel routes with weights.  An exact-in swap walks the route  *)
(* and trades as it goes; an exact-out swap first calculates the amounts   *)
(* from the end to the beginning and then trades them in that order.       *)
(*                                                                         *)
(* A pool stands for its price: LiquidityPool models how it is made.  A    *)
(* transaction that fails leaves no trace, so its action is not enabled.   *)
(***************************************************************************)
EXTENDS Integers, Sequences, SequencesExt, LegacyDec

CONSTANTS
    Denoms, Pools,
    Price,            \* [pool -> [denomIn -> [num, den]]]: what one coin buys
    RouteSet,         \* the routes of messages
    Amounts,          \* amounts and limits of messages
    InterfaceFeeRate, \* parameter of x/swap, a decimal
    InitialCoins,     \* coins of the sender and of each pool
    MaxSwaps          \* bound: transactions

VARIABLES
    db,     \* coins of the sender, of the interface provider and of the pools
    trade,  \* the last order and what it did to the sender
    swaps   \* transactions so far

vars == <<db, trade, swaps>>

Bank(sender, provider, reserve) ==
    [sender |-> sender, provider |-> provider, reserve |-> reserve]

-----------------------------------------------------------------------------
(***************************************************************************)
(* Validation                                                              *)
(***************************************************************************)
RECURSIVE PoolsOf(_), ValidateRecursive(_)

\* The pools of a route, one entry per use.
PoolsOf(route) ==
    IF route.strategy = "pool" THEN <<route.pool>>
    ELSE FlattenSeq([i \in DOMAIN route.routes |-> PoolsOf(route.routes[i])])

ValidateRecursive(route) ==
    LET n == Len(route.routes)
        InOrder == /\ \A i \in 2..n : route.routes[i].denomIn = route.routes[i - 1].denomOut
                   /\ route.routes[1].denomIn = route.denomIn
                   /\ route.routes[n].denomOut = route.denomOut
        SideBySide == /\ n = Len(route.weights)
                      /\ \A i \in 1..n : /\ route.routes[i].denomIn = route.denomIn
                                         /\ route.routes[i].denomOut = route.denomOut
                                         /\ route.weights[i] > 0
    IN  \/ route.strategy = "pool"
        \/ /\ n > 0
           /\ \A i \in 1..n : ValidateRecursive(route.routes[i])
           /\ IF route.strategy = "series" THEN InOrder ELSE SideBySide

MustNotReusePool(route) == IsInjective(PoolsOf(route))

Validate(route) == ValidateRecursive(route) /\ MustNotReusePool(route)

-----------------------------------------------------------------------------
(***************************************************************************)
(* Pools                                                                   *)
(***************************************************************************)
HasDenoms(p, in, out) == {in, out} \subseteq DOMAIN Price[p] /\ in # out

PoolOut(p, in, amount) == (amount * Price[p][in].num) \div Price[p][in].den
PoolIn(p, in, amount) == CeilDiv(amount * Price[p][in].den, Price[p][in].num)

CanTrade(b, p, in, amountIn, out, amountOut) ==
    /\ amountIn \in 1..b.sender[in]
    /\ amountOut \in 1..b.reserve[p][out]

Traded(b, p, in, amountIn, out, amountOut) ==
    Bank([b.sender EXCEPT ![in] = @ - amountIn, ![out] = @ + amountOut], b.provider,
         [b.reserve EXCEPT ![p] = [@ EXCEPT ![in] = @ + amountIn, ![out] = @ - amountOut]])

-----------------------------------------------------------------------------
(***************************************************************************)
(* InspectRoute: the bank afterwards, the amount at the other end and the  *)
(* result, a tree like the route.                                          *)
(***************************************************************************)
Failed == [ok |-> FALSE, db |-> <<>>, amount |-> 0, result |-> <<>>]

\* generateResultExactAmountIn and generateResultExactAmountOut.
Inspected(b, route, exact, amount, parts, exactIn) ==
    [ok |-> TRUE, db |-> b, amount |-> amount,
     result |-> [strategy |-> route.strategy, pool |-> route.pool, results |-> parts,
                 denomIn |-> route.denomIn, denomOut |-> route.denomOut,
                 amountIn |-> IF exactIn THEN exact ELSE amount,
                 amountOut |-> IF exactIn THEN amount ELSE exact]]

\* swapRoutePoolExactAmountIn, and calculateResultRoutePoolExactAmountOut,
\* which changes nothing.
InspectRoutePool(b, r, exact, exactIn) ==
    LET out == PoolOut(r.pool, r.denomIn, exact)
    IN  IF ~HasDenoms(r.pool, r.denomIn, r.denomOut) THEN Failed
        ELSE IF ~exactIn
        THEN Inspected(b, r, exact, PoolIn(r.pool, r.denomIn, exact), <<>>, exactIn)
        ELSE IF CanTrade(b, r.pool, r.denomIn, exact, r.denomOut, out)
        THEN Inspected(Traded(b, r.pool, r.denomIn, exact, r.denomOut, out),
                       r, exact, out, <<>>, exactIn)
        ELSE Failed

\* The exact amount of each parallel route: by weight, and the last one what
\* is left after the sum of the others, which nothing is ever added to.
AmountsExact(weights, exact) ==
    LET weightSum == FoldLeft(+, 0, weights)
        amountsExactSum == 0
    IN  [i \in DOMAIN weights |->
           IF i = Len(weights) THEN exact - amountsExactSum
           ELSE TruncateInt(Quo(weights[i] * exact, weightSum))]

RECURSIVE InspectRoute(_, _, _, _)
InspectRoute(b, route, exact, exactIn) ==
    LET start == [ok |-> TRUE, db |-> b, amount |-> exact, parts |-> <<>>]
        Joined(acc, step, amount) ==
            [ok |-> step.ok, db |-> step.db, amount |-> amount,
             parts |-> Append(acc.parts, step.result)]
        Hop(acc, r) ==
            LET After(step) == Joined(acc, step, step.amount)
            IN  IF acc.ok THEN After(InspectRoute(acc.db, r, acc.amount, exactIn)) ELSE acc
        Branch(acc, r) ==
            LET After(step) == Joined(acc, step, acc.amount + step.amount)
            IN  IF acc.ok THEN After(InspectRoute(acc.db, r.route, r.exact, exactIn)) ELSE acc
        split == AmountsExact(route.weights, exact)
        Finished(acc) ==
            IF acc.ok THEN Inspected(acc.db, route, exact, acc.amount, acc.parts, exactIn)
            ELSE Failed
    IN  CASE route.strategy = "pool" -> InspectRoutePool(b, route, exact, exactIn)
          [] route.strategy = "series" ->
               Finished(FoldLeft(Hop, start, IF exactIn THEN route.routes ELSE Reverse(route.routes)))
          [] OTHER ->
               Finished(FoldLeft(Branch, [start EXCEPT !.amount = 0],
                          [i \in DOMAIN route.routes |->
                             [route |-> route.routes[i], exact |-> split[i]]]))

\* swapRouteExactAmountOut: trade the calculated results, in their order.
RECURSIVE SwapRouteExactAmountOut(_, _)
SwapRouteExactAmountOut(s, r) ==
    LET Swap(acc, sub) == SwapRouteExactAmountOut(acc, sub)
        amountIn == PoolIn(r.pool, r.denomIn, r.amountOut)
    IN  IF ~s.ok THEN s
        ELSE IF r.strategy # "pool" THEN FoldLeft(Swap, s, r.results)
        ELSE IF CanTrade(s.db, r.pool, r.denomIn, amountIn, r.denomOut, r.amountOut)
                  /\ amountIn = r.amountIn
        THEN [ok |-> TRUE, db |-> Traded(s.db, r.pool, r.denomIn, amountIn, r.denomOut, r.amountOut)]
        ELSE [ok |-> FALSE, db |-> s.db]

-----------------------------------------------------------------------------
(***************************************************************************)
(* The messages                                                            *)
(***************************************************************************)
\* calculateInterfaceFeeExactAmountIn: the net amount.
AmountOutNet(gross, hasInterfaceFee) ==
    IF hasInterfaceFee THEN TruncateInt(Mul(Dec(gross), One - InterfaceFeeRate)) ELSE gross

\* calculateInterfaceFeeExactAmountOut: the gross amount is computed for the
\* fee, and the net amount returned.
InterfaceFeeExactAmountOut(net, hasInterfaceFee) ==
    IF hasInterfaceFee THEN TruncateInt(Quo(Dec(net), One - InterfaceFeeRate)) - net ELSE 0

AmountOutGross(net) == net

FeePaid(b, denom, fee) ==
    Bank([b.sender EXCEPT ![denom] = @ - fee], [b.provider EXCEPT ![denom] = @ + fee], b.reserve)

Done(b, route, maxIn, minOut) ==
    /\ db' = b
    /\ trade' = [maxIn |-> maxIn, minOut |-> minOut,
                 paid |-> db.sender[route.denomIn] - b.sender[route.denomIn],
                 received |-> b.sender[route.denomOut] - db.sender[route.denomOut]]
    /\ swaps' = swaps + 1

SwapExactAmountIn(route, amountIn, minAmountOut, hasInterfaceFee) ==
    /\ swaps < MaxSwaps
    /\ Validate(route)
    /\ \E s \in {InspectRoute(db, route, amountIn, TRUE)} :
         /\ s.ok
         /\ \E net \in {AmountOutNet(s.amount, hasInterfaceFee)} :
              /\ net >= minAmountOut
              /\ Done(FeePaid(s.db, route.denomOut, s.amount - net), route, amountIn, minAmountOut)

SwapExactAmountOut(route, maxAmountIn, amountOut, hasInterfaceFee) ==
    /\ swaps < MaxSwaps
    /\ Validate(route)
    /\ \E c \in {InspectRoute(db, route, AmountOutGross(amountOut), FALSE)} :
         /\ c.ok
         /\ \E s \in {SwapRouteExactAmountOut([ok |-> TRUE, db |-> db], c.result)},
               fee \in {InterfaceFeeExactAmountOut(amountOut, hasInterfaceFee)} :
              /\ s.ok
              /\ c.result.amountIn <= maxAmountIn
              /\ s.db.sender[route.denomOut] >= fee
              /\ Done(FeePaid(s.db, route.denomOut, fee), route, maxAmountIn, amountOut)

Init ==
    /\ db = Bank([d \in Denoms |-> InitialCoins], [d \in Denoms |-> 0],
                 [p \in Pools |-> [d \in DOMAIN Price[p] |-> InitialCoins]])
    /\ trade = [maxIn |-> 0, minOut |-> 0, paid |-> 0, received |-> 0]
    /\ swaps = 0

Next ==
    \E route \in RouteSet, a, limit \in Amounts, hasInterfaceFee \in BOOLEAN :
      \/ SwapExactAmountIn(route, a, limit, hasInterfaceFee)
      \/ SwapExactAmountOut(route, limit, a, hasInterfaceFee)

Spec == Init /\ [][Next]_vars

-----------------------------------------------------------------------------
\* A swap that succeeds takes no more than the order's amount in (or its
\* maximum) from the sender, and leaves at least the minimum (or the amount
\* out) with him when the interface fee is paid.  The amounts of parallel
\* routes therefore have to add up to the amount of the whole, as the comment
\* "For avoiding rounding errors" in InspectRoute intends.
TradeAsOrdered == trade.paid <= trade.maxIn /\ trade.received >= trade.minOut

=============================================================================
