------------------------------- MODULE MCRoutes -------------------------------
(***************************************************************************)
(* An instance of Routes for TLC.                                          *)
(***************************************************************************)
EXTENDS Routes

Ratio(n, d) == [num |-> n, den |-> d]

\* Two pools of the first two denominations, one that leads to the third.
MCPrice ==
    [p1 |-> [a |-> Ratio(1, 1), b |-> Ratio(1, 1)],
     p2 |-> [a |-> Ratio(3, 2), b |-> Ratio(2, 3)],
     p3 |-> [b |-> Ratio(1, 2), c |-> Ratio(2, 1)]]

PoolRoute(p, in, out) ==
    [strategy |-> "pool", pool |-> p, denomIn |-> in, denomOut |-> out,
     routes |-> <<>>, weights |-> <<>>]
Series(in, out, routes) ==
    [strategy |-> "series", pool |-> "", denomIn |-> in, denomOut |-> out,
     routes |-> routes, weights |-> <<>>]
Parallel(in, out, routes, weights) ==
    [strategy |-> "parallel", pool |-> "", denomIn |-> in, denomOut |-> out,
     routes |-> routes, weights |-> weights]

BothPools(weights) ==
    Parallel("a", "b", <<PoolRoute("p1", "a", "b"), PoolRoute("p2", "a", "b")>>, weights)

\* The last route uses a pool twice and is refused.
MCRouteSet ==
    {PoolRoute("p2", "a", "b"),
     Series("a", "c", <<PoolRoute("p1", "a", "b"), PoolRoute("p3", "b", "c")>>),
     BothPools(<<Dec(1), Dec(2)>>),
     Series("a", "c", <<BothPools(<<Dec(1), Dec(1)>>), PoolRoute("p3", "b", "c")>>),
     Series("a", "a", <<PoolRoute("p1", "a", "b"), PoolRoute("p1", "b", "a")>>)}

=============================================================================
