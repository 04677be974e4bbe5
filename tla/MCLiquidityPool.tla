--------------------------- MODULE MCLiquidityPool ---------------------------
(***************************************************************************)
(* An instance of LiquidityPool for TLC: a price ratio of four, so that    *)
(* the root of the price doubles from tick to tick, and prices that end    *)
(* with the ticks, so that swaps reach both limits.                        *)
(***************************************************************************)
EXTENDS LiquidityPool, TLC

MCTickSqrtPrice == (-1 :> One \div 2) @@ (0 :> One)
                   @@ (1 :> 2 * One) @@ (2 :> 4 * One)
MCMinSqrtPrice == One \div 2
MCMaxSqrtPrice == 4 * One
MCRanges == {<<-1, 1>>, <<0, 2>>}
MCDeposits == {Coins(6, 6)}
MCFractions == {[num |-> 1, den |-> 1], [num |-> 1, den |-> 2]}
==============================================================================
