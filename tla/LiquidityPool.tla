---------------------------- MODULE LiquidityPool ----------------------------
(***************************************************************************)
(* A concentrated-liquidity pool (x/liquiditypool): positions provide      *)
(* liquidity between two ticks, swaps move the price across ticks, and a   *)
(* fee accumulator shares swap fees and incentives among the positions     *)
(* whose range holds the current tick.                                     *)
(*                                                                         *)
(* The store of the pool is one record, db.  A transaction is a function   *)
(* from store to store; an error or a panic clears the field ok, and only  *)
(* a store that is ok is committed.  Sums of money are integers, all other *)
(* amounts are decimals of LegacyDec.  Senders own what they operate on    *)
(* and can pay; what the pool accounts pay out is checked.                 *)
(*                                                                         *)
(* CreatePool stores any fee rate; here it is at least zero and below one. *)
(* A negative rate makes every swap of a given amount panic, a rate of one *)
(* or more divides by what is not positive.  Ticks are those TickToPrice   *)
(* gives a price between MinSpotPrice and MaxSpotPrice, but for TICK_MIN,  *)
(* the least of 64 bits, below which there is no tick.                     *)
(***************************************************************************)
EXTENDS LegacyDec, FiniteSetsExt, Functions

CONSTANTS
  TickSqrtPrice,   \* TickToSqrtPrice: the root of the price at each tick
  MinSqrtPrice,    \* the roots of the least and the greatest price: where
  MaxSqrtPrice,    \*   a swap stops
  FeeRates,        \* fee rates pools are created with, decimals
  Ranges,          \* <<lower, upper>> of the positions users open
  Deposits,        \* [base, quote] users offer
  Fractions,       \* [num, den]: parts of a position users withdraw
  SwapAmounts,     \* amounts users swap
  IncentiveAmount, \* coins x/liquidityincentive allocates at a time
  NoProgressLimit, \* swapNoProgressLimit
  MaxPositions,    \* bound: positions ever created
  MaxIterations,   \* bound: iterations of the loop of a swap
  MaxSteps         \* bound: transactions

Ticks == DOMAIN TickSqrtPrice
Denoms == {"base", "quote"}

ASSUME PoolAssumption ==
  /\ IsFiniteSet(Ticks) /\ Ticks \subseteq Int
  /\ \A t \in Ticks : TickSqrtPrice[t] \in Nat \ {0}
  /\ \A t, u \in Ticks : t < u => TickSqrtPrice[t] < TickSqrtPrice[u]
  /\ {MinSqrtPrice, MaxSqrtPrice} \subseteq Nat
  /\ \A t \in Ticks : MinSqrtPrice <= TickSqrtPrice[t] /\ TickSqrtPrice[t] <= MaxSqrtPrice
  /\ FeeRates \subseteq 0 .. One - 1
  /\ \A r \in Ranges : r[1] \in Ticks /\ r[2] \in Ticks /\ r[1] < r[2]
  /\ Deposits \subseteq [Denoms -> Nat]
  /\ \A f \in Fractions : f.den \in Nat \ {0} /\ f.num \in 0 .. f.den
  /\ SwapAmounts \subseteq Nat \ {0}
  /\ {IncentiveAmount, NoProgressLimit, MaxPositions, MaxIterations, MaxSteps} \subseteq Nat

VARIABLES db,      \* the store of the pool and the balances of its accounts
          feeRate, \* fee rate of the pool, which no message changes
          steps    \* transactions so far, for the bound

vars == <<db, feeRate, steps>>

------------------------------------------------------------------------------
(* Coins: amounts of both denominations. *)

Coins(b, q) == [d \in Denoms |-> IF d = "base" THEN b ELSE q]
NoCoins == Coins(0, 0)
Plus(a, b) == [d \in Denoms |-> a[d] + b[d]]
Minus(a, b) == [d \in Denoms |-> a[d] - b[d]]
Times(a, n) == [d \in Denoms |-> Mul(a[d], n)]
Covers(a, b) == \A d \in Denoms : a[d] >= b[d]

Failed(s) == [s EXCEPT !.ok = FALSE]
Check(s, cond) == IF cond THEN s ELSE Failed(s)

Absolute(n) == IF n < 0 THEN -n ELSE n

------------------------------------------------------------------------------
(* Liquidity and amounts (types/math.go) *)

LiquidityBase(n, a, b) ==
  IF a = b THEN 0 ELSE Quo(Mul(Dec(n), Mul(a, b)), Absolute(b - a))
LiquidityQuote(n, a, b) ==
  IF a = b THEN 0 ELSE Quo(Dec(n), Absolute(b - a))

GetLiquidityFromAmounts(price, lower, upper, offer) ==
  CASE price <= lower -> LiquidityBase(offer["base"], lower, upper)
    [] price > lower /\ price < upper ->
         Min({LiquidityBase(offer["base"], price, upper),
              LiquidityQuote(offer["quote"], price, lower)})
    [] OTHER -> LiquidityQuote(offer["quote"], upper, lower)

Rounded(amount, roundUp) == IF roundUp THEN Ceil(amount) ELSE amount
CalcAmountBaseDelta(liq, a, b, roundUp) ==
  Rounded(Quo(Quo(Mul(Absolute(b - a), liq), Max({a, b})), Min({a, b})), roundUp)
CalcAmountQuoteDelta(liq, a, b, roundUp) == Rounded(Mul(Absolute(b - a), liq), roundUp)

(* ApproxSqrt of a decimal (external). *)
ApproxSqrt(x) == CHOOSE r \in 0 .. x + Prec : r * r <= x * Prec /\ (r + 1) * (r + 1) > x * Prec

(* CalculateSqrtPriceToTick: the tick a price lies in; whatever its search
   returns has passed these comparisons. *)
HasTick(price) ==
  price \in Nat /\ \E t, u \in Ticks : TickSqrtPrice[t] <= price /\ price < TickSqrtPrice[u]

\* Mutant: the search without the comparisons that correct it.
TickOfRoundedUp(price) == Min({t \in Ticks : TickSqrtPrice[t] >= price})

TickOf(price) == Max({t \in Ticks : TickSqrtPrice[t] <= price})

------------------------------------------------------------------------------
(* Ticks and the fee accumulator *)

HasPosition(p) == ~(p.sqrtPrice = 0 /\ p.tick = 0)
InRange(tick, lower, upper) == lower <= tick /\ tick < upper

TickInfo(gross, net, growth) == [gross |-> gross, net |-> net, growth |-> growth]
NewTickInfo(s, t) == TickInfo(0, 0, IF s.pool.tick >= t THEN s.accum ELSE NoCoins)
GetTickInfo(s, t) == IF t \in DOMAIN s.ticks THEN s.ticks[t] ELSE NewTickInfo(s, t)
Put(f, k, v) == [x \in DOMAIN f \cup {k} |-> IF x = k THEN v ELSE f[x]]
Drop(f, S) == [x \in DOMAIN f \ S |-> f[x]]

AddToTick(s, t, info, gross, net) ==
  [s EXCEPT !.ticks = Put(@, t, TickInfo(info.gross + gross, info.net + net, info.growth))]

\* Mutant: the net liquidity of an upper tick is added.
InitOrUpdateTickSameSign(s, t, delta, upper) == AddToTick(s, t, GetTickInfo(s, t), delta, delta)

InitOrUpdateTick(s, t, delta, upper) ==
  AddToTick(s, t, GetTickInfo(s, t), delta, IF upper THEN -delta ELSE delta)

EmptyTicks(s, S) == {t \in S : s.ticks[t].gross = 0 /\ s.ticks[t].net = 0}

(* calculateFeeGrowth and getFeeGrowthOutside *)
GrowthAbove(s, upper) ==
  IF s.pool.tick >= upper THEN Minus(s.accum, s.ticks[upper].growth) ELSE s.ticks[upper].growth
GrowthBelow(s, lower) ==
  IF s.pool.tick < lower THEN Minus(s.accum, s.ticks[lower].growth) ELSE s.ticks[lower].growth
GrowthOutside(s, lower, upper) == Plus(GrowthAbove(s, upper), GrowthBelow(s, lower))

(* What the shares of a position earned since it was last settled; negative
   amounts make GetTotalRewards panic. *)
Earned(s, share, outside) == Minus(s.accum, Plus(share.value, outside))
TotalRewards(s, share, outside) ==
  Plus(share.unclaimed, Times(Earned(s, share, outside), share.shares))

Share(shares, value, unclaimed) ==
  [shares |-> shares, value |-> value, unclaimed |-> unclaimed]

(* SetAccumulatorPositionFeeAccumulator: settle the position and change its
   shares; a position that exists only ever loses shares. *)
SetShare(s, id, delta, value, unclaimed, before) ==
  [s EXCEPT !.shares = Put(@, id, Share(before + delta, value, unclaimed)),
            !.totalShares = @ + delta]
SetFeeAccumulator(s, id, outside, delta) ==
  CASE id \notin DOMAIN s.shares ->
         Check(SetShare(s, id, delta, Minus(s.accum, outside), NoCoins, 0), delta > 0)
    [] OTHER ->
         Check(SetShare(s, id, delta, Minus(s.accum, outside),
                        TotalRewards(s, s.shares[id], outside), s.shares[id].shares),
               /\ s.shares[id].shares + delta >= 0
               /\ Covers(Earned(s, s.shares[id], outside), NoCoins))

------------------------------------------------------------------------------
(* Positions *)

ActualAmounts(p, lower, upper, lo, hi, delta, up) ==
  CASE p.tick < lower -> Coins(CalcAmountBaseDelta(delta, lo, hi, up), 0)
    [] p.tick >= upper -> Coins(0, CalcAmountQuoteDelta(delta, lo, hi, up))
    [] OTHER -> Coins(CalcAmountBaseDelta(delta, p.sqrtPrice, hi, up),
                      CalcAmountQuoteDelta(delta, p.sqrtPrice, lo, up))
CalcActualAmounts(p, lower, upper, delta) ==
  ActualAmounts(p, lower, upper, TickSqrtPrice[lower], TickSqrtPrice[upper], delta, delta > 0)

Whole(amounts) == [d \in Denoms |-> Absolute(TruncateInt(amounts[d]))]

Position(lower, upper, liquidity) ==
  [lower |-> lower, upper |-> upper, liquidity |-> liquidity]

(* UpdatePosition: ticks, position, liquidity at the current tick, shares.
   The amounts to pay or refund are left in s.amounts. *)
StorePosition(s, id, pos, delta) ==
  [s EXCEPT !.positions = Put(@, id, Position(pos.lower, pos.upper, pos.liquidity + delta)),
            !.pool.liquidity = IF InRange(s.pool.tick, pos.lower, pos.upper)
                               THEN @ + delta ELSE @,
            !.amounts = Whole(CalcActualAmounts(s.pool, pos.lower, pos.upper, delta))]
Settle(s, id, pos, delta) ==
  SetFeeAccumulator(s, id, GrowthOutside(s, pos.lower, pos.upper), delta)
UpdateAt(s, id, pos, delta) ==
  IF delta = 0 \/ pos.liquidity + delta < 0
  THEN Failed(s)
  ELSE Settle(StorePosition(InitOrUpdateTick(InitOrUpdateTick(s, pos.lower, delta, FALSE),
                                             pos.upper, delta, TRUE),
                            id, pos, delta),
              id, pos, delta)
UpdatePosition(s, id, delta) == UpdateAt(s, id, s.positions[id], delta)

(* collectFees: pay the truncated rewards, spread the rest over all shares. *)
Truncated(rewards) == [d \in Denoms |-> TruncateInt(rewards[d])]
DustPerShare(s, rewards, paid) ==
  [d \in Denoms |-> IF s.totalShares = 0 THEN 0
                    ELSE QuoTruncate(rewards[d] - Dec(paid[d]), s.totalShares)]
PayRewards(s, id, shares, outside, rewards, paid) ==
  Check([s EXCEPT
           !.shares = IF shares = 0 THEN Drop(@, {id})
                      ELSE Put(@, id, Share(shares, Minus(s.accum, outside), NoCoins)),
           !.accum = Plus(@, DustPerShare(s, rewards, paid)),
           !.fees = Minus(@, paid)],
        Covers(s.fees, paid))
ClaimRewards(s, id, share, outside) ==
  IF Covers(Earned(s, share, outside), NoCoins)
  THEN PayRewards(s, id, share.shares, outside, TotalRewards(s, share, outside),
                  Truncated(TotalRewards(s, share, outside)))
  ELSE Failed(s)
CollectFees(s, id) ==
  ClaimRewards(s, id, s.shares[id],
               GrowthOutside(s, s.positions[id].lower, s.positions[id].upper))

\* Mutant: the index entry goes too, so that the last position resets the pool.
RemovePositionAndIndex(s, id) ==
  [s EXCEPT !.positions = Drop(@, {id}), !.index = @ \ {id}]

(* RemovePosition deletes the record but not the entries of the two indexes. *)
RemovePosition(s, id) == [s EXCEPT !.positions = Drop(@, {id})]
PoolHasPosition(s) == s.index # {}

(* resetPool would write the pool back as it was read before the update; it
   runs only if the index is empty. *)
ResetIfEmpty(s, p) ==
  IF PoolHasPosition(s) THEN s ELSE [s EXCEPT !.pool = [p EXCEPT !.sqrtPrice = 0, !.tick = 0]]

Refund(s) ==
  Check([s EXCEPT !.balance = Minus(@, s.amounts)], s.ok /\ Covers(s.balance, s.amounts))
Close(s, id, p) ==
  IF s.ok THEN ResetIfEmpty(RemovePosition(CollectFees(s, id), id), p) ELSE s
RemoveTicks(s, pos) ==
  IF s.ok THEN [s EXCEPT !.ticks = Drop(@, EmptyTicks(s, {pos.lower, pos.upper}))] ELSE s

DecreaseLiquidity(s, id, liq) ==
  RemoveTicks(IF liq = s.positions[id].liquidity
              THEN Close(Refund(UpdatePosition(s, id, -liq)), id, s.pool)
              ELSE Refund(UpdatePosition(s, id, -liq)),
              s.positions[id])

(* initFirstPositionForPool *)
InitFirstPosition(s, offer, root) ==
  IF HasTick(root)
  THEN [s EXCEPT !.pool.sqrtPrice = root, !.pool.tick = TickOf(root)]
  ELSE Failed(s)
WithPrice(s, offer) ==
  CASE HasPosition(s.pool) -> s
    [] ~HasPosition(s.pool) /\ (offer["base"] = 0 \/ offer["quote"] = 0) -> Failed(s)
    [] OTHER -> InitFirstPosition(s, offer,
                  ApproxSqrt(Quo(Dec(offer["quote"]), Dec(offer["base"]))))

AppendPosition(s, lower, upper) ==
  [s EXCEPT !.positions = Put(@, s.count, Position(lower, upper, 0)),
            !.index = @ \cup {s.count},
            !.count = @ + 1]
Deposit(s, least) ==
  Check([s EXCEPT !.balance = Plus(@, s.amounts)], s.ok /\ Covers(s.amounts, least))

AddLiquidity(s, lower, upper, delta, least) ==
  IF s.ok /\ delta # 0
  THEN Deposit(UpdatePosition(AppendPosition(s, lower, upper), s.count, delta), least)
  ELSE Failed(s)
AddOffer(s, lower, upper, offer, least) ==
  AddLiquidity(s, lower, upper,
               GetLiquidityFromAmounts(s.pool.sqrtPrice, TickSqrtPrice[lower],
                                       TickSqrtPrice[upper], offer),
               least)
CreatePosition(s, lower, upper, offer, least) ==
  IF offer = NoCoins THEN Failed(s)
  ELSE AddOffer(WithPrice(s, offer), lower, upper, offer, least)

(* IncreaseLiquidity closes the position and opens a larger one. *)
Reopen(s, pos, offer) ==
  IF s.ok
  THEN CreatePosition(s, pos.lower, pos.upper, Plus(s.amounts, offer), s.amounts)
  ELSE s
IncreaseLiquidity(s, id, offer) ==
  IF offer = NoCoins THEN Failed(s)
  ELSE Reopen(DecreaseLiquidity(s, id, s.positions[id].liquidity), s.positions[id], offer)

(* AllocateIncentive, in base coins; a division by zero panics. *)
AllocateIncentive(s) ==
  IF HasPosition(s.pool) /\ s.pool.liquidity # 0
  THEN [s EXCEPT !.accum["base"] = @ + QuoTruncate(Dec(IncentiveAmount), s.pool.liquidity),
                 !.fees["base"] = @ + IncentiveAmount]
  ELSE Failed(s)

------------------------------------------------------------------------------
(* Swaps.  "down" sells base for quote and lowers the price, "up" the other
   way round; "in" and "out" say which amount is given. *)

DenomIn(dir) == IF dir = "down" THEN "base" ELSE "quote"
DenomOut(dir) == IF dir = "down" THEN "quote" ELSE "base"

AmountIn(dir, liq, a, b) ==
  IF dir = "down" THEN CalcAmountBaseDelta(liq, a, b, TRUE) ELSE CalcAmountQuoteDelta(liq, a, b, TRUE)
AmountOut(dir, liq, a, b) ==
  IF dir = "down" THEN CalcAmountQuoteDelta(liq, a, b, FALSE) ELSE CalcAmountBaseDelta(liq, a, b, FALSE)

(* GetNextSqrtPriceFromAmount...: rounded so that the price moves less for
   what is paid and more for what is taken. *)
NextPriceGivenIn(dir, price, liq, amount) ==
  IF dir = "down"
  THEN IF amount = 0 THEN price
       ELSE QuoRoundUp(MulRoundUp(liq, price), MulTruncate(amount, price) + liq)
  ELSE price + QuoTruncate(amount, liq)
NextPriceGivenOut(dir, price, liq, amount) ==
  IF dir = "down"
  THEN price - QuoRoundUp(amount, liq)
  ELSE QuoRoundUp(MulRoundUp(liq, price), liq - MulRoundUp(price, amount))
(* A denominator that is not positive panics or gives no tick. *)
NextPriceDefined(dir, price, liq, amount) ==
  dir = "up" => liq > MulRoundUp(price, amount)

FeeOnTop(amountIn) == MulRoundUp(amountIn, QuoRoundUp(feeRate, One - feeRate))

(* computeFeeChargePerSwapStepOutGivenIn: short of the target, what is not
   spent on the bucket is the fee, unless the pool takes none. *)
FeeGivenIn(reached, rem, in) ==
  CASE feeRate = 0 -> 0
    [] feeRate # 0 /\ reached -> FeeOnTop(in)
    [] OTHER -> rem - in

(* ComputeSwapWithinBucketOutGivenIn and ...InGivenOut: one step towards the
   price of the next tick. *)
Bucket(price, next, in, out, fee, defined) ==
  [price |-> next, in |-> in, out |-> out, fee |-> fee,
   ok |-> defined /\ fee >= 0 /\ (next = price => in = 0 /\ out = 0)]

StepGivenIn(dir, price, next, target, liq, rem, in) ==
  Bucket(price, next, in, AmountOut(dir, liq, next, price),
         FeeGivenIn(next = target, rem, in), TRUE)
StepTo(dir, price, next, target, liq, rem) ==
  StepGivenIn(dir, price, next, target, liq, rem, AmountIn(dir, liq, next, price))
BucketGivenIn(dir, price, target, liq, rem, afterFee) ==
  StepTo(dir, price,
         IF afterFee >= AmountIn(dir, liq, target, price) THEN target
         ELSE NextPriceGivenIn(dir, price, liq, afterFee),
         target, liq, rem)

StepGivenOut(price, next, in, out, rem) ==
  Bucket(price, next, in, Min({rem, out}), FeeOnTop(in), TRUE)
StepOut(dir, price, next, liq, rem) ==
  StepGivenOut(price, next, AmountIn(dir, liq, next, price), AmountOut(dir, liq, next, price), rem)
BucketGivenOut(dir, price, target, liq, rem) ==
  CASE rem >= AmountOut(dir, liq, target, price) -> StepOut(dir, price, target, liq, rem)
    [] OTHER -> IF NextPriceDefined(dir, price, liq, rem)
                THEN StepOut(dir, price, NextPriceGivenOut(dir, price, liq, rem), liq, rem)
                ELSE Bucket(price, price, 0, 0, 0, FALSE)

(* The ticks the iterator has ahead of it. *)
Ahead(s, dir) == {t \in DOMAIN s.ticks : IF dir = "down" THEN t <= s.pool.tick ELSE t > s.pool.tick}
Nearest(S, dir) == IF dir = "down" THEN Max(S) ELSE Min(S)
Passed(dir, price, tickPrice) == IF dir = "down" THEN price < tickPrice ELSE price > tickPrice

(* GetPriceLimit: every swap is limited by the end of all prices, and so is
   the price a step aims at. *)
SqrtPriceLimit(dir) == IF dir = "down" THEN MinSqrtPrice ELSE MaxSqrtPrice
GetSqrtTargetPrice(dir, tickPrice) ==
  IF Passed(dir, tickPrice, SqrtPriceLimit(dir)) THEN SqrtPriceLimit(dir) ELSE tickPrice

\* Mutant: a tick crossed downwards stays the tick of the pool.
NextTickAfterCrossingKept(dir, t) == t

NextTickAfterCrossing(dir, t) == IF dir = "down" THEN t - 1 ELSE t

GetLiquidityDeltaSign(dir, net) == IF dir = "down" THEN -net ELSE net

\* Mutant: a crossed tick keeps its fee growth.
CrossTickKept(s, t, dir, growth) == s.ticks[t]

(* crossTick: what grew on one side of the tick is now on the other. *)
CrossTick(s, t, dir, growth) ==
  [s.ticks[t] EXCEPT !.growth =
     Minus([s.accum EXCEPT ![DenomIn(dir)] = @ + growth], @)]

(* The loop of computeOutAmtGivenIn and computeInAmtGivenOut over the
   SwapState: what remains, what was calculated, price, tick, liquidity, fee
   growth, fees; and the ticks ahead and iterations without progress. *)
SwapState(rem, calc, price, tick, liq, growth, fees) ==
  [rem |-> rem, calc |-> calc, price |-> price, tick |-> tick, liq |-> liq,
   growth |-> growth, fees |-> fees]

Given(kind, b) == IF kind = "in" THEN b.in ELSE b.out
Moved(w, b, kind, growth, tick, liq) ==
  SwapState(w.rem - (IF kind = "in" THEN b.in + b.fee ELSE b.out),
            w.calc + (IF kind = "in" THEN b.out ELSE b.in + b.fee),
            b.price, tick, liq, growth, w.fees + b.fee)
NextBucket(w, target, dir, kind) ==
  IF kind = "in"
  THEN BucketGivenIn(dir, w.price, target, w.liq, w.rem, Mul(w.rem, One - feeRate))
  ELSE BucketGivenOut(dir, w.price, target, w.liq, w.rem)
FeeGrowth(w, b) == w.growth + (IF w.liq = 0 THEN 0 ELSE QuoTruncate(b.fee, w.liq))

(* The bucket is refused: nothing but amounts moved, the price passed the
   tick, or there was no progress for too long; or the new price has no tick. *)
Refused(w, b, dir, target, idle) ==
  \/ ~b.ok
  \/ Passed(dir, b.price, target)
  \/ idle > NoProgressLimit
  \/ b.price \notin {w.price, target} /\ ~HasTick(b.price)

(* The variables of the loop; done when it is left, with the store it leaves. *)
Loop(s, w, ahead, idle, done) ==
  [s |-> s, w |-> w, ahead |-> ahead, idle |-> idle, done |-> done]
Leave(c, s) == [c EXCEPT !.s = s, !.done = TRUE]

(* The rest of an iteration, for the computed bucket b up to tick t. *)
SwapStep(c, dir, kind, t, b, idle, growth) ==
  CASE Refused(c.w, b, dir, TickSqrtPrice[t], idle) -> Leave(c, Failed(c.s))
    [] ~Refused(c.w, b, dir, TickSqrtPrice[t], idle) /\ b.price = TickSqrtPrice[t] ->
         Loop([c.s EXCEPT !.ticks[t] = CrossTick(c.s, t, dir, growth)],
              Moved(c.w, b, kind, growth, NextTickAfterCrossing(dir, t),
                    c.w.liq + GetLiquidityDeltaSign(dir, c.s.ticks[t].net)),
              c.ahead \ {t}, idle, FALSE)
    [] OTHER ->
         Loop(c.s, Moved(c.w, b, kind, growth,
                         IF b.price = c.w.price THEN c.w.tick ELSE TickOf(b.price), c.w.liq),
              c.ahead, idle, FALSE)
SwapTo(c, dir, kind, t, b) ==
  SwapStep(c, dir, kind, t, b, c.idle + (IF Given(kind, b) = 0 THEN 1 ELSE 0), FeeGrowth(c.w, b))
SwapTowards(c, dir, kind, t) ==
  SwapTo(c, dir, kind, t,
         NextBucket(c.w, GetSqrtTargetPrice(dir, TickSqrtPrice[t]), dir, kind))

(* The loop ends when nothing remains, or when the price is at its limit: then
   the swap is carried out for a part of the amount. *)
Ended(w, dir) == ~(w.rem > 0) \/ w.price = SqrtPriceLimit(dir)

Iteration(c, dir, kind) ==
  CASE c.done -> c
    [] ~c.done /\ Ended(c.w, dir) -> Leave(c, Check([c.s EXCEPT !.swap = c.w], c.w.rem >= 0))
    [] ~c.done /\ ~Ended(c.w, dir) /\ c.ahead = {} -> Leave(c, Failed(c.s))
    [] OTHER -> SwapTowards(c, dir, kind, Nearest(c.ahead, dir))

Iterated(start, dir, kind) ==
  LET run[n \in Nat] == IF n = 0 THEN start ELSE Iteration(run[n - 1], dir, kind)
  IN run
LeftWith(c) == IF c.done THEN c.s ELSE Failed(c.s)
SwapLoop(s, w, dir, kind) ==
  LeftWith(Iterated(Loop(s, w, Ahead(s, dir), 0, FALSE), dir, kind)[MaxIterations])

\* Mutant: what the sender pays is rounded down.
PaidRoundedDown(kind, amount, w) ==
  IF kind = "in" THEN TruncateInt(Dec(amount) - w.rem) ELSE TruncateInt(w.calc)

(* AmountIn and AmountOut of the SwapResult *)
Paid(kind, amount, w) ==
  TruncateInt(Ceil(IF kind = "in" THEN Dec(amount) - w.rem ELSE w.calc))
Received(kind, amount, w) ==
  TruncateInt(IF kind = "in" THEN w.calc ELSE Dec(amount) - w.rem)

(* updatePoolForSwap: fees to the fee account, the rest to the pool.  The
   bounds ApplySwap checks the tick against are those of its type, int64. *)
UpdatePoolForSwap(s, dir, paid, received, fees) ==
  Check([s EXCEPT
           !.accum[DenomIn(dir)] = @ + s.swap.growth,
           !.balance[DenomIn(dir)] = @ + paid - fees,
           !.balance[DenomOut(dir)] = @ - received,
           !.fees[DenomIn(dir)] = @ + fees,
           !.pool = [tick |-> s.swap.tick, sqrtPrice |-> s.swap.price,
                     liquidity |-> s.swap.liq],
           !.swap = <<>>],
        /\ paid - fees > 0 /\ received > 0
        /\ received <= s.balance[DenomOut(dir)]
        /\ s.swap.liq >= 0)

Finish(s, dir, kind, amount) ==
  IF s.ok
  THEN UpdatePoolForSwap(s, dir, Paid(kind, amount, s.swap), Received(kind, amount, s.swap),
                         TruncateInt(Ceil(s.swap.fees)))
  ELSE s
Swap(s, dir, kind, amount) ==
  IF HasPosition(s.pool) /\ ~Passed(dir, s.pool.sqrtPrice, SqrtPriceLimit(dir))
  THEN Finish(SwapLoop(s, SwapState(Dec(amount), 0, s.pool.sqrtPrice, s.pool.tick,
                                    s.pool.liquidity, 0, 0),
                       dir, kind),
              dir, kind, amount)
  ELSE Failed(s)

------------------------------------------------------------------------------
(* CreatePool *)
Init ==
  /\ db = [pool |-> [tick |-> 0, sqrtPrice |-> 0, liquidity |-> 0],
           positions |-> <<>>, index |-> {}, count |-> 0,
           ticks |-> <<>>,
           accum |-> NoCoins, totalShares |-> 0, shares |-> <<>>,
           balance |-> NoCoins, fees |-> NoCoins,
           amounts |-> NoCoins, swap |-> <<>>, ok |-> TRUE]
  /\ feeRate \in FeeRates
  /\ steps = 0

(* A message is executed whole or not at all. *)
Commit(s) ==
  /\ s.ok
  /\ db' = [s EXCEPT !.amounts = NoCoins]
  /\ steps' = steps + 1
  /\ UNCHANGED feeRate

Live == DOMAIN db.positions

MsgCreatePosition ==
  /\ db.count < MaxPositions
  /\ \E r \in Ranges, offer \in Deposits :
       \E s \in {CreatePosition(db, r[1], r[2], offer, NoCoins)} : Commit(s)
MsgIncreaseLiquidity ==
  /\ db.count < MaxPositions
  /\ \E id \in Live, offer \in Deposits :
       \E s \in {IncreaseLiquidity(db, id, offer)} : Commit(s)
MsgDecreaseLiquidity ==
  \E id \in Live, f \in Fractions :
    \E s \in {DecreaseLiquidity(db, id, (db.positions[id].liquidity * f.num) \div f.den)} :
      Commit(s)
MsgClaimRewards ==
  \E id \in Live : \E s \in {CollectFees(db, id)} : s # db /\ Commit(s)
SwapExactAmountIn ==
  \E dir \in {"down", "up"}, n \in SwapAmounts :
    \E s \in {Swap(db, dir, "in", n)} : Commit(s)
SwapExactAmountOut ==
  \E dir \in {"down", "up"}, n \in SwapAmounts :
    \E s \in {Swap(db, dir, "out", n)} : Commit(s)
Incentive == \E s \in {AllocateIncentive(db)} : Commit(s)

Next ==
  /\ steps < MaxSteps
  /\ \/ MsgCreatePosition
     \/ MsgIncreaseLiquidity
     \/ MsgDecreaseLiquidity
     \/ MsgClaimRewards
     \/ SwapExactAmountIn
     \/ SwapExactAmountOut
     \/ Incentive

Spec == Init /\ [][Next]_vars

------------------------------------------------------------------------------
TypeOK ==
  /\ db.pool \in [tick : Int, sqrtPrice : Nat, liquidity : Nat]
  /\ DOMAIN db.positions \subseteq db.index
  /\ db.index = 0 .. db.count - 1
  /\ DOMAIN db.ticks \subseteq Ticks
  /\ {db.balance, db.fees, db.accum} \subseteq [Denoms -> Nat]
  /\ steps \in 0 .. MaxSteps

(* The liquidity of some of the positions of a store. *)
LiquidityOf(s, S) == SumFunctionOnSet([id \in DOMAIN s.positions |-> s.positions[id].liquidity], S)

(* After any sequence of deposits, withdrawals and swaps across ticks in both
   directions, the liquidity the pool trades with is that of the positions
   whose range holds the current tick. *)
ActiveLiquidity ==
  db.pool.liquidity =
    LiquidityOf(db, {id \in Live :
                       InRange(db.pool.tick, db.positions[id].lower, db.positions[id].upper)})

(* What positions have at the ticks where they begin and end. *)
Opened(s, t) == LiquidityOf(s, {id \in DOMAIN s.positions : s.positions[id].lower = t})
Closed(s, t) == LiquidityOf(s, {id \in DOMAIN s.positions : s.positions[id].upper = t})
Ends(s) == UNION {{s.positions[id].lower, s.positions[id].upper} : id \in DOMAIN s.positions}

(* The three stores a position is spread over agree: a tick is stored exactly
   while a position ends there, with the sums of their liquidity, and the
   shares of the fee accumulator are the liquidity of the positions. *)
StoresAgree ==
  /\ DOMAIN db.ticks = Ends(db)
  /\ \A t \in DOMAIN db.ticks : /\ db.ticks[t].gross = Opened(db, t) + Closed(db, t)
                                /\ db.ticks[t].net = Opened(db, t) - Closed(db, t)
  /\ DOMAIN db.shares = Live
  /\ \A id \in Live : db.shares[id].shares = db.positions[id].liquidity
  /\ db.totalShares = LiquidityOf(db, Live)

(* The tick and the price of the pool belong together: a swap that stops
   exactly on a tick it crossed downwards leaves the tick below with the price
   of its upper end, and no other state has the price outside its tick. *)
PriceInTick ==
  HasPosition(db.pool) =>
    /\ db.pool.tick \in Ticks => TickSqrtPrice[db.pool.tick] <= db.pool.sqrtPrice
    /\ db.pool.tick + 1 \in Ticks => db.pool.sqrtPrice <= TickSqrtPrice[db.pool.tick + 1]

(* The pool account can always pay back every position: rounding in deposits,
   withdrawals and swaps never lets users take out more than was put in. *)
PositionsCovered ==
  \A d \in Denoms :
    SumFunction([id \in Live |-> Absolute(TruncateInt(
            CalcActualAmounts(db.pool, db.positions[id].lower, db.positions[id].upper,
                              -db.positions[id].liquidity)[d]))])
      <= db.balance[d]

(* No claim ever panics on a negative reward, and the fee account covers what
   all positions may claim, wherever the ticks they ended at were crossed,
   removed and created again. *)
RewardsCovered ==
  LET outside(id) == GrowthOutside(db, db.positions[id].lower, db.positions[id].upper)
  IN /\ \A id \in Live : Covers(Earned(db, db.shares[id], outside(id)), NoCoins)
     /\ \A d \in Denoms :
          SumFunction([id \in Live |->
                         TruncateInt(TotalRewards(db, db.shares[id], outside(id))[d])])
            <= db.fees[d]
==============================================================================
