------------------------- MODULE LiquidityPoolProofs -------------------------
(***************************************************************************)
(* Proofs about LiquidityPool: the price of the pool lies in its tick, the *)
(* stores a position is spread over agree, and the pool trades with the    *)
(* liquidity of the positions around its tick, for every table of prices,  *)
(* all ranges and amounts, and any number of positions and iterations.     *)
(***************************************************************************)
EXTENDS LiquidityPool, SumTheorems

Fields == {"pool", "positions", "index", "count", "ticks", "accum", "totalShares",
           "shares", "balance", "fees", "amounts", "swap", "ok"}
IsStore(s) == DOMAIN s = Fields

-----------------------------------------------------------------------------
(***************************************************************************)
(* Decimals                                                                *)
(***************************************************************************)
\* Quotients are numbers.
LEMMA DivInt ==
    ASSUME NEW a \in Nat, NEW b \in Nat \ {0}
    PROVE  a \div b \in Nat /\ a % b \in Nat
OBVIOUS

\* Rounding to the precision.
LEMMA ChopNat ==
    ASSUME NEW n \in Nat
    PROVE  ChopRound(n) \in Nat
<1>1. n \div Prec \in Nat /\ n % Prec \in Nat
  BY DivInt, PrecAssumption
<1>2. ASSUME NEW q \in Nat PROVE q % 2 \in Nat
  BY DivInt
<1>. QED
  BY <1>1, <1>2 DEF ChopRound, ChopPositive

\* Products and quotients of decimals that are not negative.
LEMMA MulNat ==
    ASSUME NEW a \in Nat, NEW b \in Nat
    PROVE  Mul(a, b) \in Nat
<1>1. a * b \in Nat
  OBVIOUS
<1>. QED
  BY <1>1, ChopNat DEF Mul

\* So are those of decimals, rounded to the nearest.
LEMMA QuoNat ==
    ASSUME NEW a \in Nat, NEW b \in Nat \ {0}
    PROVE  Quo(a, b) \in Nat
<1>1. a * Prec * Prec \in Nat
  BY PrecAssumption
<1>2. TruncDiv(a * Prec * Prec, b) \in Nat
  <2>. DEFINE c == a * Prec * Prec
  <2>. HIDE DEF c
  <2>1. c \in Nat
    BY <1>1 DEF c
  <2>2. c \div b \in Nat
    BY <2>1, DivInt
  <2>. QED
    BY <2>1, <2>2 DEF TruncDiv, c
<1>. QED
  BY <1>2, ChopNat DEF Quo

\* The liquidity a deposit gives is a number.
LEMMA LiquidityNat ==
    ASSUME NEW price \in Nat, NEW lower \in Nat, NEW upper \in Nat,
           NEW offer \in [Denoms -> Nat]
    PROVE  GetLiquidityFromAmounts(price, lower, upper, offer) \in Nat
<1>1. offer["base"] \in Nat /\ offer["quote"] \in Nat /\ Prec \in Nat
  BY PrecAssumption DEF Denoms
<1>2. ASSUME NEW n \in Nat, NEW a \in Nat, NEW b \in Nat
      PROVE  LiquidityBase(n, a, b) \in Nat /\ LiquidityQuote(n, a, b) \in Nat
  <2>1. Dec(n) \in Nat
    BY <1>1 DEF Dec
  <2>2. Mul(Dec(n), Mul(a, b)) \in Nat
    BY <2>1, MulNat
  <2>3. a # b => Absolute(b - a) \in Nat \ {0}
    BY DEF Absolute
  <2>. QED
    BY <2>1, <2>2, <2>3, QuoNat DEF LiquidityBase, LiquidityQuote
<1>3. ASSUME NEW x \in Nat, NEW y \in Nat PROVE Min({x, y}) \in Nat
  BY DEF Min
<1>. QED
  BY <1>1, <1>2, <1>3 DEF GetLiquidityFromAmounts

\* Decimals that may be negative.
LEMMA TruncDivInt ==
    ASSUME NEW a \in Int, NEW b \in Nat \ {0}
    PROVE  TruncDiv(a, b) \in Int
<1>1. ASSUME NEW c \in Nat PROVE c \div b \in Nat
  BY DivInt
<1>. QED
  BY <1>1 DEF TruncDiv

\* Rounding to the nearest, of a product that may be negative.
LEMMA ChopInt ==
    ASSUME NEW n \in Int
    PROVE  ChopRound(n) \in Int
<1>1. CASE n >= 0
  BY <1>1, ChopNat
<1>2. CASE ~(n >= 0)
  <2>1. -n \in Nat /\ -n >= 0
    BY <1>2
  <2>2. ChopRound(-n) = ChopPositive(-n) /\ ChopRound(-n) \in Nat
    <3>. DEFINE m == -n
    <3>. HIDE DEF m
    <3>. QED
      BY <2>1, ChopNat DEF ChopRound, m
  <2>3. ChopRound(n) = -ChopPositive(-n)
    BY <1>2 DEF ChopRound
  <2>. QED
    BY <2>2, <2>3
<1>. QED
  BY <1>1, <1>2

\* Mul and Quo of what may be negative.
LEMMA MulQuoInt ==
    ASSUME NEW a \in Int, NEW b \in Int
    PROVE  /\ Mul(a, b) \in Int
           /\ b \in Nat \ {0} => Quo(a, b) \in Int
<1>1. a * b \in Int /\ a * Prec * Prec \in Int
  BY PrecAssumption
<1>2. b \in Nat \ {0} => TruncDiv(a * Prec * Prec, b) \in Int
  BY <1>1, TruncDivInt
<1>. QED
  BY <1>1, <1>2, ChopInt DEF Mul, Quo

\* Rounding up what may be negative.
LEMMA RoundedInt ==
    ASSUME NEW a \in Int, NEW up
    PROVE  Rounded(a, up) \in Int
<1>1. (-a) \div Prec \in Int
  BY PrecAssumption
<1>2. CeilDiv(a, Prec) \in Int
  BY <1>1 DEF CeilDiv
<1>3. CeilDiv(a, Prec) * Prec \in Int
  BY <1>2, PrecAssumption
<1>. QED
  BY <1>3 DEF Rounded, Ceil

\* Division that rounds down, up and towards zero.
LEMMA DivBounds ==
    ASSUME NEW a \in Int, NEW b \in Nat \ {0}
    PROVE  a \div b \in Int /\ b * (a \div b) <= a /\ a < b * (a \div b) + b
<1>1. PICK q \in Int : q = a \div b
  OBVIOUS
<1>2. b * q <= a /\ a < b * q + b
  BY <1>1
<1>. QED
  BY <1>1, <1>2

\* A quotient that is rounded up.
LEMMA CeilBounds ==
    ASSUME NEW a \in Int, NEW b \in Nat \ {0}
    PROVE  CeilDiv(a, b) \in Int /\ b * CeilDiv(a, b) >= a /\ b * CeilDiv(a, b) < a + b
<1>1. PICK q \in Int : q = (-a) \div b
  OBVIOUS
<1>2. b * q <= -a /\ -a < b * q + b
  BY <1>1
<1>3. CeilDiv(a, b) = -q /\ b * (-q) = -(b * q)
  BY <1>1 DEF CeilDiv
<1>. QED
  BY <1>2, <1>3

\* A quotient of numbers that is rounded towards zero.
LEMMA TruncBounds ==
    ASSUME NEW a \in Nat, NEW b \in Nat \ {0}
    PROVE  TruncDiv(a, b) \in Nat /\ b * TruncDiv(a, b) <= a /\ a < b * TruncDiv(a, b) + b
<1>1. PICK q \in Int : q = a \div b
  OBVIOUS
<1>2. b * q <= a /\ a < b * q + b
  BY <1>1
<1>3. q >= 0
  BY <1>2
<1>4. TruncDiv(a, b) = q
  BY <1>1 DEF TruncDiv
<1>. QED
  BY <1>2, <1>3, <1>4

\* Rounding to the nearest is off by half a unit at most.
LEMMA ChopBounds ==
    ASSUME NEW n \in Nat
    PROVE  /\ ChopRound(n) \in Nat
           /\ 2 * (Prec * ChopRound(n)) >= 2 * n - Prec
<1>1. PICK q \in Int, rest \in Int : q = n \div Prec /\ rest = n % Prec
  BY PrecAssumption
<1>2. Prec * q + rest = n /\ 0 <= rest /\ rest < Prec
  BY <1>1, PrecAssumption
<1>3. ChopRound(n) \in {q, q + 1} /\ (2 * rest > Prec => ChopRound(n) = q + 1)
  <2>1. PICK two \in {0, 1} : two = q % 2
    OBVIOUS
  <2>2. ChopRound(n) = CASE 2 * rest < Prec -> q
                         [] 2 * rest > Prec -> q + 1
                         [] OTHER -> q + two
    BY <1>1, <2>1 DEF ChopRound, ChopPositive
  <2>. QED
    BY <1>2, <2>1, <2>2, PrecAssumption
<1>4. PICK z \in Int : z = Prec * q
  BY PrecAssumption
<1>5. CASE ChopRound(n) = q
  BY <1>2, <1>3, <1>4, <1>5, PrecAssumption, ChopNat
<1>6. CASE ChopRound(n) = q + 1
  <2>1. Prec * (q + 1) = z + Prec
    BY <1>4, PrecAssumption
  <2>. QED
    BY <1>2, <1>4, <1>6, <2>1, PrecAssumption, ChopNat
<1>. QED
  BY <1>3, <1>5, <1>6

\* Quo falls short of the exact quotient by less than one and a half units.
LEMMA QuoBounds ==
    ASSUME NEW a \in Nat, NEW b \in Nat \ {0}
    PROVE  Quo(a, b) \in Nat /\ 2 * (b * Quo(a, b)) + 3 * b > 2 * (a * Prec)
<1>1. PICK P \in Nat \ {0} : P = Prec
  BY PrecAssumption
<1>2. PICK c \in Nat : c = a * P * P
  BY <1>1
<1>3. PICK y \in Nat : y = TruncDiv(c, b) /\ c < b * y + b
  BY <1>2, TruncBounds
<1>4. PICK q \in Nat : q = Quo(a, b) /\ 2 * (P * q) >= 2 * y - P
  BY <1>1, <1>2, <1>3, ChopBounds DEF Quo
<1>5. b * (2 * (P * q)) >= b * (2 * y - P)
  BY <1>4
<1>6. /\ b * (2 * (P * q)) = P * (2 * (b * q))
      /\ b * (2 * y - P) = 2 * (b * y) - P * b
  BY <1>1
<1>7. b * y \in Int /\ P * b \in Int /\ P * b >= b
  BY <1>1
<1>8. P * (2 * (b * q)) > 2 * c - 2 * b - P * b
  BY <1>2, <1>3, <1>5, <1>6, <1>7
<1>9. P * (2 * (b * q)) + P * (3 * b) > 2 * c
  <2>1. P * (3 * b) = 3 * (P * b)
    OBVIOUS
  <2>2. P * (2 * (b * q)) \in Int
    OBVIOUS
  <2>. QED
    BY <1>7, <1>8, <2>1, <2>2
<1>10. PICK u \in Int, v \in Int : u = 2 * (b * q) + 3 * b /\ v = 2 * (a * P)
  OBVIOUS
<1>11. P * u > P * v
  <2>1. P * u = P * (2 * (b * q)) + P * (3 * b)
    BY <1>10
  <2>2. P * v = 2 * c
    BY <1>2, <1>10
  <2>. QED
    BY <1>9, <2>1, <2>2
<1>12. u > v
  BY <1>11
<1>. QED
  BY <1>1, <1>4, <1>10, <1>12

\* The argument for a price below one that rounds up, in whole numbers: what is
\* paid for that unit of price, q2 at least, is more than what is left, R.
LEMMA RoundingTooDear ==
    ASSUME NEW P \in Nat \ {0}, NEW G \in 1 .. P, NEW L \in Nat, NEW x \in 1 .. P - 1,
           NEW a \in Nat, NEW d \in Nat, NEW R \in Nat,
           NEW m \in Nat, NEW q1 \in Nat, NEW q2 \in Nat,
           L * G >= 10 * (P * P),
           2 * (P * m) >= 2 * L - P,
           2 * ((x + 1) * q1) + 3 * (x + 1) > 2 * (m * P),
           2 * (x * q2) + 3 * x > 2 * (q1 * P),
           2 * (P * a) >= 2 * (R * G) - P,
           a * x < P * d + P, x * d < P
    PROVE  R < q2
<1>1. SUFFICES ASSUME R >= q2 PROVE FALSE
  OBVIOUS
<1>2. PICK P2 \in Nat : P2 = P * P
  OBVIOUS
<1>3. PICK P3 \in Nat : P3 = P2 * P
  OBVIOUS
<1>4. P2 > 0 /\ P3 > 0 /\ P2 >= P
  <2>1. P2 >= P
    BY <1>2
  <2>2. P3 >= P2
    BY <1>2, <1>3, <2>1
  <2>. QED
    BY <2>1, <2>2
<1>5. PICK xx \in Nat : xx = x * x
  OBVIOUS
<1>6. xx < P2
  <2>1. x * x <= x * P /\ x * P < P * P
    OBVIOUS
  <2>. QED
    BY <1>2, <1>5, <2>1
\* What is left is small.
<1>7. a * xx < 2 * P2
  <2>1. PICK ax \in Nat, xd \in Nat, xP \in Nat : ax = a * x /\ xd = x * d /\ xP = x * P
    OBVIOUS
  <2>2. ax + 1 <= P * d + P
    BY <2>1
  <2>3. x * (ax + 1) <= x * (P * d + P)
    BY <2>2
  <2>4. x * (ax + 1) = a * xx + x /\ x * (P * d + P) = P * xd + xP
    BY <1>5, <2>1
  <2>5. P * xd <= P * (P - 1) /\ P * (P - 1) = P2 - P
    BY <1>2, <2>1
  <2>6. xP < P2
    BY <1>2, <2>1
  <2>7. a * xx \in Nat /\ P * xd \in Nat
    OBVIOUS
  <2>. QED
    BY <2>3, <2>4, <2>5, <2>6, <2>7
<1>8. 2 * (R * G * xx) < 5 * P3
  <2>1. PICK RG \in Nat, axx \in Nat, Pa \in Nat : RG = R * G /\ axx = a * xx /\ Pa = P * a
    OBVIOUS
  <2>2. xx * (2 * RG) <= xx * (2 * Pa + P)
    BY <2>1
  <2>3. xx * (2 * Pa + P) = 2 * (P * axx) + P * xx
    BY <2>1
  <2>4. P * axx <= P * (2 * P2 - 1) /\ P * (2 * P2 - 1) = 2 * P3 - P
    BY <1>3, <1>7, <2>1
  <2>5. P * xx <= P * P2 /\ P * P2 = P3
    BY <1>3, <1>6
  <2>6. xx * (2 * RG) = 2 * (R * G * xx)
    BY <2>1
  <2>7. P * axx \in Nat /\ P * xx \in Nat /\ R * G * xx \in Nat
    BY <2>1
  <2>. QED
    BY <2>2, <2>3, <2>4, <2>5, <2>6, <2>7
\* What is paid is large.
<1>9. 2 * (m * G) >= 19 * P
  <2>1. PICK mG \in Nat, LG \in Nat, PG \in Nat : mG = m * G /\ LG = L * G /\ PG = P * G
    OBVIOUS
  <2>2. G * (2 * (P * m)) >= G * (2 * L - P)
    OBVIOUS
  <2>3. G * (2 * (P * m)) = P * (2 * mG) /\ G * (2 * L - P) = 2 * LG - PG
    BY <2>1
  <2>4. PG <= P2
    BY <1>2, <2>1
  <2>5. P * (2 * mG) >= 19 * P2
    BY <1>2, <2>1, <2>2, <2>3, <2>4
  <2>6. P * (2 * mG) >= P * (19 * P)
    BY <1>2, <2>5
  <2>7. 2 * mG \in Int /\ 19 * P \in Int
    OBVIOUS
  <2>. QED
    BY <2>1, <2>6, <2>7
<1>10. 4 * (x * q1) > 2 * (m * P) - 3 * P
  <2>1. PICK xq \in Nat : xq = x * q1
    OBVIOUS
  <2>2. (x + 1) * q1 = xq + q1 /\ q1 <= xq
    BY <2>1
  <2>3. m * P \in Int
    OBVIOUS
  <2>. QED
    BY <2>1, <2>2, <2>3
<1>11. 4 * (xx * q2) > 2 * (m * P2) - 9 * P2
  <2>1. PICK A \in Nat, B \in Nat, M \in Nat : A = x * q2 /\ B = x * q1 /\ M = m * P
    OBVIOUS
  <2>2. x * (2 * A + 3 * x) >= x * (2 * (q1 * P))
    BY <2>1
  <2>3. x * (2 * A + 3 * x) = 2 * (xx * q2) + 3 * xx /\ x * (2 * (q1 * P)) = 2 * (P * B)
    BY <1>5, <2>1
  <2>4. P * (4 * B) >= P * (2 * M - 3 * P)
    BY <1>10, <2>1
  <2>5. P * (4 * B) = 4 * (P * B) /\ P * (2 * M - 3 * P) = 2 * (m * P2) - 3 * P2
    BY <1>2, <2>1
  <2>6. xx * q2 \in Int /\ P * B \in Int /\ m * P2 \in Int
    OBVIOUS
  <2>. QED
    BY <1>6, <2>2, <2>3, <2>4, <2>5, <2>6
<1>12. 4 * (q2 * G * xx) > 10 * P3
  <2>1. PICK X \in Nat, Y \in Nat : X = xx * q2 /\ Y = m * P2
    OBVIOUS
  <2>2. G * (4 * X) >= G * (2 * Y - 9 * P2 + 1)
    BY <1>11, <2>1
  <2>3. G * (4 * X) = 4 * (q2 * G * xx)
    BY <2>1
  <2>4. G * (2 * Y - 9 * P2 + 1) = P2 * (2 * (m * G)) - 9 * (G * P2) + G
    BY <2>1
  <2>5. P2 * (2 * (m * G)) >= P2 * (19 * P) /\ P2 * (19 * P) = 19 * P3
    BY <1>3, <1>9
  <2>6. G * P2 <= P * P2 /\ P * P2 = P3
    BY <1>3
  <2>7. q2 * G * xx \in Int /\ P2 * (2 * (m * G)) \in Int /\ G * P2 \in Int
    OBVIOUS
  <2>. QED
    BY <2>2, <2>3, <2>4, <2>5, <2>6, <2>7
<1>13. q2 * G * xx <= R * G * xx
  <2>1. PICK z \in Nat : z = G * xx
    OBVIOUS
  <2>2. q2 * z <= R * z
    BY <1>1
  <2>. QED
    BY <2>1, <2>2
<1>14. q2 * G * xx \in Int /\ R * G * xx \in Int
  OBVIOUS
<1>. QED
  BY <1>4, <1>8, <1>12, <1>13, <1>14

-----------------------------------------------------------------------------
(***************************************************************************)
(* The loop of a swap: the recursion has a solution, so that what every    *)
(* iteration keeps holds of all of them                                    *)
(***************************************************************************)
IsRun(g, N, c, dir, kind) ==
    g = [n \in 0 .. N |-> IF n = 0 THEN c ELSE Iteration(g[n - 1], dir, kind)]

\* The entries of a run.
LEMMA RunAt ==
    ASSUME NEW c, NEW dir, NEW kind, NEW g, NEW N \in Nat, IsRun(g, N, c, dir, kind),
           NEW n \in 0 .. N
    PROVE  /\ n = 0 => g[n] = c
           /\ n # 0 => n - 1 \in 0 .. N /\ g[n] = Iteration(g[n - 1], dir, kind)
<1>1. g[n] = IF n = 0 THEN c ELSE Iteration(g[n - 1], dir, kind)
  BY DEF IsRun
<1>. QED
  BY <1>1

\* Two runs agree as far as both go.
LEMMA RunsAgree ==
    ASSUME NEW c, NEW dir, NEW kind,
           NEW g, NEW N \in Nat, IsRun(g, N, c, dir, kind),
           NEW h, NEW M \in Nat, IsRun(h, M, c, dir, kind),
           NEW n \in 0 .. N, n \in 0 .. M
    PROVE  g[n] = h[n]
<1>1. SUFFICES ASSUME g[n] # h[n] PROVE FALSE
  OBVIOUS
<1>. DEFINE Bad == {k \in Nat : k \in 0 .. N /\ k \in 0 .. M /\ g[k] # h[k]}
<1>2. Bad # {} /\ Bad \subseteq Nat
  BY <1>1
<1>3. PICK k \in Bad : \A j \in Bad : k <= j
  <2>. HIDE DEF Bad
  <2>. QED
    BY <1>2, LeastNatural
<1>4. k \in 0 .. N /\ k \in 0 .. M /\ g[k] # h[k]
  OBVIOUS
<1>5. k # 0
  BY <1>4, RunAt
<1>6. /\ k - 1 \in 0 .. N /\ g[k] = Iteration(g[k - 1], dir, kind)
      /\ k - 1 \in 0 .. M /\ h[k] = Iteration(h[k - 1], dir, kind)
  BY <1>4, <1>5, RunAt
<1>7. g[k - 1] = h[k - 1]
  <2>1. k - 1 \in Nat /\ ~(k <= k - 1)
    BY <1>6
  <2>2. k - 1 \notin Bad
    <3>. HIDE DEF Bad
    <3>. QED
      BY <1>3, <2>1
  <2>. QED
    BY <1>6, <2>1, <2>2
<1>. QED
  BY <1>4, <1>6, <1>7

\* A run of any length exists.
LEMMA RunExists ==
    ASSUME NEW c, NEW dir, NEW kind, NEW N \in Nat
    PROVE  \E g : IsRun(g, N, c, dir, kind)
<1>1. SUFFICES ASSUME ~ \E g : IsRun(g, N, c, dir, kind) PROVE FALSE
  OBVIOUS
<1>. DEFINE Bad == {k \in Nat : ~ \E g : IsRun(g, k, c, dir, kind)}
<1>2. Bad # {} /\ Bad \subseteq Nat
  BY <1>1
<1>3. PICK k \in Bad : \A j \in Bad : k <= j
  <2>. HIDE DEF Bad
  <2>. QED
    BY <1>2, LeastNatural
<1>4. k # 0
  <2>1. SUFFICES ASSUME k = 0 PROVE FALSE
    OBVIOUS
  <2>. DEFINE z == [n \in 0 .. 0 |-> c]
  <2>2. IsRun(z, 0, c, dir, kind)
    <3>1. \A n \in 0 .. 0 : n = 0
      OBVIOUS
    <3>. QED
      BY <3>1 DEF IsRun
  <2>. QED
    BY <2>1, <2>2
<1>5. k - 1 \in Nat /\ k \in Nat
  BY <1>4
<1>6. PICK g : IsRun(g, k - 1, c, dir, kind)
  <2>1. ~(k <= k - 1)
    BY <1>5
  <2>2. k - 1 \notin Bad
    <3>. HIDE DEF Bad
    <3>. QED
      BY <1>3, <1>5, <2>1
  <2>. QED
    BY <1>5, <2>2
<1>. DEFINE h == [n \in 0 .. k |-> IF n = k THEN Iteration(g[k - 1], dir, kind) ELSE g[n]]
<1>7. ASSUME NEW n \in 0 .. k
      PROVE  h[n] = IF n = 0 THEN c ELSE Iteration(h[n - 1], dir, kind)
  <2>1. CASE n = k
    <3>1. h[k - 1] = g[k - 1] /\ h[k] = Iteration(g[k - 1], dir, kind)
      BY <1>5
    <3>. QED
      BY <1>4, <2>1, <3>1
  <2>2. CASE n # k
    <3>1. n \in 0 .. k - 1 /\ h[n] = g[n]
      BY <1>5, <2>2
    <3>2. n # 0 => n - 1 # k /\ n - 1 \in 0 .. k
      BY <1>5, <3>1
    <3>3. n # 0 => h[n - 1] = g[n - 1]
      BY <3>2
    <3>4. /\ n = 0 => g[n] = c
          /\ n # 0 => g[n] = Iteration(g[n - 1], dir, kind)
      BY <1>5, <1>6, <3>1, RunAt
    <3>. HIDE DEF h
    <3>. QED
      BY <3>1, <3>3, <3>4
  <2>. QED
    BY <2>1, <2>2
<1>8. IsRun(h, k, c, dir, kind)
  <2>1. DOMAIN h = 0 .. k /\ h = [n \in DOMAIN h |-> h[n]]
    OBVIOUS
  <2>. HIDE DEF h
  <2>. QED
    BY <1>7, <2>1 DEF IsRun
<1>. QED
  BY <1>8

\* The iterations of the loop, one after the other.
LEMMA IteratedUnfold ==
    ASSUME NEW c, NEW dir, NEW kind
    PROVE  /\ Iterated(c, dir, kind)[0] = c
           /\ \A n \in Nat : Iterated(c, dir, kind)[n + 1]
                               = Iteration(Iterated(c, dir, kind)[n], dir, kind)
<1>. DEFINE Sol(k) == CHOOSE g : IsRun(g, k, c, dir, kind)
            f == [n \in Nat |-> Sol(n)[n]]
            Solves(h) == h = [n \in Nat |-> IF n = 0 THEN c ELSE Iteration(h[n - 1], dir, kind)]
<1>1. \A k \in Nat : IsRun(Sol(k), k, c, dir, kind)
  BY RunExists, Zenon
<1>. HIDE DEF Sol
<1>2. ASSUME NEW n \in Nat
      PROVE  f[n] = IF n = 0 THEN c ELSE Iteration(f[n - 1], dir, kind)
  <2>1. n \in 0 .. n
    OBVIOUS
  <2>2. /\ n = 0 => Sol(n)[n] = c
        /\ n # 0 => Sol(n)[n] = Iteration(Sol(n)[n - 1], dir, kind)
    BY <1>1, <2>1, RunAt
  <2>3. ASSUME n # 0 PROVE Sol(n)[n - 1] = Sol(n - 1)[n - 1] /\ n - 1 \in Nat
    <3>1. n - 1 \in Nat /\ n - 1 \in 0 .. n /\ n - 1 \in 0 .. n - 1
      BY <2>3
    <3>2. IsRun(Sol(n), n, c, dir, kind) /\ IsRun(Sol(n - 1), n - 1, c, dir, kind)
      BY <1>1, <3>1
    <3>. QED
      BY <3>1, <3>2, RunsAgree
  <2>. QED
    BY <2>2, <2>3
<1>3. Solves(f)
  <2>1. DOMAIN f = Nat /\ f = [n \in DOMAIN f |-> f[n]]
    OBVIOUS
  <2>. HIDE DEF f
  <2>. QED
    BY <1>2, <2>1
<1>4. Iterated(c, dir, kind) = CHOOSE h : Solves(h)
  BY Zenon DEF Iterated
<1>5. Solves(Iterated(c, dir, kind))
  <2>. HIDE DEF Solves, f
  <2>. QED
    BY <1>3, <1>4, Zenon
<1>6. \A n \in Nat : Iterated(c, dir, kind)[n]
                       = IF n = 0 THEN c ELSE Iteration(Iterated(c, dir, kind)[n - 1], dir, kind)
  <2>. DEFINE r == Iterated(c, dir, kind)
  <2>1. r = [n \in Nat |-> IF n = 0 THEN c ELSE Iteration(r[n - 1], dir, kind)]
    BY <1>5
  <2>. HIDE DEF r
  <2>2. \A n \in Nat : r[n] = IF n = 0 THEN c ELSE Iteration(r[n - 1], dir, kind)
    BY <2>1
  <2>. QED
    BY <2>2 DEF r
<1>7. ASSUME NEW n \in Nat PROVE n + 1 \in Nat /\ n + 1 # 0 /\ (n + 1) - 1 = n
  OBVIOUS
<1>. QED
  BY <1>6, <1>7

-----------------------------------------------------------------------------
(***************************************************************************)
(* Ticks and prices                                                        *)
(***************************************************************************)
\* A finite set of numbers has a greatest and a least one.
LEMMA MaxMin ==
    ASSUME NEW S, IsFiniteSet(S), S \subseteq Int, S # {}
    PROVE  /\ Max(S) \in S /\ \A y \in S : Max(S) >= y
           /\ Min(S) \in S /\ \A y \in S : Min(S) <= y
<1>. DEFINE Good == {T \in SUBSET S : T # {} => /\ \E x \in T : \A y \in T : x >= y
                                               /\ \E x \in T : \A y \in T : x <= y}
<1>1. {} \in Good
  OBVIOUS
<1>2. ASSUME NEW T \in SUBSET S, NEW z \in S \ T, T \in Good
      PROVE  T \cup {z} \in Good
  <2>1. CASE T = {}
    BY <2>1
  <2>2. CASE T # {}
    <3>1. PICK a \in T : \A y \in T : a >= y
      BY <1>2, <2>2
    <3>2. PICK b \in T : \A y \in T : b <= y
      BY <1>2, <2>2
    <3>3. \E x \in T \cup {z} : \A y \in T \cup {z} : x >= y
      <4>1. CASE a >= z
        BY <3>1, <4>1
      <4>2. CASE ~(a >= z)
        <5>1. \A y \in T \cup {z} : z >= y
          BY <3>1, <4>2
        <5>. QED
          BY <5>1
      <4>. QED
        BY <4>1, <4>2
    <3>4. \E x \in T \cup {z} : \A y \in T \cup {z} : x <= y
      <4>1. CASE b <= z
        BY <3>2, <4>1
      <4>2. CASE ~(b <= z)
        <5>1. \A y \in T \cup {z} : z <= y
          BY <3>2, <4>2
        <5>. QED
          BY <5>1
      <4>. QED
        BY <4>1, <4>2
    <3>. QED
      BY <3>3, <3>4
  <2>. QED
    BY <2>1, <2>2
<1>3. S \in Good
  <2>. HIDE DEF Good
  <2>. QED
    BY <1>1, <1>2, SubsetInduction
<1>. QED
  BY <1>3 DEF Max, Min

\* Ticks up to the current one have at most the price, those above at least.
InTick(tick, price) ==
    \A u \in Ticks : /\ u <= tick => TickSqrtPrice[u] <= price
                     /\ u > tick => price <= TickSqrtPrice[u]

\* Prices are ordered as their ticks.
LEMMA PricesOrdered ==
    ASSUME NEW t \in Ticks, NEW u \in Ticks
    PROVE  /\ t \in Int /\ TickSqrtPrice[t] \in Nat \ {0}
           /\ u \in Int /\ TickSqrtPrice[u] \in Nat \ {0}
           /\ t <= u <=> TickSqrtPrice[t] <= TickSqrtPrice[u]
           /\ t < u <=> TickSqrtPrice[t] < TickSqrtPrice[u]
<1>1. /\ t \in Int /\ TickSqrtPrice[t] \in Nat \ {0}
      /\ u \in Int /\ TickSqrtPrice[u] \in Nat \ {0}
  BY PoolAssumption
<1>2. /\ t < u => TickSqrtPrice[t] < TickSqrtPrice[u]
      /\ u < t => TickSqrtPrice[u] < TickSqrtPrice[t]
  BY PoolAssumption
<1>3. t = u \/ t < u \/ u < t
  BY <1>1
<1>. QED
  BY <1>1, <1>2, <1>3

\* What CalculateSqrtPriceToTick returns is the tick of the price.
LEMMA TickOfPrice ==
    ASSUME NEW price, HasTick(price)
    PROVE  /\ TickOf(price) \in Int /\ price \in Nat \ {0}
           /\ InTick(TickOf(price), price)
           /\ \A u \in Ticks : u <= TickOf(price) <=> TickSqrtPrice[u] <= price
<1>. DEFINE S == {t \in Ticks : TickSqrtPrice[t] <= price}
<1>1. PICK t \in Ticks : TickSqrtPrice[t] <= price
  BY DEF HasTick
<1>2. IsFiniteSet(S) /\ S \subseteq Int /\ S # {}
  BY <1>1, PoolAssumption, FS_Subset
<1>3. Max(S) \in S /\ \A y \in S : Max(S) >= y
  <2>. HIDE DEF S
  <2>. QED
    BY <1>2, MaxMin
<1>4. TickOf(price) = Max(S)
  BY DEF TickOf
<1>5. price \in Nat \ {0}
  BY <1>1, PoolAssumption DEF HasTick
<1>. DEFINE m == Max(S)
<1>6. m \in Ticks /\ TickSqrtPrice[m] <= price /\ \A y \in Ticks : TickSqrtPrice[y] <= price => m >= y
  BY <1>3
<1>. HIDE DEF m
<1>7. ASSUME NEW u \in Ticks
      PROVE  /\ TickSqrtPrice[u] \in Nat
             /\ u <= m <=> TickSqrtPrice[u] <= price
             /\ u > m => price <= TickSqrtPrice[u]
  <2>1. /\ m \in Int /\ TickSqrtPrice[m] \in Nat /\ u \in Int /\ TickSqrtPrice[u] \in Nat
        /\ u <= m <=> TickSqrtPrice[u] <= TickSqrtPrice[m]
    BY <1>6, PricesOrdered
  <2>2. TickSqrtPrice[u] <= price => m >= u
    BY <1>6
  <2>. QED
    BY <1>5, <1>6, <2>1, <2>2
<1>8. m \in Int
  BY <1>6, PricesOrdered
<1>9. InTick(m, price)
  BY <1>7 DEF InTick
<1>. QED
  BY <1>4, <1>5, <1>7, <1>8, <1>9 DEF m

\* A swap that stops on a tick: the price is in the tick below when it came
\* from above, and in the tick itself when it came from below.
LEMMA CrossedInTick ==
    ASSUME NEW t \in Ticks, NEW dir
    PROVE  /\ NextTickAfterCrossing(dir, t) \in Int
           /\ InTick(NextTickAfterCrossing(dir, t), TickSqrtPrice[t])
<1>1. t \in Int /\ TickSqrtPrice[t] \in Nat
  BY PoolAssumption
<1>2. NextTickAfterCrossing(dir, t) \in {t - 1, t}
  BY DEF NextTickAfterCrossing
<1>. DEFINE k == NextTickAfterCrossing(dir, t)
<1>. HIDE DEF k
<1>3. ASSUME NEW u \in Ticks
      PROVE  /\ u <= k => TickSqrtPrice[u] <= TickSqrtPrice[t]
             /\ u > k => TickSqrtPrice[t] <= TickSqrtPrice[u]
  <2>1. /\ u \in Int /\ u <= t <=> TickSqrtPrice[u] <= TickSqrtPrice[t]
        /\ t <= u <=> TickSqrtPrice[t] <= TickSqrtPrice[u]
    BY PricesOrdered
  <2>. QED
    BY <1>1, <1>2, <2>1 DEF k
<1>. QED
  BY <1>1, <1>2, <1>3 DEF InTick, k

-----------------------------------------------------------------------------
(***************************************************************************)
(* Buckets: the price moves in the direction of the swap                   *)
(***************************************************************************)
\* The amounts of a bucket are numbers, and nothing without liquidity.
LEMMA DeltasNat ==
    ASSUME NEW liq \in Nat, NEW a \in Nat \ {0}, NEW b \in Nat \ {0}, NEW up \in BOOLEAN
    PROVE  /\ CalcAmountBaseDelta(liq, a, b, up) \in Nat
           /\ CalcAmountQuoteDelta(liq, a, b, up) \in Nat
           /\ liq = 0 => /\ CalcAmountBaseDelta(liq, a, b, up) = 0
                         /\ CalcAmountQuoteDelta(liq, a, b, up) = 0
<1>1. Absolute(b - a) \in Nat
  BY DEF Absolute
<1>2. PICK x \in Nat, y \in Nat : x = Absolute(b - a) /\ y = Mul(x, liq)
  BY <1>1, MulNat
<1>3. Max({a, b}) \in Nat \ {0} /\ Min({a, b}) \in Nat \ {0}
  <2>1. /\ \E u \in {a, b} : \A v \in {a, b} : u >= v
        /\ \E u \in {a, b} : \A v \in {a, b} : u <= v
    OBVIOUS
  <2>. QED
    BY <2>1 DEF Max, Min
<1>4. PICK g \in Nat \ {0}, h \in Nat \ {0} : g = Max({a, b}) /\ h = Min({a, b})
  BY <1>3
<1>5. Quo(y, g) \in Nat /\ Quo(Quo(y, g), h) \in Nat
  BY QuoNat
<1>6. ASSUME NEW n \in Nat PROVE Rounded(n, up) \in Nat /\ (n = 0 => Rounded(n, up) = 0)
  <2>0. n \in Int
    OBVIOUS
  <2>1. PICK c \in Int : c = CeilDiv(n, Prec) /\ Prec * c >= n /\ Prec * c < n + Prec
    BY <2>0, CeilBounds, PrecAssumption
  <2>2. c >= 0 /\ (n = 0 => c = 0)
    BY <2>1, PrecAssumption
  <2>3. c * Prec \in Nat /\ (n = 0 => c * Prec = 0)
    BY <2>2, PrecAssumption
  <2>. QED
    BY <2>1, <2>3 DEF Rounded, Ceil
<1>7. ChopRound(0) = 0
  <2>1. 0 \div Prec = 0 /\ 0 % Prec = 0
    BY PrecAssumption
  <2>. QED
    BY <2>1, PrecAssumption DEF ChopRound, ChopPositive
<1>8. ASSUME NEW n \in Nat \ {0} PROVE Quo(0, n) = 0
  <2>1. 0 * Prec * Prec = 0 /\ TruncDiv(0, n) \in Nat /\ n * TruncDiv(0, n) <= 0
    BY TruncBounds, PrecAssumption
  <2>2. TruncDiv(0, n) = 0
    BY <2>1
  <2>. QED
    BY <1>7, <2>1, <2>2 DEF Quo
<1>9. liq = 0 => y = 0
  BY <1>2, <1>7 DEF Mul
<1>10. /\ CalcAmountBaseDelta(liq, a, b, up) = Rounded(Quo(Quo(y, g), h), up)
       /\ CalcAmountQuoteDelta(liq, a, b, up) = Rounded(y, up)
  BY <1>2, <1>4 DEF CalcAmountBaseDelta, CalcAmountQuoteDelta
<1>11. y = 0 => Quo(Quo(y, g), h) = 0
  BY <1>8
<1>. QED
  BY <1>5, <1>6, <1>9, <1>10, <1>11

\* The same for what a swap pays and gets in a bucket.
LEMMA AmountsOfBucket ==
    ASSUME NEW liq \in Nat, NEW a \in Nat \ {0}, NEW b \in Nat \ {0}, NEW dir
    PROVE  /\ AmountIn(dir, liq, a, b) \in Nat /\ AmountOut(dir, liq, a, b) \in Nat
           /\ liq = 0 => AmountIn(dir, liq, a, b) = 0 /\ AmountOut(dir, liq, a, b) = 0
BY DeltasNat DEF AmountIn, AmountOut

\* Neighbours are one apart.
LEMMA DistanceOne ==
    ASSUME NEW a \in Int, NEW b \in Int, b = a + 1
    PROVE  Absolute(a - b) = 1
<1>1. PICK z \in Int : z = a - b
  OBVIOUS
<1>2. z < 0
  BY <1>1
<1>3. ~(z < 0 - 1) /\ ~(z > 0 - 1)
  BY <1>1
<1>4. -z = 1
  BY <1>3
<1>5. Absolute(z) = -z
  BY <1>2 DEF Absolute
<1>. QED
  BY <1>1, <1>4, <1>5

\* The fee rate is one a pool is created with.
Rated == feeRate \in 0 .. One - 1

\* Selling base for quote with enough liquidity: if the next price rounds up to
\* one above the current, then the bucket costs more than what remains.
LEMMA RoundedUpRefused ==
    ASSUME Rated, NEW price \in Nat \ {0}, NEW liq \in Nat \ {0}, NEW rem \in Nat,
           price >= One \/ liq * (One - feeRate) >= 10 * (Prec * Prec),
           NEW amount \in Nat, amount # 0, amount = Mul(rem, One - feeRate),
           NEW next, next = NextPriceGivenIn("down", price, liq, amount)
    PROVE  next \in Nat \ {0} /\ (next > price => AmountIn("down", liq, next, price) > rem)
<1>1. PICK P \in Nat \ {0}, G \in Nat : P = Prec /\ G = One - feeRate /\ G \in 1 .. P
  BY PrecAssumption DEF One, Rated
<1>2. PICK num \in Int : num = MulRoundUp(liq, price) /\ P * num >= liq * price
                         /\ P * num < liq * price + P
  <2>1. liq * price \in Int
    OBVIOUS
  <2>2. MulRoundUp(liq, price) = CeilDiv(liq * price, P)
    BY <1>1 DEF MulRoundUp
  <2>. QED
    BY <2>1, <2>2, CeilBounds
<1>3. PICK d \in Nat : d = MulTruncate(amount, price) /\ P * d <= amount * price
                       /\ amount * price < P * d + P
  <2>1. amount * price \in Nat
    OBVIOUS
  <2>2. MulTruncate(amount, price) = TruncDiv(amount * price, P)
    BY <1>1 DEF MulTruncate
  <2>. QED
    BY <2>1, <2>2, TruncBounds
<1>4. PICK den \in Nat \ {0} : den = d + liq
  OBVIOUS
<1>5. PICK n \in Int : n = next /\ den * n >= num * P /\ den * n < num * P + den
  <2>1. next = CeilDiv(num * P, den)
    BY <1>1, <1>2, <1>3, <1>4 DEF NextPriceGivenIn, QuoRoundUp
  <2>2. num * P \in Int
    BY <1>1
  <2>. QED
    BY <2>1, <2>2, CeilBounds
<1>6. num * P > 0
  BY <1>2
<1>7. n > 0
  BY <1>5, <1>6
<1>8. SUFFICES ASSUME n > price PROVE AmountIn("down", liq, n, price) > rem
  BY <1>5, <1>7
<1>9. PICK lx \in Nat, dx \in Nat, np \in Int : lx = liq * price /\ dx = price * d /\ np = num * P
  OBVIOUS
<1>10. dx < P
  <2>1. den * n >= den * (price + 1)
    BY <1>8
  <2>2. den * (price + 1) = dx + lx + den
    BY <1>4, <1>9
  <2>3. den * n \in Int
    OBVIOUS
  <2>4. dx + lx < np
    BY <1>5, <1>9, <2>1, <2>2, <2>3
  <2>. QED
    BY <1>2, <1>9, <2>4
<1>11. amount * price >= price
  OBVIOUS
<1>12. price < P
  <2>1. SUFFICES ASSUME price >= P PROVE FALSE
    OBVIOUS
  <2>2. P * d > 0
    BY <1>3, <1>11, <2>1
  <2>3. d >= 1
    BY <2>2
  <2>4. dx >= price
    BY <1>9, <2>3
  <2>. QED
    BY <1>10, <2>1, <2>4
<1>13. liq * G >= 10 * (P * P)
  BY <1>1, <1>12 DEF One
<1>14. liq > P
  <2>1. liq * G <= liq * P
    BY <1>1
  <2>2. SUFFICES ASSUME liq <= P PROVE FALSE
    OBVIOUS
  <2>3. liq * P <= P * P /\ P * P > 0
    BY <2>2
  <2>4. liq * G \in Int /\ liq * P \in Int
    OBVIOUS
  <2>. QED
    BY <1>13, <2>1, <2>3, <2>4
<1>15. n = price + 1
  <2>1. SUFFICES ASSUME n >= price + 2 PROVE FALSE
    BY <1>8
  <2>2. den * n >= den * (price + 2) /\ den * (price + 2) = dx + lx + 2 * den
    BY <1>4, <1>9, <2>1
  <2>3. den * n \in Int
    OBVIOUS
  <2>4. dx + lx + den < np
    BY <1>5, <1>9, <2>2, <2>3
  <2>. QED
    BY <1>2, <1>4, <1>9, <1>14, <2>4
<1>16. PICK m \in Nat : m = Mul(1, liq) /\ 2 * (P * m) >= 2 * liq - P
  BY <1>1, ChopBounds DEF Mul
<1>17. PICK q1 \in Nat : q1 = Quo(m, price + 1)
                         /\ 2 * ((price + 1) * q1) + 3 * (price + 1) > 2 * (m * P)
  <2>1. PICK y \in Nat \ {0} : y = price + 1
    OBVIOUS
  <2>2. Quo(m, y) \in Nat /\ 2 * (y * Quo(m, y)) + 3 * y > 2 * (m * P)
    BY <1>1, QuoBounds
  <2>. QED
    BY <2>1, <2>2
<1>18. PICK q2 \in Nat : q2 = Quo(q1, price)
                         /\ 2 * (price * q2) + 3 * price > 2 * (q1 * P)
  BY <1>1, QuoBounds
<1>19. 2 * (P * amount) >= 2 * (rem * G) - P
  BY <1>1, ChopBounds DEF Mul
<1>20. rem < q2
  <2>1. amount * price < P * d + P /\ price * d < P /\ price \in 1 .. P - 1
    BY <1>3, <1>9, <1>10, <1>12
  <2>. QED
    BY <1>1, <1>13, <1>16, <1>17, <1>18, <1>19, <2>1, RoundingTooDear
<1>21. AmountIn("down", liq, n, price) = Ceil(q2)
  <2>1. Absolute(price - n) = 1
    BY <1>15, DistanceOne
  <2>2. Max({n, price}) = price + 1 /\ Min({n, price}) = price
    <3>1. \A x \in {n, price} : (\A y \in {n, price} : x >= y) <=> x = price + 1
      BY <1>15
    <3>2. \A x \in {n, price} : (\A y \in {n, price} : x <= y) <=> x = price
      BY <1>15
    <3>3. price + 1 \in {n, price}
      BY <1>15
    <3>. QED
      BY <3>1, <3>2, <3>3 DEF Max, Min
  <2>. QED
    BY <1>16, <1>17, <1>18, <2>1, <2>2 DEF AmountIn, CalcAmountBaseDelta, Rounded
<1>22. Ceil(q2) \in Int /\ Ceil(q2) >= q2
  <2>0. q2 \in Int
    OBVIOUS
  <2>1. PICK c \in Int : c = CeilDiv(q2, P) /\ P * c >= q2
    BY <2>0, CeilBounds
  <2>2. Ceil(q2) = P * c
    BY <1>1, <2>1 DEF Ceil
  <2>. QED
    BY <2>1, <2>2
<1>. QED
  BY <1>20, <1>21, <1>22

\* What BucketGivenIn and BucketGivenOut promise: the price moves in the
\* direction of the swap or not at all, unless the bucket is too dear, and the
\* amounts are numbers.
Moving(b, price, dir, dear) ==
    /\ b.price \in Int
    /\ dear \/ IF dir = "down" THEN b.price <= price ELSE b.price >= price
    /\ b.price > 0 => b.in \in Int /\ b.out \in Int /\ b.fee \in Nat

\* A fee on top of an amount is a number.
LEMMA FeeNat ==
    ASSUME Rated, NEW n \in Nat
    PROVE  FeeOnTop(n) \in Nat
<1>1. PICK G \in Nat \ {0} : G = One - feeRate
  BY PrecAssumption DEF One, Rated
<1>2. ASSUME NEW a \in Nat, NEW b \in Nat \ {0} PROVE CeilDiv(a, b) \in Nat
  <2>0. a \in Int
    OBVIOUS
  <2>1. PICK c \in Int : c = CeilDiv(a, b) /\ b * c >= a
    BY <2>0, CeilBounds
  <2>2. c >= 0
    <3>1. SUFFICES ASSUME c < 0 PROVE FALSE
      OBVIOUS
    <3>. QED
      BY <2>1, <3>1
  <2>. QED
    BY <2>1, <2>2
<1>3. feeRate * Prec \in Nat
  BY PrecAssumption DEF One, Rated
<1>4. PICK f \in Nat : f = QuoRoundUp(feeRate, One - feeRate)
  BY <1>1, <1>2, <1>3 DEF QuoRoundUp
<1>5. n * f \in Nat
  OBVIOUS
<1>. QED
  BY <1>2, <1>4, <1>5, PrecAssumption DEF FeeOnTop, MulRoundUp

\* ComputeSwapWithinBucketOutGivenIn: a bucket that is not refused moves the price
\* in the direction of the swap, or takes more than remains: a pool without fees
\* finds that out only when it leaves the loop.
LEMMA GivenInMoves ==
    ASSUME Rated, NEW dir \in {"down", "up"}, NEW price \in Nat \ {0}, NEW target \in Nat \ {0},
           IF dir = "down" THEN target <= price ELSE price <= target,
           NEW liq \in Nat, NEW rem \in Nat,
           price >= One \/ liq = 0 \/ liq * (One - feeRate) >= 10 * (Prec * Prec),
           BucketGivenIn(dir, price, target, liq, rem, Mul(rem, One - feeRate)).ok
    PROVE  LET b == BucketGivenIn(dir, price, target, liq, rem, Mul(rem, One - feeRate))
           IN  Moving(b, price, dir, b.in > rem)
<1>1. One - feeRate \in Nat
  BY PrecAssumption DEF One, Rated
<1>2. PICK amount \in Nat : amount = Mul(rem, One - feeRate)
  BY <1>1, MulNat
<1>. DEFINE next == IF amount >= AmountIn(dir, liq, target, price) THEN target
                    ELSE NextPriceGivenIn(dir, price, liq, amount)
            in == AmountIn(dir, liq, next, price)
            b == BucketGivenIn(dir, price, target, liq, rem, amount)
<1>3. /\ b.price = next /\ b.in = in /\ b.out = AmountOut(dir, liq, next, price)
      /\ b.fee = FeeGivenIn(next = target, rem, in)
      /\ b.ok => b.fee >= 0
  BY DEF BucketGivenIn, StepTo, StepGivenIn, Bucket
<1>4. /\ next \in Nat \ {0}
      /\ \/ in > rem
         \/ (dir = "down" => next <= price) /\ (dir = "up" => next >= price)
  <2>1. CASE amount >= AmountIn(dir, liq, target, price)
    BY <2>1
  <2>2. CASE ~(amount >= AmountIn(dir, liq, target, price))
    <3>1. liq # 0
      BY <2>2, AmountsOfBucket
    <3>2. next = NextPriceGivenIn(dir, price, liq, amount)
      BY <2>2
    <3>. HIDE DEF next
    <3>3. CASE dir = "up"
      <4>1. PICK c \in Nat : c = QuoTruncate(amount, liq)
        <5>1. amount * Prec \in Nat
          BY PrecAssumption
        <5>. QED
          BY <3>1, <5>1, TruncBounds DEF QuoTruncate
      <4>2. next = price + c
        BY <3>2, <3>3, <4>1 DEF NextPriceGivenIn
      <4>. QED
        BY <3>3, <4>2
    <3>4. CASE dir = "down" /\ amount = 0
      BY <3>2, <3>4 DEF NextPriceGivenIn
    <3>5. CASE dir = "down" /\ amount # 0
      <4>1. next \in Nat \ {0} /\ (next > price => AmountIn("down", liq, next, price) > rem)
        BY <1>2, <3>1, <3>2, <3>5, RoundedUpRefused
      <4>. QED
        BY <3>5, <4>1
    <3>. QED
      BY <3>3, <3>4, <3>5
  <2>. QED
    BY <2>1, <2>2
<1>. HIDE DEF next
<1>5. in \in Nat /\ b.out \in Nat
  BY <1>3, <1>4, AmountsOfBucket
<1>6. b.fee \in Nat
  <2>1. b.fee \in Int
    BY <1>3, <1>5, FeeNat DEF FeeGivenIn
  <2>2. b.ok
    BY <1>2
  <2>. HIDE DEF b
  <2>. QED
    BY <1>3, <2>1, <2>2
<1>. HIDE DEF b, in
<1>7. Moving(b, price, dir, b.in > rem)
  BY <1>3, <1>4, <1>5, <1>6 DEF Moving
<1>. QED
  BY <1>2, <1>7 DEF b

\* ComputeSwapWithinBucketInGivenOut: the price moves in the direction of the swap.
LEMMA GivenOutMoves ==
    ASSUME Rated, NEW dir \in {"down", "up"}, NEW price \in Nat \ {0}, NEW target \in Nat \ {0},
           IF dir = "down" THEN target <= price ELSE price <= target,
           NEW liq \in Nat, NEW rem \in Nat,
           BucketGivenOut(dir, price, target, liq, rem).ok
    PROVE  Moving(BucketGivenOut(dir, price, target, liq, rem), price, dir, FALSE)
<1>. DEFINE b == BucketGivenOut(dir, price, target, liq, rem)
<1>1. ASSUME NEW next \in Int, IF dir = "down" THEN next <= price ELSE next >= price,
             b = StepOut(dir, price, next, liq, rem)
      PROVE  Moving(b, price, dir, FALSE)
  <2>1. /\ b.price = next /\ b.in = AmountIn(dir, liq, next, price)
        /\ b.out = Min({rem, AmountOut(dir, liq, next, price)})
        /\ b.fee = FeeOnTop(AmountIn(dir, liq, next, price))
    BY <1>1 DEF StepOut, StepGivenOut, Bucket
  <2>. HIDE DEF b
  <2>2. next > 0 => /\ AmountIn(dir, liq, next, price) \in Nat
                    /\ AmountOut(dir, liq, next, price) \in Nat
    BY AmountsOfBucket
  <2>3. ASSUME NEW x \in Nat, NEW y \in Nat PROVE Min({x, y}) \in Int
    BY DEF Min
  <2>. QED
    BY <1>1, <2>1, <2>2, <2>3, FeeNat DEF Moving
<1>2. CASE rem >= AmountOut(dir, liq, target, price)
  <2>1. b = StepOut(dir, price, target, liq, rem)
    BY <1>2 DEF BucketGivenOut
  <2>. HIDE DEF b
  <2>2. Moving(b, price, dir, FALSE)
    BY <1>1, <2>1 DEF Moving
  <2>. QED
    BY <2>2 DEF b
<1>3. CASE ~(rem >= AmountOut(dir, liq, target, price))
  <2>1. liq # 0
    BY <1>3, AmountsOfBucket
  <2>. DEFINE next == NextPriceGivenOut(dir, price, liq, rem)
  <2>2. NextPriceDefined(dir, price, liq, rem)
    <3>1. SUFFICES ASSUME ~NextPriceDefined(dir, price, liq, rem) PROVE FALSE
      OBVIOUS
    <3>2. b = Bucket(price, price, 0, 0, 0, FALSE)
      BY <1>3, <3>1 DEF BucketGivenOut
    <3>3. ~Bucket(price, price, 0, 0, 0, FALSE).ok
      BY DEF Bucket
    <3>. QED
      BY <3>2, <3>3
  <2>3. b = StepOut(dir, price, next, liq, rem)
    BY <1>3, <2>2 DEF BucketGivenOut
  <2>4. next \in Int /\ IF dir = "down" THEN next <= price ELSE next >= price
    <3>1. PICK P \in Nat \ {0} : P = Prec
      BY PrecAssumption
    <3>2. CASE dir = "down"
      <4>1. PICK c \in Int : c = QuoRoundUp(rem, liq) /\ liq * c >= rem * P
        <5>1. rem * P \in Int
          OBVIOUS
        <5>. QED
          BY <2>1, <3>1, <5>1, CeilBounds DEF QuoRoundUp
      <4>2. c >= 0
        <5>1. rem * P >= 0
          OBVIOUS
        <5>2. SUFFICES ASSUME c < 0 PROVE FALSE
          OBVIOUS
        <5>3. liq * c < 0
          BY <2>1, <5>2
        <5>. QED
          BY <4>1, <5>1, <5>3
      <4>3. next = price - c
        BY <3>2, <4>1 DEF NextPriceGivenOut
      <4>. QED
        BY <3>2, <4>2, <4>3
    <3>3. CASE dir = "up"
      <4>1. PICK num \in Int : num = MulRoundUp(liq, price) /\ P * num >= liq * price
        <5>1. liq * price \in Int
          OBVIOUS
        <5>2. MulRoundUp(liq, price) = CeilDiv(liq * price, P)
          BY <3>1 DEF MulRoundUp
        <5>. QED
          BY <5>1, <5>2, CeilBounds
      <4>2. PICK k \in Int : k = MulRoundUp(price, rem) /\ P * k >= price * rem
        <5>1. price * rem \in Int
          OBVIOUS
        <5>2. MulRoundUp(price, rem) = CeilDiv(price * rem, P)
          BY <3>1 DEF MulRoundUp
        <5>. QED
          BY <5>1, <5>2, CeilBounds
      <4>3. k >= 0
        <5>1. price * rem >= 0
          OBVIOUS
        <5>2. SUFFICES ASSUME k < 0 PROVE FALSE
          OBVIOUS
        <5>3. P * k < 0
          BY <5>2
        <5>. QED
          BY <4>2, <5>1, <5>3
      <4>4. PICK den \in Nat \ {0} : den = liq - k
        BY <2>2, <3>3, <4>2 DEF NextPriceDefined
      <4>5. PICK n \in Int : n = next /\ den * n >= num * P
        <5>1. num * P \in Int
          OBVIOUS
        <5>. QED
          BY <3>1, <3>3, <4>1, <4>2, <4>4, <5>1, CeilBounds DEF NextPriceGivenOut, QuoRoundUp
      <4>6. den * n >= den * price
        <5>1. liq * price >= den * price
          BY <4>3, <4>4
        <5>2. num * P = P * num /\ den * n \in Int /\ den * price \in Int /\ liq * price \in Int
          OBVIOUS
        <5>. QED
          BY <4>1, <4>5, <5>1, <5>2
      <4>7. n >= price
        BY <4>6
      <4>. QED
        BY <3>3, <4>5, <4>7
    <3>. QED
      BY <3>2, <3>3
  <2>. HIDE DEF next, b
  <2>5. Moving(b, price, dir, FALSE)
    BY <1>1, <2>3, <2>4
  <2>. QED
    BY <2>5 DEF b
<1>. QED
  BY <1>2, <1>3

-----------------------------------------------------------------------------
(***************************************************************************)
(* What the proofs keep of a store                                         *)
(***************************************************************************)
PoolFields == {"tick", "sqrtPrice", "liquidity"}
IsPool(p) == DOMAIN p = PoolFields /\ p = [f \in PoolFields |-> p[f]]
TickFields == {"gross", "net", "growth"}

\* The price of the pool is in its tick, once there is a price.
Priced(s) ==
    /\ IsPool(s.pool)
    /\ s.pool.tick \in Int /\ s.pool.sqrtPrice \in Nat
    /\ HasPosition(s.pool) => s.pool.sqrtPrice # 0 /\ InTick(s.pool.tick, s.pool.sqrtPrice)
    /\ DOMAIN s.positions # {} => HasPosition(s.pool)

\* The store is well formed.
Shape(s) ==
    /\ IsStore(s)
    /\ s.count \in Nat /\ s.index = 0 .. s.count - 1 /\ DOMAIN s.positions \subseteq s.index
    /\ \A id \in DOMAIN s.positions :
          /\ s.positions[id].lower \in Ticks /\ s.positions[id].upper \in Ticks
          /\ s.positions[id].lower < s.positions[id].upper
          /\ s.positions[id].liquidity \in Nat
    /\ DOMAIN s.ticks \subseteq Ticks
    /\ \A t \in DOMAIN s.ticks : DOMAIN s.ticks[t] = TickFields

\* A tick that is not stored stands for one with nothing at it.
Gross(s, t) == IF t \in DOMAIN s.ticks THEN s.ticks[t].gross ELSE 0
Net(s, t) == IF t \in DOMAIN s.ticks THEN s.ticks[t].net ELSE 0

TickSums(s) ==
    \A t \in Ticks : /\ Gross(s, t) = Opened(s, t) + Closed(s, t)
                     /\ Net(s, t) = Opened(s, t) - Closed(s, t)

ShareSums(s) ==
    /\ \A id \in DOMAIN s.shares : s.shares[id].shares = s.positions[id].liquidity
    /\ s.totalShares = LiquidityOf(s, DOMAIN s.positions)

\* The stores agree, positions without liquidity included.
Book(s) ==
    /\ Shape(s) /\ TickSums(s) /\ ShareSums(s)
    /\ DOMAIN s.ticks = Ends(s)
    /\ DOMAIN s.shares = DOMAIN s.positions

Positive(s) == \A id \in DOMAIN s.positions : s.positions[id].liquidity # 0

\* The store between two transactions.
Good(s) == Book(s) /\ Positive(s) /\ Priced(s)

\* Nothing that Book is about differs.
SameBook(s, r) ==
    /\ IsStore(r)
    /\ r.positions = s.positions /\ r.index = s.index /\ r.count = s.count
    /\ r.totalShares = s.totalShares
    /\ DOMAIN r.shares = DOMAIN s.shares
    /\ \A id \in DOMAIN s.shares : r.shares[id].shares = s.shares[id].shares
    /\ DOMAIN r.ticks = DOMAIN s.ticks
    /\ \A t \in DOMAIN s.ticks :
          /\ DOMAIN r.ticks[t] = TickFields
          /\ r.ticks[t].gross = s.ticks[t].gross /\ r.ticks[t].net = s.ticks[t].net

\* Sums of liquidity depend on the positions only.
LEMMA SumsOfSame ==
    ASSUME NEW s, NEW r, r.positions = s.positions
    PROVE  /\ \A S : LiquidityOf(r, S) = LiquidityOf(s, S)
           /\ \A t : Opened(r, t) = Opened(s, t)
           /\ \A t : Closed(r, t) = Closed(s, t)
           /\ Ends(r) = Ends(s)
BY Zenon DEF LiquidityOf, Opened, Closed, Ends

\* A store with the same book has its stores in agreement, too.
LEMMA BookKept ==
    ASSUME NEW s, NEW r, Book(s), SameBook(s, r)
    PROVE  Book(r)
<1>1. /\ \A S : LiquidityOf(r, S) = LiquidityOf(s, S)
      /\ \A t : Opened(r, t) = Opened(s, t) /\ Closed(r, t) = Closed(s, t)
      /\ Ends(r) = Ends(s)
  BY SumsOfSame DEF SameBook
<1>2. Shape(r)
  BY DEF Book, SameBook, Shape
<1>3. \A t : Gross(r, t) = Gross(s, t) /\ Net(r, t) = Net(s, t)
  BY DEF SameBook, Gross, Net
<1>4. TickSums(r)
  BY <1>1, <1>3 DEF Book, TickSums
<1>5. ShareSums(r)
  BY <1>1 DEF Book, ShareSums, SameBook
<1>. QED
  BY <1>1, <1>2, <1>4, <1>5 DEF Book, SameBook

\* An error or a panic.
LEMMA FailedStore ==
    ASSUME NEW s, IsStore(s)
    PROVE  IsStore(Failed(s)) /\ ~Failed(s).ok
BY DEF IsStore, Fields, Failed

\* What is not about the pool leaves it priced.
LEMMA PricedKept ==
    ASSUME NEW s, NEW r, Priced(s), r.positions = s.positions, r.pool = s.pool
    PROVE  Priced(r)
BY Zenon DEF Priced

\* The invariant says what the properties ask for.
LEMMA GoodIsEnough ==
    ASSUME Good(db)
    PROVE  StoresAgree /\ PriceInTick
<1>1. PriceInTick
  <2>1. SUFFICES ASSUME HasPosition(db.pool)
                 PROVE  /\ db.pool.tick \in Ticks => TickSqrtPrice[db.pool.tick] <= db.pool.sqrtPrice
                        /\ db.pool.tick + 1 \in Ticks =>
                             db.pool.sqrtPrice <= TickSqrtPrice[db.pool.tick + 1]
    BY DEF PriceInTick
  <2>2. db.pool.tick \in Int /\ InTick(db.pool.tick, db.pool.sqrtPrice)
    BY <2>1 DEF Good, Priced
  <2>3. db.pool.tick <= db.pool.tick /\ db.pool.tick + 1 > db.pool.tick
    BY <2>2
  <2>. QED
    BY <2>2, <2>3 DEF InTick
<1>2. \A t \in DOMAIN db.ticks : /\ t \in Ticks
                                 /\ Gross(db, t) = db.ticks[t].gross
                                 /\ Net(db, t) = db.ticks[t].net
  BY DEF Good, Book, Shape, Gross, Net
<1>3. \A t \in DOMAIN db.ticks : /\ db.ticks[t].gross = Opened(db, t) + Closed(db, t)
                                 /\ db.ticks[t].net = Opened(db, t) - Closed(db, t)
  BY <1>2 DEF Good, Book, TickSums
<1>4. StoresAgree
  BY <1>3 DEF Good, Book, ShareSums, StoresAgree, Live
<1>. QED
  BY <1>1, <1>4

\* The empty pool.
LEMMA GoodInit == Init => Good(db) /\ db.ok
<1>. SUFFICES ASSUME Init PROVE Good(db) /\ db.ok
  OBVIOUS
<1>1. IsStore(db) /\ db.ok
  BY DEF Init, IsStore, Fields
<1>2. /\ db.positions = <<>> /\ db.ticks = <<>> /\ db.shares = <<>> /\ db.count = 0
      /\ db.index = {} /\ db.totalShares = 0
      /\ db.pool = [tick |-> 0, sqrtPrice |-> 0, liquidity |-> 0]
  BY DEF Init
<1>3. DOMAIN db.positions = {} /\ DOMAIN db.ticks = {} /\ DOMAIN db.shares = {}
  BY <1>2
<1>4. Shape(db)
  BY <1>1, <1>2, <1>3 DEF Shape
<1>5. /\ \A t : {id \in DOMAIN db.positions : db.positions[id].lower = t} = {}
      /\ \A t : {id \in DOMAIN db.positions : db.positions[id].upper = t} = {}
      /\ Ends(db) = {}
  BY <1>3 DEF Ends
<1>6. LiquidityOf(db, {}) = 0
  BY SumEmpty DEF LiquidityOf
<1>7. \A t : Opened(db, t) = 0 /\ Closed(db, t) = 0
  BY <1>5, <1>6, Zenon DEF Opened, Closed
<1>8. LiquidityOf(db, DOMAIN db.positions) = 0
  BY <1>3, <1>6, Zenon
<1>9. TickSums(db)
  BY <1>3, <1>7 DEF TickSums, Gross, Net
<1>10. ShareSums(db)
  BY <1>2, <1>3, <1>8 DEF ShareSums
<1>11. Priced(db)
  BY <1>2, <1>3 DEF Priced, IsPool, PoolFields, HasPosition
<1>. QED
  BY <1>1, <1>3, <1>4, <1>5, <1>9, <1>10, <1>11 DEF Good, Book, Positive

-----------------------------------------------------------------------------
(***************************************************************************)
(* Sums of the liquidity of positions                                      *)
(***************************************************************************)
Liq(s) == [id \in DOMAIN s.positions |-> s.positions[id].liquidity]

\* Sums over the positions of a store are numbers.
LEMMA LiquidityType ==
    ASSUME NEW s, Shape(s)
    PROVE  /\ IsFiniteSet(DOMAIN s.positions)
           /\ \A S \in SUBSET DOMAIN s.positions :
                 IsFiniteSet(S) /\ LiquidityOf(s, S) \in Nat
           /\ \A t : Opened(s, t) \in Nat /\ Closed(s, t) \in Nat
           /\ \A id \in DOMAIN s.positions : Liq(s)[id] = s.positions[id].liquidity
                                             /\ Liq(s)[id] \in Nat
<1>1. IsFiniteSet(DOMAIN s.positions)
  <2>1. s.count - 1 \in Int
    BY DEF Shape
  <2>2. IsFiniteSet(0 .. s.count - 1)
    BY <2>1, FS_Interval
  <2>. QED
    BY <2>2, FS_Subset DEF Shape
<1>2. \A id \in DOMAIN s.positions : Liq(s)[id] = s.positions[id].liquidity
                                     /\ Liq(s)[id] \in Nat
  BY DEF Liq, Shape
<1>3. ASSUME NEW S \in SUBSET DOMAIN s.positions
      PROVE  IsFiniteSet(S) /\ LiquidityOf(s, S) \in Nat
  <2>1. IsFiniteSet(S)
    BY <1>1, FS_Subset
  <2>2. SumFunctionOnSet(Liq(s), S) \in Nat
    BY <1>2, <2>1, SumNat
  <2>. QED
    BY <2>1, <2>2 DEF LiquidityOf, Liq
<1>. QED
  BY <1>1, <1>2, <1>3 DEF Opened, Closed

\* One position changes its liquidity.
LEMMA LiquidityChange ==
    ASSUME NEW s, NEW r, Shape(s), Shape(r), DOMAIN r.positions = DOMAIN s.positions,
           NEW id \in DOMAIN s.positions, NEW delta \in Int,
           \A k \in DOMAIN s.positions :
              k # id => r.positions[k].liquidity = s.positions[k].liquidity,
           r.positions[id].liquidity = s.positions[id].liquidity + delta,
           NEW S \in SUBSET DOMAIN s.positions
    PROVE  LiquidityOf(r, S) = LiquidityOf(s, S) + (IF id \in S THEN delta ELSE 0)
<1>. DEFINE f == Liq(s)
            g == Liq(r)
<1>1. /\ \A k \in DOMAIN s.positions : f[k] \in Nat /\ g[k] \in Nat
      /\ \A k \in DOMAIN s.positions : k # id => g[k] = f[k]
      /\ g[id] = f[id] + delta
  BY LiquidityType
<1>2. IsFiniteSet(S)
  BY LiquidityType
<1>3. LiquidityOf(r, S) = SumFunctionOnSet(g, S) /\ LiquidityOf(s, S) = SumFunctionOnSet(f, S)
  BY Zenon DEF LiquidityOf, Liq
<1>. HIDE DEF f, g
<1>4. CASE id \notin S
  <2>1. \A k \in S : f[k] \in Int /\ g[k] = f[k]
    BY <1>1, <1>4
  <2>2. SumFunctionOnSet(g, S) = SumFunctionOnSet(f, S)
    BY <1>2, <2>1, SumEqual
  <2>3. SumFunctionOnSet(f, S) \in Int
    BY <1>2, <2>1, SumRemove
  <2>. QED
    BY <1>3, <1>4, <2>2, <2>3
<1>5. CASE id \in S
  <2>. DEFINE T == S \ {id}
  <2>1. IsFiniteSet(T)
    BY <1>2, FS_Subset
  <2>2. \A k \in S : f[k] \in Int /\ g[k] \in Int
    BY <1>1
  <2>3. /\ SumFunctionOnSet(f, S) = f[id] + SumFunctionOnSet(f, T)
        /\ SumFunctionOnSet(g, S) = g[id] + SumFunctionOnSet(g, T)
    BY <1>2, <1>5, <2>2, SumRemove
  <2>4. \A k \in T : f[k] \in Int /\ g[k] = f[k]
    BY <1>1
  <2>. HIDE DEF T
  <2>5. SumFunctionOnSet(g, T) = SumFunctionOnSet(f, T) /\ SumFunctionOnSet(f, T) \in Int
    BY <2>1, <2>4, SumEqual, SumRemove
  <2>6. f[id] \in Int
    BY <1>1
  <2>. QED
    BY <1>1, <1>3, <1>5, <2>3, <2>5, <2>6
<1>. QED
  BY <1>4, <1>5

\* The sums at the ticks after the change.
LEMMA SumsChange ==
    ASSUME NEW s, NEW r, Shape(s), Shape(r), DOMAIN r.positions = DOMAIN s.positions,
           NEW id \in DOMAIN s.positions, NEW delta \in Int,
           \A k \in DOMAIN s.positions :
              /\ k # id => r.positions[k].liquidity = s.positions[k].liquidity
              /\ r.positions[k].lower = s.positions[k].lower
              /\ r.positions[k].upper = s.positions[k].upper,
           r.positions[id].liquidity = s.positions[id].liquidity + delta
    PROVE  /\ \A t : Opened(r, t) = Opened(s, t)
                       + (IF t = s.positions[id].lower THEN delta ELSE 0)
           /\ \A t : Closed(r, t) = Closed(s, t)
                       + (IF t = s.positions[id].upper THEN delta ELSE 0)
           /\ LiquidityOf(r, DOMAIN r.positions) = LiquidityOf(s, DOMAIN s.positions) + delta
           /\ Ends(r) = Ends(s)
<1>1. ASSUME NEW S \in SUBSET DOMAIN s.positions
      PROVE  LiquidityOf(r, S) = LiquidityOf(s, S) + (IF id \in S THEN delta ELSE 0)
  BY LiquidityChange
<1>2. ASSUME NEW t
      PROVE  Opened(r, t) = Opened(s, t) + (IF t = s.positions[id].lower THEN delta ELSE 0)
  <2>. DEFINE S == {k \in DOMAIN s.positions : s.positions[k].lower = t}
  <2>1. S = {k \in DOMAIN r.positions : r.positions[k].lower = t}
    OBVIOUS
  <2>2. S \in SUBSET DOMAIN s.positions /\ (id \in S <=> t = s.positions[id].lower)
    OBVIOUS
  <2>3. Opened(s, t) = LiquidityOf(s, S)
    BY Zenon DEF Opened
  <2>4. Opened(r, t) = LiquidityOf(r, S)
    BY <2>1, Zenon DEF Opened
  <2>. HIDE DEF S
  <2>. QED
    BY <1>1, <2>2, <2>3, <2>4
<1>3. ASSUME NEW t
      PROVE  Closed(r, t) = Closed(s, t) + (IF t = s.positions[id].upper THEN delta ELSE 0)
  <2>. DEFINE S == {k \in DOMAIN s.positions : s.positions[k].upper = t}
  <2>1. S = {k \in DOMAIN r.positions : r.positions[k].upper = t}
    OBVIOUS
  <2>2. S \in SUBSET DOMAIN s.positions /\ (id \in S <=> t = s.positions[id].upper)
    OBVIOUS
  <2>3. Closed(s, t) = LiquidityOf(s, S)
    BY Zenon DEF Closed
  <2>4. Closed(r, t) = LiquidityOf(r, S)
    BY <2>1, Zenon DEF Closed
  <2>. HIDE DEF S
  <2>. QED
    BY <1>1, <2>2, <2>3, <2>4
<1>4. LiquidityOf(r, DOMAIN r.positions) = LiquidityOf(s, DOMAIN s.positions) + delta
  BY <1>1
<1>5. Ends(r) = Ends(s)
  BY DEF Ends
<1>. QED
  BY <1>2, <1>3, <1>4, <1>5

\* A position without liquidity adds nothing to any sum: r has one that s does
\* not have.
Padded(s, r, id) ==
    /\ Shape(s) /\ Shape(r) /\ id \notin DOMAIN s.positions
    /\ DOMAIN r.positions = DOMAIN s.positions \cup {id}
    /\ \A k \in DOMAIN s.positions : r.positions[k] = s.positions[k]
    /\ r.positions[id].liquidity = 0

\* All sums agree, and the ends differ by those of the empty position.
LEMMA SumsPadded ==
    ASSUME NEW s, NEW r, NEW id, Padded(s, r, id)
    PROVE  /\ \A t : Opened(r, t) = Opened(s, t) /\ Closed(r, t) = Closed(s, t)
           /\ LiquidityOf(r, DOMAIN r.positions) = LiquidityOf(s, DOMAIN s.positions)
           /\ Ends(r) = Ends(s) \cup {r.positions[id].lower, r.positions[id].upper}
<1>. USE DEF Padded
<1>. DEFINE f == Liq(s)
            g == Liq(r)
<1>1. /\ \A k \in DOMAIN s.positions : f[k] \in Int /\ g[k] = f[k]
      /\ \A k \in DOMAIN r.positions : g[k] \in Int
      /\ g[id] = 0
  BY LiquidityType
<1>2. \A S : LiquidityOf(r, S) = SumFunctionOnSet(g, S) /\ LiquidityOf(s, S) = SumFunctionOnSet(f, S)
  BY Zenon DEF LiquidityOf, Liq
<1>. HIDE DEF f, g
<1>3. ASSUME NEW T \in SUBSET DOMAIN r.positions, NEW S \in SUBSET DOMAIN s.positions,
             S = T \ {id}
      PROVE  LiquidityOf(r, T) = LiquidityOf(s, S)
  <2>1. IsFiniteSet(T) /\ IsFiniteSet(S)
    BY LiquidityType
  <2>2. S \in SUBSET T /\ (\A k \in S : g[k] \in Int) /\ (\A k \in T \ S : g[k] = 0)
    BY <1>1, <1>3
  <2>3. SumFunctionOnSet(g, T) = SumFunctionOnSet(g, S)
    BY <2>1, <2>2, SumPad
  <2>4. SumFunctionOnSet(g, S) = SumFunctionOnSet(f, S)
    <3>1. \A k \in S : f[k] \in Int /\ g[k] = f[k]
      BY <1>1
    <3>. QED
      BY <2>1, <3>1, SumEqual
  <2>. QED
    BY <1>2, <2>3, <2>4
<1>4. ASSUME NEW t PROVE Opened(r, t) = Opened(s, t)
  <2>. DEFINE T == {k \in DOMAIN r.positions : r.positions[k].lower = t}
              S == {k \in DOMAIN s.positions : s.positions[k].lower = t}
  <2>1. T \in SUBSET DOMAIN r.positions /\ S \in SUBSET DOMAIN s.positions /\ S = T \ {id}
    OBVIOUS
  <2>2. Opened(r, t) = LiquidityOf(r, T) /\ Opened(s, t) = LiquidityOf(s, S)
    BY Zenon DEF Opened
  <2>. HIDE DEF S, T
  <2>. QED
    BY <1>3, <2>1, <2>2
<1>5. ASSUME NEW t PROVE Closed(r, t) = Closed(s, t)
  <2>. DEFINE T == {k \in DOMAIN r.positions : r.positions[k].upper = t}
              S == {k \in DOMAIN s.positions : s.positions[k].upper = t}
  <2>1. T \in SUBSET DOMAIN r.positions /\ S \in SUBSET DOMAIN s.positions /\ S = T \ {id}
    OBVIOUS
  <2>2. Closed(r, t) = LiquidityOf(r, T) /\ Closed(s, t) = LiquidityOf(s, S)
    BY Zenon DEF Closed
  <2>. HIDE DEF S, T
  <2>. QED
    BY <1>3, <2>1, <2>2
<1>6. LiquidityOf(r, DOMAIN r.positions) = LiquidityOf(s, DOMAIN s.positions)
  <2>1. DOMAIN s.positions = DOMAIN r.positions \ {id}
    OBVIOUS
  <2>. QED
    BY <1>3, <2>1
<1>7. Ends(r) = Ends(s) \cup {r.positions[id].lower, r.positions[id].upper}
  BY DEF Ends
<1>. QED
  BY <1>4, <1>5, <1>6, <1>7

-----------------------------------------------------------------------------
(***************************************************************************)
(* The liquidity at a tick                                                 *)
(***************************************************************************)
\* The positions whose range holds a tick, and what they add up to.
Around(s, tick) ==
    {id \in DOMAIN s.positions : InRange(tick, s.positions[id].lower, s.positions[id].upper)}
AtTick(s, tick) == LiquidityOf(s, Around(s, tick))

\* The liquidity of the pool is that of the positions around its tick.
Active(s) == s.pool.liquidity = AtTick(s, s.pool.tick)

\* It is a number.
LEMMA AtTickNat ==
    ASSUME NEW s, Shape(s), NEW tick
    PROVE  AtTick(s, tick) \in Nat
<1>1. Around(s, tick) \in SUBSET DOMAIN s.positions
  BY DEF Around
<1>. QED
  BY <1>1, LiquidityType DEF AtTick

\* It depends on the positions only.
LEMMA AtTickOfSame ==
    ASSUME NEW s, NEW r, r.positions = s.positions
    PROVE  \A tick : AtTick(r, tick) = AtTick(s, tick)
BY Zenon DEF AtTick, Around, LiquidityOf

\* It changes only where a position begins or ends.
LEMMA AtTickBetween ==
    ASSUME NEW s, Shape(s), NEW a \in Int, NEW b \in Int,
           \A u \in Ends(s) : u <= a <=> u <= b
    PROVE  AtTick(s, a) = AtTick(s, b)
<1>1. ASSUME NEW id \in DOMAIN s.positions
      PROVE  InRange(a, s.positions[id].lower, s.positions[id].upper)
               <=> InRange(b, s.positions[id].lower, s.positions[id].upper)
  <2>1. PICK lo \in Int, hi \in Int : lo = s.positions[id].lower /\ hi = s.positions[id].upper
    BY PoolAssumption DEF Shape
  <2>2. lo \in Ends(s) /\ hi \in Ends(s)
    BY <2>1 DEF Ends
  <2>3. (lo <= a <=> lo <= b) /\ (hi <= a <=> hi <= b)
    BY <2>2
  <2>. QED
    BY <2>1, <2>3 DEF InRange
<1>2. Around(s, a) = Around(s, b)
  BY <1>1 DEF Around
<1>. QED
  BY <1>2 DEF AtTick

\* From below a tick to the tick: what begins there comes in, what ends goes.
LEMMA AtTickCrossed ==
    ASSUME NEW s, Shape(s), NEW t \in Int
    PROVE  AtTick(s, t) + Closed(s, t) = AtTick(s, t - 1) + Opened(s, t)
<1>. DEFINE O == {id \in DOMAIN s.positions : s.positions[id].lower = t}
            C == {id \in DOMAIN s.positions : s.positions[id].upper = t}
            A == Around(s, t)
            B == Around(s, t - 1)
            f == Liq(s)
<1>1. Opened(s, t) = LiquidityOf(s, O) /\ Closed(s, t) = LiquidityOf(s, C)
  BY Zenon DEF Opened, Closed
<1>2. ASSUME NEW id \in DOMAIN s.positions
      PROVE  /\ (id \in A \/ id \in C) <=> (id \in B \/ id \in O)
             /\ ~(id \in A /\ id \in C) /\ ~(id \in B /\ id \in O)
  <2>1. PICK lo \in Int, hi \in Int : /\ lo = s.positions[id].lower /\ hi = s.positions[id].upper
                                      /\ lo < hi
    BY PoolAssumption DEF Shape
  <2>2. /\ id \in A <=> lo <= t /\ t < hi
        /\ id \in B <=> lo <= t - 1 /\ t - 1 < hi
        /\ id \in O <=> lo = t
        /\ id \in C <=> hi = t
    BY <2>1 DEF Around, InRange
  <2>. HIDE DEF A, B, O, C
  <2>. QED
    BY <2>1, <2>2
<1>3. /\ A \in SUBSET DOMAIN s.positions /\ B \in SUBSET DOMAIN s.positions
      /\ O \in SUBSET DOMAIN s.positions /\ C \in SUBSET DOMAIN s.positions
  BY DEF Around
<1>. HIDE DEF A, B, O, C
<1>4. A \cup C = B \cup O /\ A \cap C = {} /\ B \cap O = {}
  BY <1>2, <1>3
<1>5. /\ IsFiniteSet(A) /\ IsFiniteSet(B) /\ IsFiniteSet(O) /\ IsFiniteSet(C)
      /\ \A id \in DOMAIN s.positions : f[id] \in Int
  BY <1>3, LiquidityType
<1>6. \A S : LiquidityOf(s, S) = SumFunctionOnSet(f, S)
  BY Zenon DEF LiquidityOf, Liq
<1>. HIDE DEF f
<1>7. SumFunctionOnSet(f, A \cup C) = SumFunctionOnSet(f, A) + SumFunctionOnSet(f, C)
  BY <1>3, <1>4, <1>5, SumUnion
<1>8. SumFunctionOnSet(f, B \cup O) = SumFunctionOnSet(f, B) + SumFunctionOnSet(f, O)
  BY <1>3, <1>4, <1>5, SumUnion
<1>9. AtTick(s, t) = LiquidityOf(s, A) /\ AtTick(s, t - 1) = LiquidityOf(s, B)
  BY DEF AtTick, A, B
<1>. QED
  BY <1>1, <1>4, <1>6, <1>7, <1>8, <1>9

\* A position without liquidity does not count.
LEMMA AtTickPadded ==
    ASSUME NEW s, NEW r, NEW id, Padded(s, r, id), NEW tick
    PROVE  AtTick(r, tick) = AtTick(s, tick)
<1>. USE DEF Padded
<1>. DEFINE T == Around(r, tick)
            S == Around(s, tick)
            f == Liq(s)
            g == Liq(r)
<1>1. T \in SUBSET DOMAIN r.positions /\ S \in SUBSET DOMAIN s.positions /\ S = T \ {id}
  BY DEF Around
<1>2. /\ \A k \in DOMAIN s.positions : f[k] \in Int /\ g[k] = f[k]
      /\ g[id] = 0
  BY LiquidityType
<1>3. \A X : LiquidityOf(r, X) = SumFunctionOnSet(g, X) /\ LiquidityOf(s, X) = SumFunctionOnSet(f, X)
  BY Zenon DEF LiquidityOf, Liq
<1>4. IsFiniteSet(T) /\ IsFiniteSet(S)
  BY <1>1, LiquidityType
<1>. HIDE DEF f, g, T, S
<1>5. S \in SUBSET T /\ (\A k \in S : g[k] \in Int) /\ (\A k \in T \ S : g[k] = 0)
  BY <1>1, <1>2
<1>6. SumFunctionOnSet(g, T) = SumFunctionOnSet(g, S)
  BY <1>4, <1>5, SumPad
<1>7. SumFunctionOnSet(g, S) = SumFunctionOnSet(f, S)
  <2>1. \A k \in S : f[k] \in Int /\ g[k] = f[k]
    BY <1>1, <1>2
  <2>. QED
    BY <1>4, <2>1, SumEqual
<1>. QED
  BY <1>3, <1>6, <1>7 DEF AtTick, S, T

\* One position changes its liquidity.
LEMMA AtTickChange ==
    ASSUME NEW s, NEW r, Shape(s), Shape(r), DOMAIN r.positions = DOMAIN s.positions,
           NEW id \in DOMAIN s.positions, NEW delta \in Int,
           \A k \in DOMAIN s.positions :
              /\ k # id => r.positions[k].liquidity = s.positions[k].liquidity
              /\ r.positions[k].lower = s.positions[k].lower
              /\ r.positions[k].upper = s.positions[k].upper,
           r.positions[id].liquidity = s.positions[id].liquidity + delta,
           NEW tick
    PROVE  AtTick(r, tick) = AtTick(s, tick)
             + (IF InRange(tick, s.positions[id].lower, s.positions[id].upper) THEN delta ELSE 0)
<1>1. /\ Around(r, tick) = Around(s, tick) /\ Around(s, tick) \in SUBSET DOMAIN s.positions
      /\ id \in Around(s, tick) <=> InRange(tick, s.positions[id].lower, s.positions[id].upper)
  BY DEF Around
<1>2. LiquidityOf(r, Around(s, tick))
        = LiquidityOf(s, Around(s, tick)) + (IF id \in Around(s, tick) THEN delta ELSE 0)
  BY <1>1, LiquidityChange
<1>. QED
  BY <1>1, <1>2 DEF AtTick

\* A pool with enough liquidity for its decimals: a position that reaches below
\* the price one has ten units of liquidity after fees.
Deep(s) ==
    \A id \in DOMAIN s.positions :
       \/ TickSqrtPrice[s.positions[id].lower] >= One
       \/ s.positions[id].liquidity * (One - feeRate) >= 10 * (Prec * Prec)

\* Then so has the pool wherever it trades below the price one.
LEMMA DeepAtTick ==
    ASSUME Rated, NEW s, Shape(s), Deep(s), NEW tick \in Int, NEW price \in Nat, InTick(tick, price)
    PROVE  \/ price >= One \/ AtTick(s, tick) = 0
           \/ AtTick(s, tick) * (One - feeRate) >= 10 * (Prec * Prec)
<1>1. SUFFICES ASSUME price < One, AtTick(s, tick) # 0
               PROVE  AtTick(s, tick) * (One - feeRate) >= 10 * (Prec * Prec)
  BY PrecAssumption DEF One
<1>. DEFINE S == Around(s, tick)
            f == Liq(s)
<1>2. S \in SUBSET DOMAIN s.positions
  BY DEF Around
<1>3. S # {}
  <2>1. LiquidityOf(s, {}) = 0
    BY SumEmpty DEF LiquidityOf
  <2>. QED
    BY <1>1, <2>1 DEF AtTick
<1>4. PICK id \in S : TRUE
  BY <1>3
<1>5. /\ IsFiniteSet(S) /\ IsFiniteSet(S \ {id})
      /\ \A k \in DOMAIN s.positions : f[k] \in Nat /\ f[k] = s.positions[k].liquidity
  <2>1. IsFiniteSet(S)
    BY <1>2, LiquidityType
  <2>. QED
    BY <2>1, LiquidityType, FS_Subset
<1>6. AtTick(s, tick) = SumFunctionOnSet(f, S)
  BY Zenon DEF AtTick, LiquidityOf, Liq
<1>7. id \in DOMAIN s.positions /\ s.positions[id].lower <= tick
  BY <1>2 DEF Around, InRange
<1>8. s.positions[id].lower \in Ticks
  BY <1>7 DEF Shape
<1>. HIDE DEF f, S
<1>9. PICK l \in Nat, rest \in Nat : /\ l = s.positions[id].liquidity
                                     /\ AtTick(s, tick) = l + rest
  <2>1. SumFunctionOnSet(f, S) = f[id] + SumFunctionOnSet(f, S \ {id})
    BY <1>2, <1>5, SumRemove
  <2>2. SumFunctionOnSet(f, S \ {id}) \in Nat
    BY <1>2, <1>5, SumNat
  <2>. QED
    BY <1>5, <1>6, <1>7, <2>1, <2>2
<1>10. ~(TickSqrtPrice[s.positions[id].lower] >= One)
  <2>1. PICK x \in Nat : x = TickSqrtPrice[s.positions[id].lower]
    BY <1>8, PoolAssumption
  <2>2. x <= price
    BY <1>7, <1>8, <2>1 DEF InTick
  <2>. QED
    BY <1>1, <2>1, <2>2, PrecAssumption DEF One
<1>11. PICK G \in Nat : G = One - feeRate
  BY PrecAssumption DEF One, Rated
<1>12. l * G >= 10 * (Prec * Prec)
  BY <1>7, <1>9, <1>10, <1>11 DEF Deep
<1>13. (l + rest) * G >= l * G
  OBVIOUS
<1>14. PICK a \in Int, b \in Int, c \in Int :
         a = (l + rest) * G /\ b = l * G /\ c = 10 * (Prec * Prec)
  BY PrecAssumption
<1>. QED
  BY <1>9, <1>11, <1>12, <1>13, <1>14

-----------------------------------------------------------------------------
(***************************************************************************)
(* Coins and the fee accumulator                                           *)
(***************************************************************************)
\* No account and no reward is negative.
Money(s) ==
    /\ s.balance \in [Denoms -> Nat] /\ s.fees \in [Denoms -> Nat] /\ s.accum \in [Denoms -> Nat]
    /\ \A id \in DOMAIN s.shares : /\ s.shares[id].value \in [Denoms -> Int]
                                   /\ s.shares[id].unclaimed \in [Denoms -> Nat]
    /\ \A t \in DOMAIN s.ticks : s.ticks[t].growth \in [Denoms -> Int]

\* The part of the invariant that swaps keep only in a deep pool.
Sound(s) == Active(s) /\ Money(s)

\* Which fields Money is about.
LEMMA MoneyOfSame ==
    ASSUME NEW s, NEW r, r.balance = s.balance, r.fees = s.fees, r.accum = s.accum,
           r.shares = s.shares, r.ticks = s.ticks
    PROVE  Money(r) <=> Money(s)
BY Zenon DEF Money

\* Which fields Active is about.
LEMMA ActiveOfSame ==
    ASSUME NEW s, NEW r, r.positions = s.positions, r.pool = s.pool
    PROVE  Active(r) <=> Active(s)
BY AtTickOfSame DEF Active

\* Which fields Sound is about.
LEMMA SoundOfSame ==
    ASSUME NEW s, NEW r, r.balance = s.balance, r.fees = s.fees, r.accum = s.accum,
           r.shares = s.shares, r.ticks = s.ticks, r.positions = s.positions, r.pool = s.pool
    PROVE  Sound(r) <=> Sound(s)
BY MoneyOfSame, ActiveOfSame DEF Sound

\* Sums and differences of coins.
LEMMA CoinsTypes ==
    /\ \A a \in [Denoms -> Int], b \in [Denoms -> Int] :
          Plus(a, b) \in [Denoms -> Int] /\ Minus(a, b) \in [Denoms -> Int]
    /\ \A a \in [Denoms -> Nat], b \in [Denoms -> Nat] :
          /\ Plus(a, b) \in [Denoms -> Nat]
          /\ Covers(a, b) => Minus(a, b) \in [Denoms -> Nat]
    /\ \A a \in [Denoms -> Nat] : a \in [Denoms -> Int]
    /\ NoCoins \in [Denoms -> Nat]
<1>1. ASSUME NEW a \in [Denoms -> Int], NEW b \in [Denoms -> Int]
      PROVE  Plus(a, b) \in [Denoms -> Int] /\ Minus(a, b) \in [Denoms -> Int]
  BY DEF Plus, Minus
<1>2. ASSUME NEW a \in [Denoms -> Nat], NEW b \in [Denoms -> Nat]
      PROVE  /\ Plus(a, b) \in [Denoms -> Nat]
             /\ Covers(a, b) => Minus(a, b) \in [Denoms -> Nat]
  <2>1. \A d \in Denoms : a[d] \in Nat /\ b[d] \in Nat
    OBVIOUS
  <2>2. \A d \in Denoms : a[d] + b[d] \in Nat /\ (a[d] >= b[d] => a[d] - b[d] \in Nat)
    BY <2>1
  <2>. QED
    BY <2>2 DEF Plus, Minus, Covers
<1>3. ASSUME NEW a \in [Denoms -> Nat] PROVE a \in [Denoms -> Int]
  OBVIOUS
<1>4. NoCoins \in [Denoms -> Nat]
  BY DEF NoCoins, Coins
<1>. QED
  BY <1>1, <1>2, <1>3, <1>4

\* What grew outside a range whose ends are stored.
LEMMA OutsideInt ==
    ASSUME NEW s, Money(s), NEW lower \in DOMAIN s.ticks, NEW upper \in DOMAIN s.ticks
    PROVE  GrowthOutside(s, lower, upper) \in [Denoms -> Int]
<1>1. /\ s.accum \in [Denoms -> Int] /\ s.ticks[lower].growth \in [Denoms -> Int]
      /\ s.ticks[upper].growth \in [Denoms -> Int]
  BY CoinsTypes DEF Money
<1>2. GrowthAbove(s, upper) \in [Denoms -> Int] /\ GrowthBelow(s, lower) \in [Denoms -> Int]
  BY <1>1, CoinsTypes DEF GrowthAbove, GrowthBelow
<1>. QED
  BY <1>2, CoinsTypes DEF GrowthOutside

\* Rewards that are not refused are numbers.
LEMMA RewardsNat ==
    ASSUME NEW s, s.accum \in [Denoms -> Nat], NEW share, share.value \in [Denoms -> Int],
           share.unclaimed \in [Denoms -> Nat], share.shares \in Nat,
           NEW outside \in [Denoms -> Int], Covers(Earned(s, share, outside), NoCoins)
    PROVE  TotalRewards(s, share, outside) \in [Denoms -> Nat]
<1>. DEFINE e == Earned(s, share, outside)
<1>1. e \in [Denoms -> Int]
  BY CoinsTypes DEF Earned
<1>2. \A d \in Denoms : e[d] >= NoCoins[d] /\ NoCoins[d] = 0
  BY DEF Covers, NoCoins, Coins
<1>. HIDE DEF e
<1>3. \A d \in Denoms : e[d] \in Nat
  BY <1>1, <1>2
<1>4. \A d \in Denoms : Mul(e[d], share.shares) \in Nat
  BY <1>3, MulNat
<1>5. Times(e, share.shares) \in [Denoms -> Nat]
  BY <1>4 DEF Times
<1>. QED
  BY <1>5, CoinsTypes DEF TotalRewards, e

\* InitOrUpdateTick.
LEMMA TickMoney ==
    ASSUME NEW s, IsStore(s), Money(s), NEW t, NEW gross, NEW net
    PROVE  LET r == AddToTick(s, t, GetTickInfo(s, t), gross, net)
           IN  IsStore(r) /\ Money(r) /\ DOMAIN r.ticks = DOMAIN s.ticks \cup {t}
               /\ r.shares = s.shares /\ r.pool = s.pool /\ r.positions = s.positions
<1>. DEFINE r == AddToTick(s, t, GetTickInfo(s, t), gross, net)
            info == GetTickInfo(s, t)
            new == TickInfo(info.gross + gross, info.net + net, info.growth)
<1>1. info.growth \in [Denoms -> Int]
  <2>1. CASE t \in DOMAIN s.ticks
    BY <2>1 DEF GetTickInfo, Money
  <2>2. CASE t \notin DOMAIN s.ticks
    <3>1. info.growth = IF s.pool.tick >= t THEN s.accum ELSE NoCoins
      BY <2>2 DEF GetTickInfo, NewTickInfo, TickInfo
    <3>. QED
      BY <3>1, CoinsTypes DEF Money
  <2>. QED
    BY <2>1, <2>2
<1>2. new.growth = info.growth
  BY DEF TickInfo
<1>3. r = [s EXCEPT !.ticks = Put(s.ticks, t, new)]
  BY DEF AddToTick
<1>. HIDE DEF new, info
<1>4. /\ IsStore(r) /\ r.ticks = Put(s.ticks, t, new) /\ r.balance = s.balance
      /\ r.fees = s.fees /\ r.accum = s.accum /\ r.shares = s.shares /\ r.pool = s.pool
      /\ r.positions = s.positions
  BY <1>3 DEF IsStore, Fields
<1>. HIDE DEF r
<1>5. /\ DOMAIN r.ticks = DOMAIN s.ticks \cup {t} /\ r.ticks[t] = new
      /\ \A u \in DOMAIN s.ticks : u # t => r.ticks[u] = s.ticks[u]
  BY <1>4 DEF Put
<1>6. \A u \in DOMAIN r.ticks : r.ticks[u].growth \in [Denoms -> Int]
  BY <1>1, <1>2, <1>5 DEF Money
<1>7. Money(r)
  BY <1>4, <1>6 DEF Money
<1>. QED
  BY <1>4, <1>5, <1>7 DEF r

\* SetAccumulatorPositionFeeAccumulator that does not fail.
LEMMA SettleMoney ==
    ASSUME NEW s, IsStore(s), Money(s), NEW id, NEW pos, NEW delta,
           pos.lower \in DOMAIN s.ticks, pos.upper \in DOMAIN s.ticks,
           id \in DOMAIN s.shares => s.shares[id].shares \in Nat,
           Settle(s, id, pos, delta).ok
    PROVE  Money(Settle(s, id, pos, delta))
<1>. DEFINE r == Settle(s, id, pos, delta)
            outside == GrowthOutside(s, pos.lower, pos.upper)
            value == Minus(s.accum, outside)
<1>1. outside \in [Denoms -> Int]
  BY OutsideInt
<1>. HIDE DEF outside
<1>2. value \in [Denoms -> Int]
  BY <1>1, CoinsTypes DEF Money
<1>3. r = SetFeeAccumulator(s, id, outside, delta)
  BY DEF Settle, outside
<1>. HIDE DEF r
<1>4. ASSUME NEW unclaimed \in [Denoms -> Nat], NEW before
      PROVE  /\ Money(SetShare(s, id, delta, value, unclaimed, before))
             /\ IsStore(SetShare(s, id, delta, value, unclaimed, before))
  <2>. DEFINE x == SetShare(s, id, delta, value, unclaimed, before)
              new == Share(before + delta, value, unclaimed)
  <2>. HIDE DEF value
  <2>1. new.value = value /\ new.unclaimed = unclaimed
    BY DEF Share
  <2>2. /\ IsStore(x) /\ x.shares = Put(s.shares, id, new) /\ x.balance = s.balance
        /\ x.fees = s.fees /\ x.accum = s.accum /\ x.ticks = s.ticks
    BY DEF SetShare, IsStore, Fields
  <2>. HIDE DEF x, new
  <2>3. \A k \in DOMAIN x.shares : /\ x.shares[k].value \in [Denoms -> Int]
                                   /\ x.shares[k].unclaimed \in [Denoms -> Nat]
    BY <1>2, <2>1, <2>2 DEF Put, Money
  <2>4. Money(x)
    BY <2>2, <2>3 DEF Money
  <2>. QED
    BY <2>2, <2>4 DEF x
<1>5. CASE id \notin DOMAIN s.shares
  <2>. DEFINE x == SetShare(s, id, delta, value, NoCoins, 0)
  <2>1. r = x \/ r = Failed(x)
    BY <1>3, <1>5 DEF SetFeeAccumulator, Check
  <2>2. Money(x) /\ IsStore(x)
    BY <1>4, CoinsTypes
  <2>. HIDE DEF x
  <2>3. r = x
    BY <2>1, <2>2, FailedStore DEF r
  <2>. QED
    BY <2>2, <2>3 DEF r
<1>6. CASE id \in DOMAIN s.shares
  <2>. DEFINE share == s.shares[id]
              covered == Covers(Earned(s, share, outside), NoCoins)
              unclaimed == TotalRewards(s, share, outside)
              x == SetShare(s, id, delta, value, unclaimed, share.shares)
  <2>1. \/ r = x /\ covered
        \/ r = Failed(x)
    BY <1>3, <1>6 DEF SetFeeAccumulator, Check
  <2>2. IsStore(x)
    BY DEF SetShare, IsStore
  <2>3. covered => unclaimed \in [Denoms -> Nat]
    BY <1>1, <1>6, RewardsNat DEF Money
  <2>. HIDE DEF covered, unclaimed, value
  <2>4. covered => Money(x)
    BY <1>4, <2>3
  <2>. HIDE DEF x
  <2>5. r = x /\ covered
    BY <2>1, <2>2, FailedStore DEF r
  <2>. QED
    BY <2>4, <2>5 DEF r
<1>. QED
  BY <1>5, <1>6

\* collectFees that does not fail: rewards are rounded down, what is left is
\* not negative.
LEMMA CollectMoney ==
    ASSUME NEW s, IsStore(s), Money(s), NEW id \in DOMAIN s.shares,
           s.positions[id].lower \in DOMAIN s.ticks, s.positions[id].upper \in DOMAIN s.ticks,
           s.shares[id].shares \in Nat, s.totalShares \in Nat, CollectFees(s, id).ok
    PROVE  Money(CollectFees(s, id))
<1>. DEFINE r == CollectFees(s, id)
            share == s.shares[id]
            outside == GrowthOutside(s, s.positions[id].lower, s.positions[id].upper)
            rewards == TotalRewards(s, share, outside)
            paid == Truncated(rewards)
            v == Minus(s.accum, outside)
            dust == DustPerShare(s, rewards, paid)
            new == Share(share.shares, v, NoCoins)
            x == [s EXCEPT
                   !.shares = IF share.shares = 0 THEN Drop(@, {id}) ELSE Put(@, id, new),
                   !.accum = Plus(@, dust),
                   !.fees = Minus(@, paid)]
<1>1. outside \in [Denoms -> Int]
  BY OutsideInt
<1>2. \/ r = x /\ Covers(Earned(s, share, outside), NoCoins) /\ Covers(s.fees, paid)
      \/ r = Failed(x) \/ r = Failed(s)
  BY DEF CollectFees, ClaimRewards, PayRewards, Check
<1>. HIDE DEF outside
<1>3. v \in [Denoms -> Int]
  BY <1>1, CoinsTypes DEF Money
<1>. HIDE DEF v, dust, paid, rewards
<1>4. /\ IsStore(x) /\ x.accum = Plus(s.accum, dust) /\ x.fees = Minus(s.fees, paid)
      /\ x.ticks = s.ticks /\ x.balance = s.balance
      /\ x.shares = IF share.shares = 0 THEN Drop(s.shares, {id}) ELSE Put(s.shares, id, new)
  BY DEF IsStore, Fields
<1>5. new.value = v /\ new.unclaimed = NoCoins
  BY DEF Share
<1>. HIDE DEF x, r, new
<1>6. r = x /\ Covers(Earned(s, share, outside), NoCoins) /\ Covers(s.fees, paid)
  BY <1>2, <1>4, FailedStore DEF r
<1>7. rewards \in [Denoms -> Nat]
  BY <1>1, <1>6, RewardsNat DEF rewards, Money
<1>8. ASSUME NEW d \in Denoms
      PROVE  paid[d] \in Nat /\ rewards[d] - Dec(paid[d]) \in Nat
  <2>1. PICK n \in Nat : n = rewards[d]
    BY <1>7
  <2>2. PICK q \in Nat : q = TruncDiv(n, Prec) /\ Prec * q <= n
    BY TruncBounds, PrecAssumption
  <2>3. paid[d] = q
    BY <2>1, <2>2 DEF paid, Truncated, TruncateInt
  <2>4. Dec(q) = Prec * q /\ Prec * q \in Nat
    BY PrecAssumption DEF Dec
  <2>. QED
    BY <2>1, <2>2, <2>3, <2>4
<1>9. paid \in [Denoms -> Nat]
  BY <1>8 DEF paid, Truncated
<1>10. dust \in [Denoms -> Nat]
  <2>1. ASSUME NEW d \in Denoms, s.totalShares # 0
        PROVE  QuoTruncate(rewards[d] - Dec(paid[d]), s.totalShares) \in Nat
    <3>1. PICK n \in Nat : n = rewards[d] - Dec(paid[d])
      BY <1>8
    <3>2. n * Prec \in Nat
      BY PrecAssumption
    <3>. QED
      BY <2>1, <3>1, <3>2, TruncBounds DEF QuoTruncate
  <2>. QED
    BY <2>1 DEF dust, DustPerShare
<1>11. x.accum \in [Denoms -> Nat] /\ x.fees \in [Denoms -> Nat]
  BY <1>4, <1>6, <1>9, <1>10, CoinsTypes DEF Money
<1>12. \A k \in DOMAIN x.shares : /\ x.shares[k].value \in [Denoms -> Int]
                                  /\ x.shares[k].unclaimed \in [Denoms -> Nat]
  <2>1. CASE share.shares = 0
    BY <1>4, <2>1 DEF Drop, Money
  <2>2. CASE share.shares # 0
    BY <1>3, <1>4, <1>5, <2>2, CoinsTypes DEF Put, Money
  <2>. QED
    BY <2>1, <2>2
<1>13. Money(x)
  BY <1>4, <1>11, <1>12 DEF Money
<1>. QED
  BY <1>6, <1>13 DEF r

-----------------------------------------------------------------------------
(***************************************************************************)
(* Swaps                                                                   *)
(***************************************************************************)
\* Where the loop of a swap may be: at a price and in its tick.
Landed(w) == w.price \in Nat \ {0} /\ w.tick \in Int /\ InTick(w.tick, w.price)

\* What every iteration keeps, for a swap that began with the store s.
SwapInv(s, c) ==
    /\ DOMAIN c = {"s", "w", "ahead", "idle", "done"}
    /\ SameBook(s, c.s) /\ c.s.pool = s.pool
    /\ c.ahead \subseteq DOMAIN s.ticks
    /\ Landed(c.w)
    /\ c.done \in BOOLEAN
    /\ c.done /\ c.s.ok => c.s.swap = c.w /\ c.w.rem >= 0

\* A failed transaction changed nothing in the book.
LEMMA SameBookFailed ==
    ASSUME NEW s, NEW r, SameBook(s, r)
    PROVE  SameBook(s, Failed(r)) /\ ~Failed(r).ok /\ Failed(r).pool = r.pool
BY DEF SameBook, Failed, IsStore, Fields

\* An iteration after its bucket has been computed.
LEMMA SwapStepKeeps ==
    ASSUME NEW s, NEW c, Good(s), SwapInv(s, c), ~c.done, NEW dir, NEW kind,
           NEW t \in c.ahead, NEW b, NEW idle, NEW growth
    PROVE  SwapInv(s, SwapStep(c, dir, kind, t, b, idle, growth))
<1>. DEFINE target == TickSqrtPrice[t]
            refused == Refused(c.w, b, dir, target, idle)
            r == SwapStep(c, dir, kind, t, b, idle, growth)
<1>1. t \in DOMAIN s.ticks /\ t \in Ticks
  BY DEF SwapInv, Good, Book, Shape
<1>2. CASE refused
  <2>1. r = Leave(c, Failed(c.s))
    BY <1>2 DEF SwapStep
  <2>2. /\ DOMAIN r = DOMAIN c /\ r.s = Failed(c.s) /\ r.done /\ r.w = c.w
        /\ r.ahead = c.ahead
    BY <2>1 DEF Leave, SwapInv
  <2>3. SameBook(s, r.s) /\ ~r.s.ok /\ r.s.pool = s.pool
    BY <2>2, SameBookFailed DEF SwapInv
  <2>. HIDE DEF r
  <2>10. SwapInv(s, r)
    BY <2>2, <2>3 DEF SwapInv
  <2>. QED
    BY <2>10 DEF r
<1>3. CASE ~refused /\ b.price = target
  <2>. DEFINE store == [c.s EXCEPT !.ticks[t] = CrossTick(c.s, t, dir, growth)]
              w == Moved(c.w, b, kind, growth, NextTickAfterCrossing(dir, t),
                         c.w.liq + GetLiquidityDeltaSign(dir, c.s.ticks[t].net))
  <2>1. r = Loop(store, w, c.ahead \ {t}, idle, FALSE)
    BY <1>3 DEF SwapStep
  <2>2. w.price = target /\ w.tick = NextTickAfterCrossing(dir, t)
    BY <1>3 DEF Moved, SwapState
  <2>3. Landed(w)
    <3>. HIDE DEF w
    <3>. QED
      BY <1>1, <2>2, CrossedInTick, PoolAssumption DEF Landed
  <2>4. SameBook(s, store) /\ store.pool = s.pool
    <3>1. /\ IsStore(c.s) /\ DOMAIN c.s.ticks = DOMAIN s.ticks
          /\ DOMAIN c.s.ticks[t] = TickFields
      BY <1>1 DEF SwapInv, SameBook
    <3>. DEFINE x == CrossTick(c.s, t, dir, growth)
    <3>2. DOMAIN x = TickFields /\ x.gross = c.s.ticks[t].gross /\ x.net = c.s.ticks[t].net
      BY <3>1 DEF CrossTick, TickFields
    <3>. HIDE DEF x
    <3>3. /\ IsStore(store) /\ store.positions = c.s.positions /\ store.index = c.s.index
          /\ store.count = c.s.count /\ store.totalShares = c.s.totalShares
          /\ store.shares = c.s.shares /\ store.pool = c.s.pool
          /\ store.ticks = [c.s.ticks EXCEPT ![t] = x]
      BY <3>1 DEF IsStore, Fields, x
    <3>. HIDE DEF store
    <3>4. /\ DOMAIN store.ticks = DOMAIN s.ticks
          /\ \A u \in DOMAIN s.ticks :
                /\ DOMAIN store.ticks[u] = TickFields
                /\ store.ticks[u].gross = s.ticks[u].gross
                /\ store.ticks[u].net = s.ticks[u].net
      BY <3>1, <3>2, <3>3 DEF SwapInv, SameBook
    <3>. QED
      BY <3>3, <3>4 DEF SwapInv, SameBook
  <2>. HIDE DEF store, w
  <2>5. /\ DOMAIN r = {"s", "w", "ahead", "idle", "done"} /\ r.s = store /\ r.w = w
        /\ r.ahead = c.ahead \ {t} /\ r.done = FALSE
    BY <2>1 DEF Loop
  <2>. HIDE DEF r
  <2>10. SwapInv(s, r)
    BY <2>3, <2>4, <2>5 DEF SwapInv
  <2>. QED
    BY <2>10 DEF r
<1>4. CASE ~refused /\ b.price # target
  <2>. DEFINE tick == IF b.price = c.w.price THEN c.w.tick ELSE TickOf(b.price)
              w == Moved(c.w, b, kind, growth, tick, c.w.liq)
  <2>1. r = Loop(c.s, w, c.ahead, idle, FALSE)
    BY <1>4 DEF SwapStep
  <2>2. w.price = b.price /\ w.tick = tick
    BY DEF Moved, SwapState
  <2>3. b.price = c.w.price \/ HasTick(b.price)
    BY <1>4 DEF Refused
  <2>. HIDE DEF w
  <2>4. Landed(w)
    <3>1. CASE b.price = c.w.price
      BY <2>2, <3>1 DEF SwapInv, Landed
    <3>2. CASE b.price # c.w.price
      BY <2>2, <2>3, <3>2, TickOfPrice DEF Landed
    <3>. QED
      BY <3>1, <3>2
  <2>5. /\ DOMAIN r = {"s", "w", "ahead", "idle", "done"} /\ r.s = c.s /\ r.w = w
        /\ r.ahead = c.ahead /\ r.done = FALSE
    BY <2>1 DEF Loop
  <2>. HIDE DEF r
  <2>10. SwapInv(s, r)
    BY <2>4, <2>5 DEF SwapInv
  <2>. QED
    BY <2>10 DEF r
<1>. QED
  BY <1>2, <1>3, <1>4

\* An iteration: leaving the loop, or a step towards the nearest tick.
LEMMA IterationKeeps ==
    ASSUME NEW s, NEW c, Good(s), SwapInv(s, c), NEW dir, NEW kind
    PROVE  SwapInv(s, Iteration(c, dir, kind))
<1>. DEFINE r == Iteration(c, dir, kind)
<1>1. CASE c.done
  BY <1>1 DEF Iteration
<1>2. CASE ~c.done /\ Ended(c.w, dir)
  <2>. DEFINE x == [c.s EXCEPT !.swap = c.w]
              y == Check(x, c.w.rem >= 0)
  <2>1. r = Leave(c, y)
    BY <1>2 DEF Iteration, Check
  <2>2. SameBook(s, x) /\ x.pool = s.pool /\ x.swap = c.w
    BY DEF SwapInv, SameBook, IsStore, Fields
  <2>3. SameBook(s, y) /\ y.pool = s.pool /\ (y.ok => y.swap = c.w /\ c.w.rem >= 0)
    <3>. HIDE DEF x
    <3>. QED
      BY <2>2, SameBookFailed DEF Check
  <2>. HIDE DEF y
  <2>4. /\ DOMAIN r = DOMAIN c /\ r.s = y /\ r.done /\ r.w = c.w /\ r.ahead = c.ahead
    BY <2>1 DEF Leave, SwapInv
  <2>. HIDE DEF r
  <2>10. SwapInv(s, r)
    BY <2>3, <2>4 DEF SwapInv
  <2>. QED
    BY <2>10 DEF r
<1>3. CASE ~c.done /\ ~Ended(c.w, dir) /\ c.ahead = {}
  <2>1. r = Leave(c, Failed(c.s))
    BY <1>3 DEF Iteration
  <2>2. /\ DOMAIN r = DOMAIN c /\ r.s = Failed(c.s) /\ r.done /\ r.w = c.w
        /\ r.ahead = c.ahead
    BY <2>1 DEF Leave, SwapInv
  <2>3. SameBook(s, r.s) /\ ~r.s.ok /\ r.s.pool = s.pool
    BY <2>2, SameBookFailed DEF SwapInv
  <2>. HIDE DEF r
  <2>10. SwapInv(s, r)
    BY <2>2, <2>3 DEF SwapInv
  <2>. QED
    BY <2>10 DEF r
<1>4. CASE ~c.done /\ ~Ended(c.w, dir) /\ c.ahead # {}
  <2>. DEFINE t == Nearest(c.ahead, dir)
  <2>1. r = SwapTowards(c, dir, kind, t)
    BY <1>4 DEF Iteration
  <2>2. t \in c.ahead
    <3>1. c.ahead \subseteq Ticks /\ IsFiniteSet(c.ahead) /\ c.ahead \subseteq Int
      BY FS_Subset, PoolAssumption DEF SwapInv, Good, Book, Shape
    <3>. QED
      BY <1>4, <3>1, MaxMin DEF Nearest
  <2>. HIDE DEF t
  <2>. QED
    BY <1>4, <2>1, <2>2, SwapStepKeeps DEF SwapTowards, SwapTo
<1>. QED
  BY <1>1, <1>2, <1>3, <1>4 DEF SwapInv

\* The loop counts what it should: unless it took too much, which ends it, the
\* liquidity of the swap is that of the positions around its tick, and the ticks
\* ahead are those it has not reached.
Counted(s, c, dir) ==
    /\ c.w.rem \in Int /\ c.w.calc \in Int /\ c.w.fees \in Nat /\ c.w.growth \in Nat
    /\ c.w.rem >= 0 =>
         /\ c.w.liq = AtTick(s, c.w.tick)
         /\ c.ahead = {t \in DOMAIN s.ticks : IF dir = "down" THEN t <= c.w.tick ELSE t > c.w.tick}
    /\ Money(c.s)

\* The store of the loop when it fails or is left.
LEMMA MoneyLeft ==
    ASSUME NEW s, IsStore(s), Money(s), NEW w, NEW cond
    PROVE  Money(Failed(s)) /\ Money(Check([s EXCEPT !.swap = w], cond))
<1>1. ASSUME NEW x, IsStore(x), Money(x)
      PROVE  Money(Failed(x))
  <2>1. /\ Failed(x).balance = x.balance /\ Failed(x).fees = x.fees /\ Failed(x).accum = x.accum
        /\ Failed(x).shares = x.shares /\ Failed(x).ticks = x.ticks
    BY <1>1 DEF Failed, IsStore, Fields
  <2>. QED
    BY <1>1, <2>1, MoneyOfSame
<1>. DEFINE y == [s EXCEPT !.swap = w]
<1>2. /\ IsStore(y) /\ y.balance = s.balance /\ y.fees = s.fees /\ y.accum = s.accum
      /\ y.shares = s.shares /\ y.ticks = s.ticks
  BY DEF IsStore, Fields
<1>. HIDE DEF y
<1>3. Money(y)
  BY <1>2, MoneyOfSame
<1>4. Money(Check(y, cond))
  BY <1>1, <1>2, <1>3 DEF Check
<1>. QED
  BY <1>1, <1>4 DEF y

\* A bucket that is not refused.
LEMMA BucketMoves ==
    ASSUME Rated, NEW dir \in {"down", "up"}, NEW kind, NEW w, NEW target \in Nat \ {0},
           w.price \in Nat \ {0}, w.liq \in Nat, w.rem \in Nat,
           IF dir = "down" THEN target <= w.price ELSE w.price <= target,
           w.price >= One \/ w.liq = 0 \/ w.liq * (One - feeRate) >= 10 * (Prec * Prec),
           NEW idle, ~Refused(w, NextBucket(w, target, dir, kind), dir, target, idle)
    PROVE  LET b == NextBucket(w, target, dir, kind)
           IN  /\ b.price \in Nat \ {0} /\ b.in \in Int /\ b.out \in Int /\ b.fee \in Nat
               /\ \/ kind = "in" /\ b.in > w.rem
                  \/ IF dir = "down" THEN target <= b.price /\ b.price <= w.price
                                     ELSE w.price <= b.price /\ b.price <= target
<1>. DEFINE b == NextBucket(w, target, dir, kind)
<1>1. /\ b.ok /\ ~Passed(dir, b.price, target)
      /\ b.price \in {w.price, target} \/ HasTick(b.price)
  BY DEF Refused
<1>2. PICK price \in Nat \ {0}, liq \in Nat, rem \in Nat :
        price = w.price /\ liq = w.liq /\ rem = w.rem
  OBVIOUS
<1>3. Moving(b, price, dir, kind = "in" /\ b.in > rem)
  <2>1. CASE kind = "in"
    <3>1. b = BucketGivenIn(dir, price, target, liq, rem, Mul(rem, One - feeRate))
      BY <1>2, <2>1 DEF NextBucket
    <3>. HIDE DEF b
    <3>2. Moving(b, price, dir, b.in > rem)
      BY <1>1, <1>2, <3>1, GivenInMoves
    <3>. QED
      BY <2>1, <3>2 DEF Moving
  <2>2. CASE kind # "in"
    <3>1. b = BucketGivenOut(dir, price, target, liq, rem)
      BY <1>2, <2>2 DEF NextBucket
    <3>. HIDE DEF b
    <3>. QED
      BY <1>1, <1>2, <2>2, <3>1, GivenOutMoves DEF Moving
  <2>. QED
    BY <2>1, <2>2
<1>. HIDE DEF b
<1>4. b.price \in Nat \ {0}
  BY <1>1, <1>2, TickOfPrice
<1>5. b.in \in Int /\ b.out \in Int /\ b.fee \in Nat
  BY <1>3, <1>4 DEF Moving
<1>6. \/ kind = "in" /\ b.in > rem
      \/ IF dir = "down" THEN target <= b.price /\ b.price <= price
                         ELSE price <= b.price /\ b.price <= target
  BY <1>1, <1>3, <1>4 DEF Moving, Passed
<1>. QED
  BY <1>2, <1>4, <1>5, <1>6 DEF b

\* The growth of the fees by a bucket.
LEMMA GrowthNat ==
    ASSUME NEW w, NEW b, w.growth \in Nat, w.liq \in Nat, b.fee \in Nat
    PROVE  FeeGrowth(w, b) \in Nat
<1>1. w.liq # 0 => QuoTruncate(b.fee, w.liq) \in Nat
  <2>1. b.fee * Prec \in Nat
    BY PrecAssumption
  <2>. QED
    BY <2>1, TruncBounds DEF QuoTruncate
<1>. QED
  BY <1>1 DEF FeeGrowth

\* The price a step aims at is that of the tick.
LEMMA TargetIsTick ==
    ASSUME NEW t \in Ticks, NEW dir
    PROVE  GetSqrtTargetPrice(dir, TickSqrtPrice[t]) = TickSqrtPrice[t]
BY PoolAssumption DEF GetSqrtTargetPrice, SqrtPriceLimit, Passed

\* The state of the swap after a bucket.
LEMMA MovedTypes ==
    ASSUME NEW w, NEW b, NEW kind, NEW growth \in Nat, NEW tick, NEW liq,
           w.rem \in Int, w.calc \in Int, w.fees \in Nat,
           b.in \in Int, b.out \in Int, b.fee \in Nat
    PROVE  LET r == Moved(w, b, kind, growth, tick, liq)
           IN  /\ r.rem \in Int /\ r.calc \in Int /\ r.fees \in Nat /\ r.growth \in Nat
               /\ r.price = b.price /\ r.tick = tick /\ r.liq = liq
               /\ kind = "in" /\ b.in > w.rem => r.rem < 0
BY DEF Moved, SwapState

\* The tick that is crossed: the store.
LEMMA CrossMoney ==
    ASSUME NEW s, IsStore(s), Money(s), NEW t \in DOMAIN s.ticks,
           DOMAIN s.ticks[t] = TickFields, NEW dir, NEW growth \in Nat
    PROVE  Money([s EXCEPT !.ticks[t] = CrossTick(s, t, dir, growth)])
<1>. DEFINE x == CrossTick(s, t, dir, growth)
            grown == [s.accum EXCEPT ![DenomIn(dir)] = @ + growth]
            r == [s EXCEPT !.ticks[t] = x]
<1>1. x.growth = Minus(grown, s.ticks[t].growth)
  BY DEF CrossTick, TickFields
<1>2. grown \in [Denoms -> Int]
  BY DEF Money, DenomIn, Denoms
<1>3. x.growth \in [Denoms -> Int]
  BY <1>1, <1>2, CoinsTypes DEF Money
<1>. HIDE DEF x
<1>4. /\ r.balance = s.balance /\ r.fees = s.fees /\ r.accum = s.accum /\ r.shares = s.shares
      /\ r.ticks = [s.ticks EXCEPT ![t] = x]
  BY DEF IsStore, Fields
<1>. HIDE DEF r
<1>5. \A u \in DOMAIN r.ticks : r.ticks[u].growth \in [Denoms -> Int]
  BY <1>3, <1>4 DEF Money
<1>6. Money(r)
  BY <1>4, <1>5 DEF Money
<1>. QED
  BY <1>6 DEF r, x

\* An iteration towards the nearest tick.
LEMMA StepCounts ==
    ASSUME Rated, NEW s, Good(s), Deep(s), NEW c, SwapInv(s, c), ~c.done,
           NEW dir \in {"down", "up"}, NEW kind, Counted(s, c, dir), c.w.rem > 0,
           NEW t \in c.ahead, t = Nearest(c.ahead, dir)
    PROVE  Counted(s, SwapTowards(c, dir, kind, t), dir)
<1>. DEFINE w == c.w
            target == TickSqrtPrice[t]
            b == NextBucket(w, target, dir, kind)
            idle == c.idle + (IF Given(kind, b) = 0 THEN 1 ELSE 0)
            growth == FeeGrowth(w, b)
            refused == Refused(w, b, dir, target, idle)
            r == SwapTowards(c, dir, kind, t)
<1>1. r = SwapStep(c, dir, kind, t, b, idle, growth)
  <2>1. t \in Ticks
    BY DEF SwapInv, Good, Book, Shape
  <2>. QED
    BY <2>1, TargetIsTick DEF SwapTowards, SwapTo
<1>2. /\ Shape(s) /\ TickSums(s) /\ DOMAIN s.ticks = Ends(s)
      /\ SameBook(s, c.s) /\ IsStore(c.s) /\ Money(c.s) /\ DOMAIN c.s.ticks = DOMAIN s.ticks
      /\ DOMAIN c = {"s", "w", "ahead", "idle", "done"}
  BY DEF Good, Book, SwapInv, Counted, SameBook
<1>3. /\ c.ahead = {u \in DOMAIN s.ticks : IF dir = "down" THEN u <= w.tick ELSE u > w.tick}
      /\ w.rem \in Int /\ w.calc \in Int /\ w.fees \in Nat /\ w.growth \in Nat
      /\ w.liq = AtTick(s, w.tick)
  BY DEF Counted
<1>4. w.price \in Nat \ {0} /\ w.tick \in Int /\ InTick(w.tick, w.price)
  BY DEF SwapInv, Landed
<1>5. /\ DOMAIN s.ticks \subseteq Ticks /\ DOMAIN s.ticks \subseteq Int
      /\ t \in DOMAIN s.ticks /\ t \in Ticks /\ t \in Int /\ target \in Nat \ {0}
  BY <1>2, <1>3, PoolAssumption DEF Shape
<1>6. IF dir = "down" THEN t <= w.tick /\ target <= w.price ELSE t > w.tick /\ w.price <= target
  BY <1>3, <1>4, <1>5 DEF InTick
\* No stored tick lies between the tick of the swap and the nearest one.
<1>7. \A u \in DOMAIN s.ticks : IF dir = "down" THEN u <= w.tick => u <= t
                                                ELSE u > w.tick => u >= t
  <2>1. IsFiniteSet(c.ahead) /\ c.ahead \subseteq Int /\ c.ahead # {}
    BY <1>3, <1>5, PoolAssumption, FS_Subset
  <2>2. \A u \in c.ahead : IF dir = "down" THEN t >= u ELSE t <= u
    BY <2>1, MaxMin DEF Nearest
  <2>3. \A u \in DOMAIN s.ticks : u \in Int
    BY <1>5
  <2>. HIDE DEF w
  <2>. QED
    BY <1>3, <1>5, <2>2, <2>3
<1>8. w.liq \in Nat
  BY <1>2, <1>3, AtTickNat
<1>9. w.price >= One \/ w.liq = 0 \/ w.liq * (One - feeRate) >= 10 * (Prec * Prec)
  <2>1. w.price \in Nat
    BY <1>4
  <2>. HIDE DEF w
  <2>. QED
    BY <1>2, <1>3, <1>4, <2>1, DeepAtTick
<1>10. w.rem \in Nat
  BY <1>3
<1>11. CASE refused
  <2>1. r = Leave(c, Failed(c.s))
    BY <1>1, <1>11 DEF SwapStep
  <2>2. r.s = Failed(c.s) /\ r.w = c.w /\ r.ahead = c.ahead
    BY <1>2, <2>1 DEF Leave
  <2>3. Money(Failed(c.s))
    BY <1>2, MoneyLeft
  <2>. HIDE DEF r, w
  <2>4. Counted(s, r, dir)
    BY <2>2, <2>3 DEF Counted
  <2>. QED
    BY <2>4 DEF r
<1>. HIDE DEF w, r, target, idle
<1>12. ASSUME ~refused
       PROVE  /\ b.price \in Nat \ {0} /\ b.in \in Int /\ b.out \in Int /\ b.fee \in Nat
              /\ \/ kind = "in" /\ b.in > w.rem
                 \/ IF dir = "down" THEN target <= b.price /\ b.price <= w.price
                                    ELSE w.price <= b.price /\ b.price <= target
              /\ growth \in Nat
  <2>1. /\ b.price \in Nat \ {0} /\ b.in \in Int /\ b.out \in Int /\ b.fee \in Nat
        /\ \/ kind = "in" /\ b.in > w.rem
           \/ IF dir = "down" THEN target <= b.price /\ b.price <= w.price
                              ELSE w.price <= b.price /\ b.price <= target
    BY <1>4, <1>5, <1>6, <1>8, <1>9, <1>10, <1>12, BucketMoves
  <2>. HIDE DEF b
  <2>2. growth \in Nat
    BY <1>3, <1>8, <2>1, GrowthNat
  <2>. QED
    BY <2>1, <2>2
<1>. HIDE DEF b, growth
<1>13. CASE ~refused /\ b.price = target
  <2>. DEFINE store == [c.s EXCEPT !.ticks[t] = CrossTick(c.s, t, dir, growth)]
              k == NextTickAfterCrossing(dir, t)
              net == c.s.ticks[t].net
              x == Moved(w, b, kind, growth, k, w.liq + GetLiquidityDeltaSign(dir, net))
  <2>1. r = Loop(store, x, c.ahead \ {t}, idle, FALSE)
    BY <1>1, <1>13 DEF SwapStep, target, w
  <2>2. /\ x.rem \in Int /\ x.calc \in Int /\ x.fees \in Nat /\ x.growth \in Nat
        /\ x.tick = k /\ x.liq = w.liq + GetLiquidityDeltaSign(dir, net)
    BY <1>3, <1>12, <1>13, MovedTypes
  <2>3. Money(store)
    <3>1. DOMAIN c.s.ticks[t] = TickFields
      BY <1>2, <1>5 DEF SameBook
    <3>. QED
      BY <1>2, <1>5, <1>12, <1>13, <3>1, CrossMoney
  <2>4. net = Opened(s, t) - Closed(s, t)
    BY <1>2, <1>5 DEF SameBook, TickSums, Net
  <2>. HIDE DEF store, x, net
  <2>5. PICK o \in Int, e \in Int, below \in Int, at \in Int :
          /\ o = Opened(s, t) /\ e = Closed(s, t) /\ below = AtTick(s, t - 1) /\ at = AtTick(s, t)
          /\ at + e = below + o
    <3>1. Opened(s, t) \in Int /\ Closed(s, t) \in Int
      BY <1>2, LiquidityType
    <3>2. AtTick(s, t - 1) \in Int /\ AtTick(s, t) \in Int
      BY <1>2, AtTickNat
    <3>3. AtTick(s, t) + Closed(s, t) = AtTick(s, t - 1) + Opened(s, t)
      BY <1>2, <1>5, <3>1, <3>2, AtTickCrossed
    <3>. QED
      BY <3>1, <3>2, <3>3
  <2>6. x.liq = AtTick(s, k)
    <3>1. CASE dir = "down"
      <4>1. \A u \in Ends(s) : u <= w.tick <=> u <= t
        BY <1>2, <1>4, <1>5, <1>6, <1>7, <3>1
      <4>2. w.liq = at
        <5>1. AtTick(s, w.tick) = AtTick(s, t)
          BY <1>2, <1>4, <1>5, <4>1, AtTickBetween
        <5>. QED
          BY <1>3, <2>5, <5>1
      <4>3. k = t - 1 /\ x.liq = w.liq + -net
        BY <2>2, <3>1 DEF NextTickAfterCrossing, GetLiquidityDeltaSign
      <4>. QED
        BY <2>4, <2>5, <4>2, <4>3
    <3>2. CASE dir = "up"
      <4>1. \A u \in Ends(s) : u <= w.tick <=> u <= t - 1
        BY <1>2, <1>4, <1>5, <1>6, <1>7, <3>2
      <4>2. w.liq = below
        <5>1. t - 1 \in Int
          BY <1>5
        <5>. QED
          BY <1>2, <1>3, <1>4, <2>5, <4>1, <5>1, AtTickBetween
      <4>3. k = t /\ x.liq = w.liq + net
        BY <2>2, <3>2 DEF NextTickAfterCrossing, GetLiquidityDeltaSign
      <4>. QED
        BY <2>4, <2>5, <4>2, <4>3
    <3>. QED
      BY <3>1, <3>2
  <2>7. c.ahead \ {t} = {u \in DOMAIN s.ticks : IF dir = "down" THEN u <= k ELSE u > k}
    <3>1. ASSUME NEW u \in DOMAIN s.ticks
          PROVE  (u \in c.ahead /\ u # t) <=> (IF dir = "down" THEN u <= k ELSE u > k)
      <4>1. u \in Int /\ (u \in c.ahead <=> IF dir = "down" THEN u <= w.tick ELSE u > w.tick)
        BY <1>3, <1>5
      <4>2. k = IF dir = "down" THEN t - 1 ELSE t
        BY DEF NextTickAfterCrossing
      <4>3. IF dir = "down" THEN u <= w.tick => u <= t ELSE u > w.tick => u >= t
        BY <1>7
      <4>. HIDE DEF k
      <4>. QED
        BY <1>4, <1>5, <1>6, <4>1, <4>2, <4>3
    <3>2. c.ahead \subseteq DOMAIN s.ticks
      BY <1>3
    <3>. HIDE DEF k
    <3>. QED
      BY <3>1, <3>2
  <2>8. r.s = store /\ r.w = x /\ r.ahead = c.ahead \ {t}
    BY <2>1 DEF Loop
  <2>. HIDE DEF k
  <2>9. Counted(s, r, dir)
    BY <2>2, <2>3, <2>6, <2>7, <2>8 DEF Counted
  <2>. QED
    BY <2>9 DEF r
<1>14. CASE ~refused /\ b.price # target
  <2>. DEFINE k == IF b.price = w.price THEN w.tick ELSE TickOf(b.price)
              x == Moved(w, b, kind, growth, k, w.liq)
  <2>1. r = Loop(c.s, x, c.ahead, idle, FALSE)
    BY <1>1, <1>14 DEF SwapStep, target, w
  <2>2. /\ x.rem \in Int /\ x.calc \in Int /\ x.fees \in Nat /\ x.growth \in Nat
        /\ x.tick = k /\ x.liq = w.liq
        /\ x.rem >= 0 => ~(kind = "in" /\ b.in > w.rem)
    BY <1>3, <1>12, <1>14, MovedTypes
  <2>. HIDE DEF x
  <2>3. b.price # w.price => HasTick(b.price)
    BY <1>14 DEF Refused
  <2>4. k \in Int
    BY <1>4, <2>3, TickOfPrice
  <2>5. x.rem >= 0 => \A u \in DOMAIN s.ticks : u <= w.tick <=> u <= k
    <3>1. CASE b.price = w.price
      BY <3>1
    <3>2. CASE b.price # w.price
      <4>1. SUFFICES ASSUME x.rem >= 0, NEW u \in DOMAIN s.ticks
                     PROVE  u <= w.tick <=> u <= k
        OBVIOUS
      <4>2. PICK p \in Nat : u \in Ticks /\ u \in Int /\ p = TickSqrtPrice[u]
        BY <1>5, PoolAssumption
      <4>3. u <= k <=> p <= b.price
        BY <2>3, <3>2, <4>2, TickOfPrice
      <4>4. /\ u <= w.tick => p <= w.price
            /\ u > w.tick => w.price <= p
        BY <1>4, <4>2 DEF InTick
      <4>5. /\ u <= t <=> p <= target
            /\ u >= t <=> p >= target
        BY <1>5, <4>2, PricesOrdered DEF target
      <4>6. IF dir = "down" THEN u <= w.tick => u <= t ELSE u > w.tick => u >= t
        BY <1>7
      <4>. HIDE DEF k
      <4>. QED
        BY <1>4, <1>5, <1>12, <1>14, <2>2, <3>2, <4>1, <4>2, <4>3, <4>4, <4>5, <4>6
    <3>. QED
      BY <3>1, <3>2
  <2>. HIDE DEF k
  <2>6. x.rem >= 0 => AtTick(s, w.tick) = AtTick(s, k)
    BY <1>2, <1>4, <2>4, <2>5, AtTickBetween
  <2>7. ASSUME x.rem >= 0
        PROVE  c.ahead = {u \in DOMAIN s.ticks : IF dir = "down" THEN u <= k ELSE u > k}
    <3>1. \A u \in DOMAIN s.ticks : u \in Int
      BY <1>5
    <3>2. \A u \in DOMAIN s.ticks : u > w.tick <=> u > k
      BY <1>4, <2>4, <2>5, <2>7, <3>1
    <3>. QED
      BY <1>3, <2>5, <2>7, <3>2
  <2>8. r.s = c.s /\ r.w = x /\ r.ahead = c.ahead
    BY <2>1 DEF Loop
  <2>9. Counted(s, r, dir)
    BY <1>2, <1>3, <2>2, <2>6, <2>7, <2>8 DEF Counted
  <2>. QED
    BY <2>9 DEF r
<1>. QED
  BY <1>11, <1>13, <1>14 DEF r

\* Any iteration.
LEMMA IterationCounts ==
    ASSUME Rated, NEW s, Good(s), Deep(s), NEW c, SwapInv(s, c), NEW dir \in {"down", "up"},
           NEW kind, Counted(s, c, dir)
    PROVE  Counted(s, Iteration(c, dir, kind), dir)
<1>. DEFINE r == Iteration(c, dir, kind)
<1>1. IsStore(c.s) /\ Money(c.s) /\ DOMAIN c = {"s", "w", "ahead", "idle", "done"} /\ c.w.rem \in Int
  BY DEF SwapInv, SameBook, Counted
<1>2. CASE c.done
  BY <1>2 DEF Iteration
<1>3. ASSUME NEW x, Money(x), r = Leave(c, x)
      PROVE  Counted(s, r, dir)
  <2>1. r.s = x /\ r.w = c.w /\ r.ahead = c.ahead
    BY <1>1, <1>3 DEF Leave
  <2>. HIDE DEF r
  <2>. QED
    BY <1>3, <2>1 DEF Counted
<1>4. CASE ~c.done /\ Ended(c.w, dir)
  <2>. DEFINE x == Check([c.s EXCEPT !.swap = c.w], c.w.rem >= 0)
  <2>1. r = Leave(c, x)
    BY <1>4 DEF Iteration
  <2>2. Money(x)
    BY <1>1, MoneyLeft
  <2>. HIDE DEF r, x
  <2>3. Counted(s, r, dir)
    BY <1>3, <2>1, <2>2
  <2>. QED
    BY <2>3 DEF r
<1>5. CASE ~c.done /\ ~Ended(c.w, dir) /\ c.ahead = {}
  <2>1. r = Leave(c, Failed(c.s))
    BY <1>5 DEF Iteration
  <2>2. Money(Failed(c.s))
    BY <1>1, MoneyLeft
  <2>. HIDE DEF r
  <2>3. Counted(s, r, dir)
    BY <1>3, <2>1, <2>2
  <2>. QED
    BY <2>3 DEF r
<1>6. CASE ~c.done /\ ~Ended(c.w, dir) /\ c.ahead # {}
  <2>. DEFINE t == Nearest(c.ahead, dir)
  <2>1. r = SwapTowards(c, dir, kind, t)
    BY <1>6 DEF Iteration
  <2>2. t \in c.ahead
    <3>1. c.ahead \subseteq Ticks /\ IsFiniteSet(c.ahead) /\ c.ahead \subseteq Int
      BY FS_Subset, PoolAssumption DEF SwapInv, Good, Book, Shape
    <3>. QED
      BY <1>6, <3>1, MaxMin DEF Nearest
  <2>3. PICK u \in c.ahead : u = t
    BY <2>2
  <2>4. Counted(s, SwapTowards(c, dir, kind, u), dir)
    BY <1>6, <2>3, StepCounts DEF Ended
  <2>. HIDE DEF t
  <2>. QED
    BY <2>1, <2>3, <2>4
<1>. QED
  BY <1>2, <1>4, <1>5, <1>6 DEF SwapInv

\* What every iteration keeps, of a sound and deep pool also the counting.
Kept(s, c, dir) ==
    /\ SwapInv(s, c)
    /\ Sound(s) /\ Deep(s) => Counted(s, c, dir)

\* All iterations.
LEMMA LoopKeeps ==
    ASSUME Rated, NEW s, Good(s), NEW c, NEW dir \in {"down", "up"}, Kept(s, c, dir),
           NEW kind, NEW n \in Nat
    PROVE  Kept(s, Iterated(c, dir, kind)[n], dir)
<1>. DEFINE run == Iterated(c, dir, kind)
            Bad == {k \in Nat : ~Kept(s, run[k], dir)}
<1>1. run[0] = c /\ \A k \in Nat : run[k + 1] = Iteration(run[k], dir, kind)
  BY IteratedUnfold
<1>. HIDE DEF run
<1>2. SUFFICES ASSUME ~Kept(s, run[n], dir) PROVE FALSE
  BY DEF run
<1>3. Bad # {} /\ Bad \subseteq Nat
  BY <1>2
<1>4. PICK k \in Bad : \A j \in Bad : k <= j
  <2>. HIDE DEF Bad
  <2>. QED
    BY <1>3, LeastNatural
<1>5. k \in Nat /\ ~Kept(s, run[k], dir)
  OBVIOUS
<1>6. k # 0
  BY <1>1, <1>5
<1>7. k - 1 \in Nat /\ (k - 1) + 1 = k /\ ~(k <= k - 1)
  BY <1>5, <1>6
<1>8. Kept(s, run[k - 1], dir)
  <2>1. k - 1 \notin Bad
    <3>. HIDE DEF Bad
    <3>. QED
      BY <1>4, <1>7
  <2>. QED
    BY <1>7, <2>1
<1>9. run[k] = Iteration(run[k - 1], dir, kind)
  BY <1>1, <1>7
<1>. QED
  BY <1>5, <1>8, <1>9, IterationKeeps, IterationCounts DEF Kept

\* The store with which the loop is left.
LEMMA SwapLoopKeeps ==
    ASSUME Rated, NEW s, Good(s), NEW w, Landed(w), NEW dir \in {"down", "up"}, NEW kind,
           w.rem \in Int /\ w.calc = 0 /\ w.fees = 0 /\ w.growth = 0,
           w.liq = s.pool.liquidity /\ w.tick = s.pool.tick,
           SwapLoop(s, w, dir, kind).ok
    PROVE  LET r == SwapLoop(s, w, dir, kind)
           IN  /\ SameBook(s, r) /\ r.pool = s.pool /\ Landed(r.swap)
               /\ Sound(s) /\ Deep(s) =>
                    /\ r.swap.rem \in Int /\ r.swap.calc \in Int
                    /\ r.swap.fees \in Nat /\ r.swap.growth \in Nat
                    /\ r.swap.liq = AtTick(s, r.swap.tick)
                    /\ Money(r)
<1>. DEFINE c == Loop(s, w, Ahead(s, dir), 0, FALSE)
            e == Iterated(c, dir, kind)[MaxIterations]
<1>1. SameBook(s, s)
  BY DEF Good, Book, Shape, SameBook
<1>2. Ahead(s, dir) \subseteq DOMAIN s.ticks
  BY DEF Ahead
<1>3. Kept(s, c, dir)
  <2>1. /\ DOMAIN c = {"s", "w", "ahead", "idle", "done"} /\ c.s = s /\ c.w = w
        /\ c.ahead = Ahead(s, dir) /\ c.done = FALSE
    BY DEF Loop
  <2>. HIDE DEF c
  <2>2. SwapInv(s, c)
    BY <1>1, <1>2, <2>1 DEF SwapInv
  <2>3. Sound(s) => Counted(s, c, dir)
    BY <2>1 DEF Counted, Sound, Active, Ahead
  <2>. QED
    BY <2>2, <2>3 DEF Kept
<1>. HIDE DEF c
<1>4. Kept(s, e, dir) /\ SwapInv(s, e)
  BY <1>3, LoopKeeps, PoolAssumption DEF Kept
<1>5. SwapLoop(s, w, dir, kind) = LeftWith(e)
  BY DEF SwapLoop, c
<1>. HIDE DEF e
<1>6. e.done /\ LeftWith(e) = e.s
  <2>1. CASE ~e.done
    <3>1. LeftWith(e) = Failed(e.s)
      BY <2>1 DEF LeftWith
    <3>. QED
      BY <1>4, <1>5, <3>1, FailedStore DEF SwapInv, SameBook
  <2>. QED
    BY <2>1 DEF LeftWith
<1>7. e.s.swap = e.w /\ e.w.rem >= 0 /\ SameBook(s, e.s) /\ e.s.pool = s.pool /\ Landed(e.w)
  BY <1>4, <1>5, <1>6 DEF SwapInv
<1>8. Sound(s) /\ Deep(s) => Counted(s, e, dir)
  BY <1>4 DEF Kept
<1>. QED
  BY <1>5, <1>6, <1>7, <1>8 DEF Counted

\* A swap that is carried out leaves the stores in agreement and the price in
\* its tick.
LEMMA SwapGood ==
    ASSUME Rated, NEW s, Good(s), NEW dir \in {"down", "up"}, NEW kind, NEW amount \in Nat,
           Swap(s, dir, kind, amount).ok
    PROVE  /\ Good(Swap(s, dir, kind, amount))
           /\ Sound(s) /\ Deep(s) => Sound(Swap(s, dir, kind, amount))
<1>. DEFINE r == Swap(s, dir, kind, amount)
            w == SwapState(Dec(amount), 0, s.pool.sqrtPrice, s.pool.tick,
                           s.pool.liquidity, 0, 0)
            x == SwapLoop(s, w, dir, kind)
            paid == Paid(kind, amount, x.swap)
            received == Received(kind, amount, x.swap)
            charged == TruncateInt(Ceil(x.swap.fees))
            y == [x EXCEPT
                   !.accum[DenomIn(dir)] = @ + x.swap.growth,
                   !.balance[DenomIn(dir)] = @ + paid - charged,
                   !.balance[DenomOut(dir)] = @ - received,
                   !.fees[DenomIn(dir)] = @ + charged,
                   !.pool = [tick |-> x.swap.tick, sqrtPrice |-> x.swap.price,
                             liquidity |-> x.swap.liq],
                   !.swap = <<>>]
<1>1. HasPosition(s.pool) /\ ~Passed(dir, s.pool.sqrtPrice, SqrtPriceLimit(dir))
  BY FailedStore DEF Swap, Good, Book, Shape
<1>2. r = Finish(x, dir, kind, amount)
  BY <1>1 DEF Swap
<1>3. /\ Landed(w) /\ w.rem \in Int /\ w.calc = 0 /\ w.fees = 0 /\ w.growth = 0
      /\ w.liq = s.pool.liquidity /\ w.tick = s.pool.tick
  <2>1. /\ w.price = s.pool.sqrtPrice /\ w.tick = s.pool.tick /\ w.rem = Dec(amount)
        /\ w.calc = 0 /\ w.fees = 0 /\ w.growth = 0 /\ w.liq = s.pool.liquidity
    BY DEF SwapState
  <2>2. Dec(amount) \in Int
    BY PrecAssumption DEF Dec
  <2>. HIDE DEF w
  <2>. QED
    BY <1>1, <2>1, <2>2 DEF Landed, Good, Priced
<1>. HIDE DEF w
<1>4. x.ok
  BY <1>2 DEF Finish
<1>5. /\ SameBook(s, x) /\ x.pool = s.pool /\ Landed(x.swap)
      /\ Sound(s) /\ Deep(s) =>
           /\ x.swap.rem \in Int /\ x.swap.calc \in Int
           /\ x.swap.fees \in Nat /\ x.swap.growth \in Nat
           /\ x.swap.liq = AtTick(s, x.swap.tick)
           /\ Money(x)
  BY <1>3, <1>4, SwapLoopKeeps
<1>. HIDE DEF x
<1>6. r = UpdatePoolForSwap(x, dir, paid, received, charged)
  BY <1>2, <1>4 DEF Finish
<1>. HIDE DEF paid, received, charged
<1>7. /\ IsStore(y) /\ y.positions = x.positions /\ y.index = x.index /\ y.count = x.count
      /\ y.totalShares = x.totalShares /\ y.shares = x.shares /\ y.ticks = x.ticks
      /\ y.pool = [tick |-> x.swap.tick, sqrtPrice |-> x.swap.price,
                   liquidity |-> x.swap.liq]
  BY <1>5 DEF SameBook, IsStore, Fields
<1>8. /\ r = y /\ paid - charged > 0 /\ received > 0
      /\ received <= x.balance[DenomOut(dir)]
  <2>1. \/ /\ r = y /\ paid - charged > 0 /\ received > 0
           /\ received <= x.balance[DenomOut(dir)]
        \/ r = Failed(y)
    BY <1>6 DEF UpdatePoolForSwap, Check
  <2>. HIDE DEF y, r
  <2>. QED
    BY <1>7, <2>1, FailedStore DEF r
<1>12. ASSUME Sound(s), Deep(s) PROVE Sound(y)
  <2>1. Money(x) /\ IsStore(x) /\ x.swap.growth \in Nat
    BY <1>5, <1>12 DEF SameBook
  <2>2. paid \in Int /\ received \in Int /\ charged \in Nat
    <3>1. ASSUME NEW n \in Int PROVE TruncateInt(n) \in Int /\ TruncateInt(Ceil(n)) \in Int
      <4>1. Ceil(n) \in Int
        BY RoundedInt DEF Rounded
      <4>. QED
        BY <4>1, TruncDivInt, PrecAssumption DEF TruncateInt
    <3>2. x.swap.rem \in Int /\ x.swap.calc \in Int /\ x.swap.fees \in Nat
      BY <1>5, <1>12
    <3>3. Dec(amount) - x.swap.rem \in Int
      BY <3>2, PrecAssumption DEF Dec
    <3>4. TruncateInt(Ceil(x.swap.fees)) \in Nat
      <4>1. PICK f \in Nat : f = x.swap.fees
        BY <3>2
      <4>2. PICK k \in Int : k = CeilDiv(f, Prec) /\ Prec * k >= f
        <5>1. f \in Int
          OBVIOUS
        <5>. QED
          BY <5>1, CeilBounds, PrecAssumption
      <4>3. k >= 0
        <5>1. SUFFICES ASSUME k < 0 PROVE FALSE
          OBVIOUS
        <5>2. Prec * k < 0
          BY <5>1, PrecAssumption
        <5>. QED
          BY <4>2, <5>2, PrecAssumption
      <4>4. Ceil(f) = k * Prec /\ k * Prec \in Nat
        BY <4>2, <4>3, PrecAssumption DEF Ceil
      <4>. QED
        BY <4>1, <4>4, TruncBounds, PrecAssumption DEF TruncateInt
    <3>. QED
      BY <3>1, <3>2, <3>3, <3>4 DEF paid, received, charged, Paid, Received
  <2>3. /\ DenomIn(dir) \in Denoms /\ DenomOut(dir) \in Denoms /\ DenomIn(dir) # DenomOut(dir)
    BY DEF DenomIn, DenomOut, Denoms
  <2>. DEFINE bal == [[x.balance EXCEPT ![DenomIn(dir)] = @ + paid - charged]
                        EXCEPT ![DenomOut(dir)] = @ - received]
  <2>4. /\ y.accum = [x.accum EXCEPT ![DenomIn(dir)] = @ + x.swap.growth]
        /\ y.fees = [x.fees EXCEPT ![DenomIn(dir)] = @ + charged]
        /\ y.balance = bal
    BY <2>1 DEF IsStore, Fields
  <2>. HIDE DEF y
  <2>5. y.accum \in [Denoms -> Nat] /\ y.fees \in [Denoms -> Nat]
    BY <2>1, <2>2, <2>3, <2>4 DEF Money
  <2>6. bal \in [Denoms -> Nat]
    <3>1. x.balance \in [Denoms -> Nat]
      BY <2>1 DEF Money
    <3>2. /\ x.balance[DenomIn(dir)] \in Nat /\ x.balance[DenomOut(dir)] \in Nat
      BY <2>3, <3>1
    <3>3. /\ x.balance[DenomIn(dir)] + paid - charged \in Nat
          /\ x.balance[DenomOut(dir)] - received \in Nat
      BY <1>8, <2>2, <3>2
    <3>4. [x.balance EXCEPT ![DenomIn(dir)] = @ + paid - charged] \in [Denoms -> Nat]
      BY <2>3, <3>1, <3>3
    <3>. QED
      BY <2>3, <3>1, <3>3, <3>4
  <2>7. Money(y)
    BY <1>7, <2>1, <2>4, <2>5, <2>6 DEF Money
  <2>8. Active(y)
    <3>1. AtTick(y, y.pool.tick) = AtTick(s, y.pool.tick)
      BY <1>5, <1>7, AtTickOfSame DEF SameBook
    <3>. QED
      BY <1>5, <1>7, <1>12, <3>1 DEF Active
  <2>. QED
    BY <2>7, <2>8 DEF Sound
<1>. HIDE DEF y
<1>9. SameBook(s, y)
  BY <1>5, <1>7 DEF SameBook
<1>10. Book(y) /\ Positive(y)
  BY <1>9, BookKept DEF Good, Positive, SameBook
<1>11. Priced(y)
  BY <1>5, <1>7 DEF Priced, IsPool, PoolFields, HasPosition, Landed
<1>. QED
  BY <1>8, <1>10, <1>11, <1>12 DEF Good

-----------------------------------------------------------------------------
(***************************************************************************)
(* Positions                                                               *)
(***************************************************************************)
\* InitOrUpdateTick changes one tick, and stores it if it is new.
LEMMA TickUpdate ==
    ASSUME NEW s, Shape(s), NEW t \in Ticks, NEW delta \in Int, NEW net \in Int,
           \A u \in Ticks : Gross(s, u) \in Int /\ Net(s, u) \in Int
    PROVE  LET r == AddToTick(s, t, GetTickInfo(s, t), delta, net)
           IN  /\ Shape(r) /\ DOMAIN r.ticks = DOMAIN s.ticks \cup {t}
               /\ r.positions = s.positions /\ r.index = s.index /\ r.count = s.count
               /\ r.pool = s.pool /\ r.shares = s.shares /\ r.totalShares = s.totalShares
               /\ r.ok = s.ok
               /\ \A u \in Ticks : Gross(r, u) = Gross(s, u) + (IF u = t THEN delta ELSE 0)
               /\ \A u \in Ticks : Net(r, u) = Net(s, u) + (IF u = t THEN net ELSE 0)
<1>. DEFINE r == AddToTick(s, t, GetTickInfo(s, t), delta, net)
            info == GetTickInfo(s, t)
            new == TickInfo(info.gross + delta, info.net + net, info.growth)
<1>1. info.gross = Gross(s, t) /\ info.net = Net(s, t)
  BY DEF GetTickInfo, NewTickInfo, TickInfo, Gross, Net
<1>. HIDE DEF info
<1>2. new.gross = Gross(s, t) + delta /\ new.net = Net(s, t) + net /\ DOMAIN new = TickFields
  BY <1>1 DEF TickInfo, TickFields
<1>3. r = [s EXCEPT !.ticks = Put(s.ticks, t, new)]
  BY DEF AddToTick, info
<1>. HIDE DEF new
<1>4. /\ IsStore(r) /\ r.ticks = Put(s.ticks, t, new)
      /\ r.positions = s.positions /\ r.index = s.index /\ r.count = s.count
      /\ r.pool = s.pool /\ r.shares = s.shares /\ r.totalShares = s.totalShares
      /\ r.ok = s.ok
  BY <1>3 DEF Shape, IsStore, Fields
<1>. HIDE DEF r
<1>5. /\ DOMAIN r.ticks = DOMAIN s.ticks \cup {t}
      /\ r.ticks[t] = new
      /\ \A u \in DOMAIN s.ticks : u # t => r.ticks[u] = s.ticks[u]
  BY <1>4 DEF Put
<1>6. Shape(r)
  BY <1>2, <1>4, <1>5 DEF Shape
<1>7. ASSUME NEW u \in Ticks
      PROVE  /\ Gross(r, u) = Gross(s, u) + (IF u = t THEN delta ELSE 0)
             /\ Net(r, u) = Net(s, u) + (IF u = t THEN net ELSE 0)
  <2>1. CASE u = t
    BY <1>2, <1>5, <2>1 DEF Gross, Net
  <2>2. CASE u # t
    <3>1. Gross(r, u) = Gross(s, u) /\ Net(r, u) = Net(s, u)
      BY <1>5, <2>2 DEF Gross, Net
    <3>2. Gross(s, u) \in Int /\ Net(s, u) \in Int
      OBVIOUS
    <3>. QED
      BY <2>2, <3>1, <3>2
  <2>. QED
    BY <2>1, <2>2
<1>. QED
  BY <1>4, <1>5, <1>6, <1>7 DEF r

\* A position that is stored, or has just been appended without liquidity,
\* ticks or shares.
Opening(s, id) ==
    /\ Shape(s) /\ TickSums(s) /\ ShareSums(s)
    /\ id \in DOMAIN s.positions
    /\ DOMAIN s.ticks \cup {s.positions[id].lower, s.positions[id].upper} = Ends(s)
    /\ DOMAIN s.shares \cup {id} = DOMAIN s.positions
    /\ id \notin DOMAIN s.shares => s.positions[id].liquidity = 0

\* A position of a store in agreement is stored.
LEMMA BookOpening ==
    ASSUME NEW s, Book(s), NEW id \in DOMAIN s.positions
    PROVE  Opening(s, id)
BY DEF Book, Opening, Ends

\* SetAccumulatorPositionFeeAccumulator that does not fail.
LEMMA SettleForm ==
    ASSUME NEW s, IsStore(s), NEW id, NEW pos, NEW delta, Settle(s, id, pos, delta).ok
    PROVE  /\ s.ok
           /\ \E value, unclaimed :
                Settle(s, id, pos, delta)
                  = SetShare(s, id, delta, value, unclaimed,
                             IF id \in DOMAIN s.shares THEN s.shares[id].shares ELSE 0)
<1>. DEFINE r == Settle(s, id, pos, delta)
            outside == GrowthOutside(s, pos.lower, pos.upper)
            value == Minus(s.accum, outside)
            before == IF id \in DOMAIN s.shares THEN s.shares[id].shares ELSE 0
<1>1. \A v, u, b : IsStore(SetShare(s, id, delta, v, u, b))
                   /\ SetShare(s, id, delta, v, u, b).ok = s.ok
  BY DEF SetShare, IsStore, Fields
<1>2. CASE id \notin DOMAIN s.shares
  <2>. DEFINE x == SetShare(s, id, delta, value, NoCoins, 0)
  <2>1. r = x \/ r = Failed(x)
    BY <1>2 DEF Settle, SetFeeAccumulator, Check
  <2>2. IsStore(x) /\ x.ok = s.ok
    BY <1>1
  <2>. HIDE DEF x, value
  <2>3. r = x
    BY <2>1, <2>2, FailedStore
  <2>. QED
    BY <1>2, <2>2, <2>3 DEF x
<1>3. CASE id \in DOMAIN s.shares
  <2>. DEFINE unclaimed == TotalRewards(s, s.shares[id], outside)
              x == SetShare(s, id, delta, value, unclaimed, s.shares[id].shares)
  <2>1. r = x \/ r = Failed(x)
    BY <1>3 DEF Settle, SetFeeAccumulator, Check
  <2>2. IsStore(x) /\ x.ok = s.ok
    BY <1>1
  <2>. HIDE DEF x, value, unclaimed
  <2>3. r = x
    BY <2>1, <2>2, FailedStore
  <2>. QED
    BY <1>3, <2>2, <2>3 DEF x
<1>. QED
  BY <1>2, <1>3

\* What UpdatePosition does to the position and to the pool.
Updated(s, r, id, delta) ==
    /\ DOMAIN r.positions = DOMAIN s.positions
    /\ \A k \in DOMAIN s.positions :
          /\ k # id => r.positions[k].liquidity = s.positions[k].liquidity
          /\ r.positions[k].lower = s.positions[k].lower
          /\ r.positions[k].upper = s.positions[k].upper
    /\ r.positions[id].liquidity = s.positions[id].liquidity + delta
    /\ r.count = s.count /\ r.index = s.index
    /\ IsPool(r.pool)
    /\ r.pool.tick = s.pool.tick /\ r.pool.sqrtPrice = s.pool.sqrtPrice
    /\ r.pool.liquidity =
          IF InRange(s.pool.tick, s.positions[id].lower, s.positions[id].upper)
          THEN s.pool.liquidity + delta ELSE s.pool.liquidity
    /\ r.amounts = Whole(CalcActualAmounts(s.pool, s.positions[id].lower,
                                           s.positions[id].upper, delta))

\* UpdatePosition keeps the stores in agreement.
LEMMA UpdateBook ==
    ASSUME NEW s, NEW id, Opening(s, id), IsPool(s.pool), NEW delta \in Int,
           UpdatePosition(s, id, delta).ok
    PROVE  LET r == UpdatePosition(s, id, delta)
           IN  /\ s.ok /\ delta # 0 /\ Book(r) /\ Updated(s, r, id, delta)
               /\ Sound(s) => Sound(r)
<1>. DEFINE r == UpdatePosition(s, id, delta)
            pos == s.positions[id]
            s1 == InitOrUpdateTick(s, pos.lower, delta, FALSE)
            s2 == InitOrUpdateTick(s1, pos.upper, delta, TRUE)
            s3 == StorePosition(s2, id, pos, delta)
<1>1. /\ IsStore(s) /\ Shape(s) /\ pos.lower \in Ticks /\ pos.upper \in Ticks
      /\ pos.lower # pos.upper /\ pos.lower < pos.upper /\ pos.liquidity \in Nat
  <2>1. /\ IsStore(s) /\ Shape(s) /\ pos.lower \in Ticks /\ pos.upper \in Ticks
        /\ pos.lower < pos.upper /\ pos.liquidity \in Nat
    BY DEF Opening, Shape
  <2>2. pos.lower \in Int /\ pos.upper \in Int
    BY <2>1, PoolAssumption
  <2>. HIDE DEF pos
  <2>. QED
    BY <2>1, <2>2
<1>2. /\ delta # 0 /\ pos.liquidity + delta >= 0
      /\ r = Settle(s3, id, pos, delta)
  <2>1. r # Failed(s)
    BY <1>1, FailedStore
  <2>2. ~(delta = 0 \/ pos.liquidity + delta < 0)
    BY <2>1 DEF UpdatePosition, UpdateAt
  <2>3. r = Settle(s3, id, pos, delta)
    BY <2>2 DEF UpdatePosition, UpdateAt
  <2>. HIDE DEF pos, r
  <2>. QED
    BY <1>1, <2>2, <2>3
<1>3. \A t : Opened(s, t) \in Nat /\ Closed(s, t) \in Nat
  BY <1>1, LiquidityType
<1>4. \A u \in Ticks : Gross(s, u) \in Int /\ Net(s, u) \in Int
  BY <1>3 DEF Opening, TickSums
<1>5. /\ Shape(s1) /\ DOMAIN s1.ticks = DOMAIN s.ticks \cup {pos.lower}
      /\ s1.positions = s.positions /\ s1.index = s.index /\ s1.count = s.count
      /\ s1.pool = s.pool /\ s1.shares = s.shares /\ s1.totalShares = s.totalShares
      /\ s1.ok = s.ok
      /\ \A u \in Ticks : Gross(s1, u) = Gross(s, u) + (IF u = pos.lower THEN delta ELSE 0)
      /\ \A u \in Ticks : Net(s1, u) = Net(s, u) + (IF u = pos.lower THEN delta ELSE 0)
  <2>1. s1 = AddToTick(s, pos.lower, GetTickInfo(s, pos.lower), delta, delta)
    BY DEF InitOrUpdateTick
  <2>. HIDE DEF pos, s1
  <2>. QED
    BY <1>1, <1>4, <2>1, TickUpdate
<1>. HIDE DEF s1
<1>6. \A u \in Ticks : Gross(s1, u) \in Int /\ Net(s1, u) \in Int
  <2>. HIDE DEF pos
  <2>. QED
    BY <1>4, <1>5
<1>7. /\ Shape(s2) /\ DOMAIN s2.ticks = DOMAIN s1.ticks \cup {pos.upper}
      /\ s2.positions = s1.positions /\ s2.index = s1.index /\ s2.count = s1.count
      /\ s2.pool = s1.pool /\ s2.shares = s1.shares /\ s2.totalShares = s1.totalShares
      /\ s2.ok = s1.ok
      /\ \A u \in Ticks : Gross(s2, u) = Gross(s1, u) + (IF u = pos.upper THEN delta ELSE 0)
      /\ \A u \in Ticks : Net(s2, u) = Net(s1, u) + (IF u = pos.upper THEN -delta ELSE 0)
  <2>1. s2 = AddToTick(s1, pos.upper, GetTickInfo(s1, pos.upper), delta, -delta)
    BY DEF InitOrUpdateTick
  <2>. HIDE DEF pos, s2
  <2>. QED
    BY <1>1, <1>5, <1>6, <2>1, TickUpdate
<1>. HIDE DEF s2
<1>. DEFINE new == Position(pos.lower, pos.upper, pos.liquidity + delta)
<1>8. /\ IsStore(s3) /\ s3.positions = Put(s.positions, id, new)
      /\ s3.index = s.index /\ s3.count = s.count /\ s3.ticks = s2.ticks
      /\ s3.shares = s.shares /\ s3.totalShares = s.totalShares /\ s3.ok = s.ok
      /\ IsPool(s3.pool)
      /\ s3.pool.tick = s.pool.tick /\ s3.pool.sqrtPrice = s.pool.sqrtPrice
      /\ s3.pool.liquidity = IF InRange(s.pool.tick, pos.lower, pos.upper)
                             THEN s.pool.liquidity + delta ELSE s.pool.liquidity
      /\ s3.amounts = Whole(CalcActualAmounts(s.pool, pos.lower, pos.upper, delta))
  <2>1. IsStore(s2) /\ IsPool(s2.pool)
    BY <1>5, <1>7 DEF Shape
  <2>2. /\ IsStore(s3) /\ s3.positions = Put(s2.positions, id, new)
        /\ s3.index = s2.index /\ s3.count = s2.count /\ s3.ticks = s2.ticks
        /\ s3.shares = s2.shares /\ s3.totalShares = s2.totalShares /\ s3.ok = s2.ok
        /\ s3.amounts = Whole(CalcActualAmounts(s2.pool, pos.lower, pos.upper, delta))
    <3>. HIDE DEF pos
    <3>. QED
      BY <2>1 DEF StorePosition, IsStore, Fields
  <2>3. /\ IsPool(s3.pool)
        /\ s3.pool.tick = s2.pool.tick /\ s3.pool.sqrtPrice = s2.pool.sqrtPrice
        /\ s3.pool.liquidity = IF InRange(s2.pool.tick, pos.lower, pos.upper)
                               THEN s2.pool.liquidity + delta ELSE s2.pool.liquidity
    <3>. HIDE DEF pos
    <3>. QED
      BY <2>1 DEF StorePosition, IsStore, Fields, IsPool, PoolFields
  <2>. HIDE DEF s3, pos, new
  <2>. QED
    BY <1>5, <1>7, <2>2, <2>3
<1>. HIDE DEF s3
<1>9. PICK value, unclaimed : /\ s3.ok
         /\ r = SetShare(s3, id, delta, value, unclaimed,
                         IF id \in DOMAIN s3.shares THEN s3.shares[id].shares ELSE 0)
  <2>. HIDE DEF pos
  <2>. QED
    BY <1>2, <1>8, SettleForm
<1>. DEFINE before == IF id \in DOMAIN s.shares THEN s.shares[id].shares ELSE 0
<1>10. /\ IsStore(r) /\ r.positions = s3.positions /\ r.index = s3.index
       /\ r.count = s3.count /\ r.ticks = s3.ticks /\ r.pool = s3.pool
       /\ r.amounts = s3.amounts /\ r.ok = s3.ok
       /\ r.shares = Put(s.shares, id, Share(before + delta, value, unclaimed))
       /\ r.totalShares = s.totalShares + delta
  BY <1>8, <1>9 DEF SetShare, IsStore, Fields
<1>. HIDE DEF r
<1>11. /\ DOMAIN r.positions = DOMAIN s.positions /\ r.positions[id] = new
       /\ \A k \in DOMAIN s.positions : k # id => r.positions[k] = s.positions[k]
  <2>1. id \in DOMAIN s.positions
    BY DEF Opening
  <2>. HIDE DEF pos, new
  <2>. QED
    BY <1>8, <1>10, <2>1 DEF Put
<1>12. /\ new.lower = pos.lower /\ new.upper = pos.upper
       /\ new.liquidity = pos.liquidity + delta
  BY DEF Position
<1>. HIDE DEF new
<1>13. Updated(s, r, id, delta)
  BY <1>8, <1>10, <1>11, <1>12 DEF Updated
<1>14. Shape(r)
  <2>1. pos.liquidity + delta \in Nat
    <3>. HIDE DEF pos
    <3>. QED
      BY <1>1, <1>2
  <2>2. \A k \in DOMAIN s.positions :
          /\ s.positions[k].lower \in Ticks /\ s.positions[k].upper \in Ticks
          /\ s.positions[k].lower < s.positions[k].upper
          /\ s.positions[k].liquidity \in Nat
    BY <1>1 DEF Shape
  <2>3. \A k \in DOMAIN r.positions :
          /\ r.positions[k].lower \in Ticks /\ r.positions[k].upper \in Ticks
          /\ r.positions[k].lower < r.positions[k].upper
          /\ r.positions[k].liquidity \in Nat
    <3>. HIDE DEF pos
    <3>. QED
      BY <1>1, <1>11, <1>12, <2>1, <2>2
  <2>4. /\ r.count \in Nat /\ r.index = 0 .. r.count - 1 /\ DOMAIN r.positions \subseteq r.index
    BY <1>1, <1>8, <1>10, <1>11 DEF Shape
  <2>5. DOMAIN r.ticks \subseteq Ticks /\ \A t \in DOMAIN r.ticks : DOMAIN r.ticks[t] = TickFields
    BY <1>7, <1>8, <1>10 DEF Shape
  <2>. QED
    BY <1>10, <2>3, <2>4, <2>5 DEF Shape
<1>15. id \in DOMAIN s.positions
  BY DEF Opening
<1>16. /\ \A t : Opened(r, t) = Opened(s, t) + (IF t = pos.lower THEN delta ELSE 0)
       /\ \A t : Closed(r, t) = Closed(s, t) + (IF t = pos.upper THEN delta ELSE 0)
       /\ LiquidityOf(r, DOMAIN r.positions) = LiquidityOf(s, DOMAIN s.positions) + delta
       /\ Ends(r) = Ends(s)
  BY <1>1, <1>13, <1>14, <1>15, SumsChange DEF Updated
<1>17. TickSums(r)
  <2>1. SUFFICES ASSUME NEW t \in Ticks
                 PROVE  /\ Gross(r, t) = Opened(r, t) + Closed(r, t)
                        /\ Net(r, t) = Opened(r, t) - Closed(r, t)
    BY DEF TickSums
  <2>2. Gross(r, t) = Gross(s2, t) /\ Net(r, t) = Net(s2, t)
    BY <1>8, <1>10 DEF Gross, Net
  <2>3. Gross(s, t) = Opened(s, t) + Closed(s, t) /\ Net(s, t) = Opened(s, t) - Closed(s, t)
    BY DEF Opening, TickSums
  <2>4. Opened(s, t) \in Nat /\ Closed(s, t) \in Nat
    BY <1>3
  <2>. HIDE DEF pos
  <2>. QED
    BY <1>1, <1>5, <1>7, <1>16, <2>2, <2>3, <2>4
<1>18. ShareSums(r)
  <2>1. before = s.positions[id].liquidity
    BY DEF Opening, ShareSums
  <2>2. Share(before + delta, value, unclaimed).shares = before + delta
    BY DEF Share
  <2>3. \A k \in DOMAIN r.shares : r.shares[k].shares = r.positions[k].liquidity
    <3>1. SUFFICES ASSUME NEW k \in DOMAIN r.shares
                   PROVE  r.shares[k].shares = r.positions[k].liquidity
      OBVIOUS
    <3>2. CASE k = id
      BY <1>10, <1>11, <1>12, <2>1, <2>2, <3>2 DEF Put
    <3>3. CASE k # id
      <4>1. k \in DOMAIN s.shares /\ r.shares[k] = s.shares[k]
        BY <1>10, <3>3 DEF Put
      <4>2. k \in DOMAIN s.positions /\ s.shares[k].shares = s.positions[k].liquidity
        BY <4>1 DEF Opening, ShareSums
      <4>. QED
        BY <1>11, <3>3, <4>1, <4>2
    <3>. QED
      BY <3>2, <3>3
  <2>4. r.totalShares = LiquidityOf(r, DOMAIN r.positions)
    BY <1>10, <1>16 DEF Opening, ShareSums
  <2>. QED
    BY <2>3, <2>4 DEF ShareSums
<1>19. DOMAIN r.ticks = Ends(r)
  <2>1. DOMAIN r.ticks = DOMAIN s.ticks \cup {pos.lower} \cup {pos.upper}
    <3>. HIDE DEF pos
    <3>. QED
      BY <1>5, <1>7, <1>8, <1>10
  <2>2. DOMAIN s.ticks \cup {pos.lower, pos.upper} = Ends(s) /\ Ends(r) = Ends(s)
    BY <1>16 DEF Opening
  <2>. HIDE DEF pos
  <2>. QED
    BY <2>1, <2>2
<1>20. DOMAIN r.shares = DOMAIN r.positions
  BY <1>10, <1>11 DEF Opening, Put
<1>21. s.ok
  BY <1>8, <1>9
<1>22. ASSUME Sound(s) PROVE Sound(r)
  <2>1. s1 = AddToTick(s, pos.lower, GetTickInfo(s, pos.lower), delta, delta)
    BY DEF s1, InitOrUpdateTick
  <2>2. s2 = AddToTick(s1, pos.upper, GetTickInfo(s1, pos.upper), delta, -delta)
    BY DEF s2, InitOrUpdateTick
  <2>3. Money(s1) /\ IsStore(s1)
    BY <1>1, <1>22, <2>1, TickMoney DEF Sound
  <2>4. Money(s2) /\ IsStore(s2)
    BY <2>2, <2>3, TickMoney
  <2>5. s3.balance = s2.balance /\ s3.fees = s2.fees /\ s3.accum = s2.accum
    BY <2>4 DEF s3, StorePosition, IsStore, Fields
  <2>6. Money(s3)
    BY <1>5, <1>7, <1>8, <2>4, <2>5, MoneyOfSame
  <2>7. pos.lower \in DOMAIN s3.ticks /\ pos.upper \in DOMAIN s3.ticks
    BY <1>5, <1>7, <1>8
  <2>8. id \in DOMAIN s3.shares => s3.shares[id].shares \in Nat
    BY <1>1, <1>8 DEF Opening, ShareSums
  <2>9. r = Settle(s3, id, pos, delta) /\ r.ok
    BY <1>2 DEF r
  <2>. HIDE DEF pos
  <2>10. Money(r)
    BY <1>8, <2>6, <2>7, <2>8, <2>9, SettleMoney
  <2>11. AtTick(r, s.pool.tick) = AtTick(s, s.pool.tick)
           + (IF InRange(s.pool.tick, s.positions[id].lower, s.positions[id].upper)
              THEN delta ELSE 0)
    BY <1>1, <1>13, <1>14, <1>15, AtTickChange DEF Updated
  <2>12. AtTick(s, s.pool.tick) \in Nat /\ s.pool.liquidity = AtTick(s, s.pool.tick)
    BY <1>1, <1>22, AtTickNat DEF Sound, Active
  <2>13. r.pool.liquidity = AtTick(r, r.pool.tick)
    BY <1>13, <2>11, <2>12 DEF Updated
  <2>. QED
    BY <2>10, <2>13 DEF Sound, Active
<1>. QED
  BY <1>2, <1>13, <1>14, <1>17, <1>18, <1>19, <1>20, <1>21, <1>22 DEF Book, r

\* The coins that a change of liquidity is worth.
LEMMA AmountsNat ==
    ASSUME NEW s, Priced(s), HasPosition(s.pool), NEW lower \in Ticks, NEW upper \in Ticks,
           lower < upper, NEW delta \in Int
    PROVE  Whole(CalcActualAmounts(s.pool, lower, upper, delta)) \in [Denoms -> Nat]
<1>1. ASSUME NEW a \in Nat \ {0}, NEW b \in Nat \ {0}, NEW up
      PROVE  /\ CalcAmountBaseDelta(delta, a, b, up) \in Int
             /\ CalcAmountQuoteDelta(delta, a, b, up) \in Int
  <2>1. Absolute(b - a) \in Int
    BY DEF Absolute
  <2>2. Mul(Absolute(b - a), delta) \in Int
    BY <2>1, MulQuoInt
  <2>3. Max({a, b}) \in Nat \ {0} /\ Min({a, b}) \in Nat \ {0}
    <3>1. (\E x \in {a, b} : \A y \in {a, b} : x >= y) /\ (\E x \in {a, b} : \A y \in {a, b} : x <= y)
      OBVIOUS
    <3>. QED
      BY <3>1 DEF Max, Min
  <2>4. Quo(Quo(Mul(Absolute(b - a), delta), Max({a, b})), Min({a, b})) \in Int
    <3>1. Quo(Mul(Absolute(b - a), delta), Max({a, b})) \in Int
      BY <2>2, <2>3, MulQuoInt
    <3>. QED
      BY <2>3, <3>1, MulQuoInt
  <2>. QED
    BY <2>2, <2>4, RoundedInt DEF CalcAmountBaseDelta, CalcAmountQuoteDelta
<1>. DEFINE p == s.pool
            lo == TickSqrtPrice[lower]
            hi == TickSqrtPrice[upper]
            amounts == CalcActualAmounts(p, lower, upper, delta)
<1>2. lo \in Nat \ {0} /\ hi \in Nat \ {0} /\ p.sqrtPrice \in Nat \ {0}
  BY PoolAssumption DEF Priced
<1>3. ASSUME NEW x \in Int, NEW y \in Int PROVE Coins(x, y) \in [Denoms -> Int]
  BY DEF Coins
<1>4. amounts \in [Denoms -> Int]
  <2>. HIDE DEF p, lo, hi
  <2>1. amounts = ActualAmounts(p, lower, upper, lo, hi, delta, delta > 0)
    BY DEF CalcActualAmounts, lo, hi
  <2>. HIDE DEF amounts
  <2>2. CASE p.tick < lower
    <3>0. ~(p.tick >= upper)
      <4>1. p.tick \in Int /\ lower \in Int /\ upper \in Int
        BY PoolAssumption DEF Priced, p
      <4>. QED
        BY <2>2, <4>1
    <3>1. amounts = Coins(CalcAmountBaseDelta(delta, lo, hi, delta > 0), 0)
      BY <2>1, <2>2, <3>0 DEF ActualAmounts
    <3>. QED
      BY <1>1, <1>2, <1>3, <3>1
  <2>3. CASE ~(p.tick < lower) /\ p.tick >= upper
    <3>1. amounts = Coins(0, CalcAmountQuoteDelta(delta, lo, hi, delta > 0))
      BY <2>1, <2>3 DEF ActualAmounts
    <3>. QED
      BY <1>1, <1>2, <1>3, <3>1
  <2>4. CASE ~(p.tick < lower) /\ ~(p.tick >= upper)
    <3>1. amounts = Coins(CalcAmountBaseDelta(delta, p.sqrtPrice, hi, delta > 0),
                          CalcAmountQuoteDelta(delta, p.sqrtPrice, lo, delta > 0))
      BY <2>1, <2>4 DEF ActualAmounts
    <3>. QED
      BY <1>1, <1>2, <1>3, <3>1
  <2>. QED
    BY <2>2, <2>3, <2>4
<1>5. ASSUME NEW x \in Int PROVE Absolute(TruncateInt(x)) \in Nat
  <2>1. TruncateInt(x) \in Int
    BY TruncDivInt, PrecAssumption DEF TruncateInt
  <2>. QED
    BY <2>1 DEF Absolute
<1>. HIDE DEF amounts
<1>6. Whole(amounts) \in [Denoms -> Nat]
  BY <1>4, <1>5 DEF Whole
<1>. QED
  BY <1>6 DEF amounts

\* What collectFees does to the shares of a position; v is where it settles them.
Collected(s, r, id, v) ==
    /\ s.ok /\ IsStore(r)
    /\ r.positions = s.positions /\ r.index = s.index /\ r.count = s.count
    /\ r.ticks = s.ticks /\ r.pool = s.pool /\ r.totalShares = s.totalShares
    /\ r.amounts = s.amounts
    /\ s.shares[id].shares = 0 => r.shares = Drop(s.shares, {id})
    /\ s.shares[id].shares # 0 =>
         r.shares = Put(s.shares, id, Share(s.shares[id].shares, v, NoCoins))

\* collectFees that does not fail.
LEMMA CollectForm ==
    ASSUME NEW s, IsStore(s), NEW id, CollectFees(s, id).ok
    PROVE  \E v : Collected(s, CollectFees(s, id), id, v)
<1>. DEFINE r == CollectFees(s, id)
            share == s.shares[id]
            outside == GrowthOutside(s, s.positions[id].lower, s.positions[id].upper)
            rewards == TotalRewards(s, share, outside)
            paid == Truncated(rewards)
            v == Minus(s.accum, outside)
            x == [s EXCEPT
                   !.shares = IF share.shares = 0 THEN Drop(@, {id})
                              ELSE Put(@, id, Share(share.shares, v, NoCoins)),
                   !.accum = Plus(@, DustPerShare(s, rewards, paid)),
                   !.fees = Minus(@, paid)]
<1>1. r = x \/ r = Failed(x) \/ r = Failed(s)
  BY DEF CollectFees, ClaimRewards, PayRewards, Check
<1>. HIDE DEF v, rewards, paid
<1>2. /\ IsStore(x)
      /\ x.positions = s.positions /\ x.index = s.index /\ x.count = s.count
      /\ x.ticks = s.ticks /\ x.pool = s.pool /\ x.totalShares = s.totalShares
      /\ x.amounts = s.amounts /\ x.ok = s.ok
      /\ x.shares = IF share.shares = 0 THEN Drop(s.shares, {id})
                    ELSE Put(s.shares, id, Share(share.shares, v, NoCoins))
  BY DEF IsStore, Fields
<1>. HIDE DEF x, r
<1>3. r = x
  BY <1>1, <1>2, FailedStore DEF r
<1>4. s.ok
  BY <1>2, <1>3 DEF r
<1>5. Collected(s, r, id, v)
  BY <1>2, <1>3, <1>4 DEF Collected
<1>. QED
  BY <1>5 DEF r

\* The ticks and the shares of a position.
LEMMA BookStored ==
    ASSUME NEW s, Book(s), NEW id \in DOMAIN s.positions
    PROVE  /\ s.positions[id].lower \in DOMAIN s.ticks
           /\ s.positions[id].upper \in DOMAIN s.ticks
           /\ id \in DOMAIN s.shares
           /\ s.shares[id].shares \in Nat /\ s.totalShares \in Nat
<1>1. s.positions[id].lower \in Ends(s) /\ s.positions[id].upper \in Ends(s)
  BY DEF Ends
<1>2. s.totalShares \in Nat
  BY LiquidityType DEF Book, ShareSums
<1>. QED
  BY <1>1, <1>2 DEF Book, Shape, ShareSums

\* Claiming the rewards of a position.
LEMMA ClaimGood ==
    ASSUME NEW s, Good(s), NEW id \in DOMAIN s.positions, CollectFees(s, id).ok
    PROVE  Good(CollectFees(s, id)) /\ (Sound(s) => Sound(CollectFees(s, id)))
<1>. DEFINE r == CollectFees(s, id)
<1>1. IsStore(s) /\ id \in DOMAIN s.shares /\ s.shares[id].shares # 0
  BY DEF Good, Book, Shape, ShareSums, Positive
<1>2. /\ IsStore(r)
      /\ r.positions = s.positions /\ r.index = s.index /\ r.count = s.count
      /\ r.ticks = s.ticks /\ r.pool = s.pool /\ r.totalShares = s.totalShares
      /\ \E v : r.shares = Put(s.shares, id, Share(s.shares[id].shares, v, NoCoins))
  <2>1. PICK v : Collected(s, r, id, v)
    BY <1>1, CollectForm
  <2>. HIDE DEF r
  <2>. QED
    BY <1>1, <2>1 DEF Collected
<1>. HIDE DEF r
<1>3. /\ DOMAIN r.shares = DOMAIN s.shares
      /\ \A k \in DOMAIN s.shares : r.shares[k].shares = s.shares[k].shares
  BY <1>1, <1>2 DEF Put, Share
<1>4. SameBook(s, r)
  BY <1>2, <1>3 DEF SameBook, Good, Book, Shape
<1>5. Book(r) /\ Positive(r) /\ Priced(r)
  BY <1>2, <1>4, BookKept, PricedKept DEF Good, Positive
<1>6. ASSUME Sound(s) PROVE Sound(r)
  <2>1. Money(r)
    BY <1>1, <1>6, BookStored, CollectMoney DEF Good, Sound, r
  <2>2. Active(r)
    BY <1>2, <1>6, ActiveOfSame DEF Sound
  <2>. QED
    BY <2>1, <2>2 DEF Sound
<1>. QED
  BY <1>5, <1>6 DEF Good, r

\* A tick where a position with liquidity ends holds some, one where none ends
\* holds nothing.
LEMMA EndsHold ==
    ASSUME NEW s, Shape(s), Positive(s), NEW t
    PROVE  /\ t \in Ends(s) => Opened(s, t) + Closed(s, t) # 0
           /\ t \notin Ends(s) => Opened(s, t) = 0 /\ Closed(s, t) = 0
<1>. DEFINE O == {id \in DOMAIN s.positions : s.positions[id].lower = t}
            C == {id \in DOMAIN s.positions : s.positions[id].upper = t}
<1>1. Opened(s, t) = LiquidityOf(s, O) /\ Closed(s, t) = LiquidityOf(s, C)
  BY Zenon DEF Opened, Closed
<1>2. Opened(s, t) \in Nat /\ Closed(s, t) \in Nat
  BY LiquidityType
<1>3. t \in Ends(s) <=> (O # {} \/ C # {})
  BY DEF Ends
<1>4. O \in SUBSET DOMAIN s.positions /\ C \in SUBSET DOMAIN s.positions
  OBVIOUS
<1>. HIDE DEF O, C
<1>5. ASSUME NEW S \in SUBSET DOMAIN s.positions, S # {}
      PROVE  LiquidityOf(s, S) # 0
  <2>1. PICK id \in S : TRUE
    BY <1>5
  <2>2. \A k \in S : Liq(s)[k] \in Nat
    BY LiquidityType
  <2>3. Liq(s)[id] \in Nat \ {0}
    BY LiquidityType DEF Positive
  <2>4. IsFiniteSet(S) /\ IsFiniteSet(S \ {id})
    BY LiquidityType, FS_Subset
  <2>5. SumFunctionOnSet(Liq(s), S) = Liq(s)[id] + SumFunctionOnSet(Liq(s), S \ {id})
    BY <2>2, <2>4, SumRemove
  <2>6. SumFunctionOnSet(Liq(s), S \ {id}) \in Nat
    BY <2>2, <2>4, SumNat
  <2>7. SumFunctionOnSet(Liq(s), S) # 0
    BY <2>3, <2>5, <2>6
  <2>. QED
    BY <2>7 DEF LiquidityOf, Liq
<1>6. LiquidityOf(s, {}) = 0
  BY SumEmpty DEF LiquidityOf
<1>7. /\ O # {} => Opened(s, t) # 0
      /\ C # {} => Closed(s, t) # 0
  BY <1>1, <1>4, <1>5
<1>8. O = {} /\ C = {} => Opened(s, t) = 0 /\ Closed(s, t) = 0
  BY <1>1, <1>6
<1>. QED
  BY <1>2, <1>3, <1>7, <1>8

\* Removing the ticks that a withdrawal left empty.
LEMMA RemoveTicksBook ==
    ASSUME NEW s, Shape(s), TickSums(s), ShareSums(s), Positive(s),
           DOMAIN s.shares = DOMAIN s.positions,
           NEW pos, pos.lower \in DOMAIN s.ticks, pos.upper \in DOMAIN s.ticks,
           DOMAIN s.ticks = Ends(s) \cup {pos.lower, pos.upper}, s.ok
    PROVE  LET r == RemoveTicks(s, pos)
           IN  /\ Book(r) /\ Positive(r)
               /\ r.positions = s.positions /\ r.pool = s.pool
               /\ r.amounts = s.amounts /\ r.count = s.count
               /\ Sound(s) => Sound(r)
<1>. DEFINE r == RemoveTicks(s, pos)
            E == EmptyTicks(s, {pos.lower, pos.upper})
<1>1. r = [s EXCEPT !.ticks = Drop(@, E)]
  BY DEF RemoveTicks
<1>2. \A t \in DOMAIN s.ticks : /\ t \in Ticks
                                /\ s.ticks[t].gross = Opened(s, t) + Closed(s, t)
                                /\ s.ticks[t].net = Opened(s, t) - Closed(s, t)
  BY DEF TickSums, Gross, Net, Shape
<1>3. \A t \in DOMAIN s.ticks : t \in Ends(s) => s.ticks[t].gross # 0
  BY <1>2, EndsHold
<1>4. \A t \in DOMAIN s.ticks : t \notin Ends(s) => s.ticks[t].gross = 0 /\ s.ticks[t].net = 0
  <2>1. SUFFICES ASSUME NEW t \in DOMAIN s.ticks, t \notin Ends(s)
                 PROVE  s.ticks[t].gross = 0 /\ s.ticks[t].net = 0
    OBVIOUS
  <2>2. Opened(s, t) = 0 /\ Closed(s, t) = 0
    BY <2>1, EndsHold
  <2>. QED
    BY <1>2, <2>2
<1>5. DOMAIN s.ticks \ E = Ends(s)
  <2>1. \A t \in DOMAIN s.ticks : t \in E <=> t \notin Ends(s)
    BY <1>3, <1>4 DEF EmptyTicks
  <2>. HIDE DEF E
  <2>. QED
    BY <2>1
<1>. HIDE DEF E
<1>6. /\ IsStore(r) /\ r.ticks = Drop(s.ticks, E)
      /\ r.positions = s.positions /\ r.index = s.index /\ r.count = s.count
      /\ r.pool = s.pool /\ r.shares = s.shares /\ r.totalShares = s.totalShares
      /\ r.amounts = s.amounts
      /\ r.balance = s.balance /\ r.fees = s.fees /\ r.accum = s.accum
  BY <1>1 DEF Shape, IsStore, Fields
<1>. HIDE DEF r
<1>7. DOMAIN r.ticks = Ends(s) /\ \A t \in Ends(s) : r.ticks[t] = s.ticks[t]
  BY <1>5, <1>6 DEF Drop
<1>8. /\ \A S : LiquidityOf(r, S) = LiquidityOf(s, S)
      /\ \A t : Opened(r, t) = Opened(s, t) /\ Closed(r, t) = Closed(s, t)
      /\ Ends(r) = Ends(s)
  BY <1>6, SumsOfSame
<1>9. Shape(r)
  BY <1>6, <1>7 DEF Shape
<1>10. TickSums(r)
  <2>1. SUFFICES ASSUME NEW t \in Ticks
                 PROVE  /\ Gross(r, t) = Opened(r, t) + Closed(r, t)
                        /\ Net(r, t) = Opened(r, t) - Closed(r, t)
    BY DEF TickSums
  <2>2. CASE t \in Ends(s)
    BY <1>2, <1>7, <1>8, <2>2 DEF Gross, Net
  <2>3. CASE t \notin Ends(s)
    <3>1. Opened(s, t) = 0 /\ Closed(s, t) = 0
      BY <2>3, EndsHold
    <3>2. Gross(r, t) = 0 /\ Net(r, t) = 0
      BY <1>7, <2>3 DEF Gross, Net
    <3>. QED
      BY <1>8, <3>1, <3>2
  <2>. QED
    BY <2>2, <2>3
<1>11. ShareSums(r)
  BY <1>6, <1>8 DEF ShareSums
<1>12. Book(r) /\ Positive(r)
  BY <1>6, <1>7, <1>8, <1>9, <1>10, <1>11 DEF Book, Positive
<1>13. ASSUME Sound(s) PROVE Sound(r)
  <2>1. \A t \in DOMAIN r.ticks : t \in DOMAIN s.ticks /\ r.ticks[t] = s.ticks[t]
    BY <1>5, <1>7
  <2>2. Money(r)
    BY <1>6, <1>13, <2>1 DEF Sound, Money
  <2>3. Active(r)
    BY <1>6, <1>13, ActiveOfSame DEF Sound
  <2>. QED
    BY <2>2, <2>3 DEF Sound
<1>. QED
  BY <1>6, <1>12, <1>13 DEF r

\* The price is as it was before the update of a position.
LEMMA PricedUpdated ==
    ASSUME NEW s, NEW r, Priced(s), HasPosition(s.pool), IsPool(r.pool),
           r.pool.tick = s.pool.tick, r.pool.sqrtPrice = s.pool.sqrtPrice
    PROVE  Priced(r) /\ HasPosition(r.pool)
BY DEF Priced, HasPosition

\* Only coins moved.
Moves(x, r) ==
    /\ x.ok /\ IsStore(r) /\ r.positions = x.positions /\ r.index = x.index
    /\ r.count = x.count /\ r.ticks = x.ticks /\ r.shares = x.shares
    /\ r.totalShares = x.totalShares /\ r.pool = x.pool /\ r.amounts = x.amounts

\* What a withdrawal pays leaves the account of the pool, which has it.
LEMMA RefundMoves ==
    ASSUME NEW x, IsStore(x), Refund(x).ok
    PROVE  /\ Moves(x, Refund(x))
           /\ x.amounts \in [Denoms -> Nat] /\ Sound(x) => Sound(Refund(x))
<1>. DEFINE y == [x EXCEPT !.balance = Minus(@, x.amounts)]
<1>1. IsStore(y)
  BY DEF IsStore
<1>2. Refund(x) = y /\ x.ok /\ Covers(x.balance, x.amounts)
  <2>1. CASE x.ok /\ Covers(x.balance, x.amounts)
    BY <2>1 DEF Refund, Check
  <2>2. CASE ~(x.ok /\ Covers(x.balance, x.amounts))
    <3>1. Refund(x) = Failed(y)
      BY <2>2 DEF Refund, Check
    <3>. HIDE DEF y
    <3>. QED
      BY <1>1, <3>1, FailedStore
  <2>. QED
    BY <2>1, <2>2
<1>3. Moves(x, y)
  BY <1>2 DEF Moves, IsStore, Fields
<1>4. /\ y.balance = Minus(x.balance, x.amounts) /\ y.fees = x.fees /\ y.accum = x.accum
      /\ y.positions = x.positions /\ y.pool = x.pool /\ y.shares = x.shares
      /\ y.ticks = x.ticks
  BY DEF IsStore, Fields
<1>. HIDE DEF y
<1>5. ASSUME x.amounts \in [Denoms -> Nat], Sound(x) PROVE Sound(y)
  <2>1. y.balance \in [Denoms -> Nat]
    BY <1>2, <1>4, <1>5, CoinsTypes DEF Sound, Money
  <2>2. Money(y)
    BY <1>4, <1>5, <2>1 DEF Sound, Money
  <2>3. Active(y)
    BY <1>4, <1>5, ActiveOfSame DEF Sound
  <2>. QED
    BY <2>2, <2>3 DEF Sound
<1>. QED
  BY <1>2, <1>3, <1>5

\* What a position is worth is paid to the account of the pool.
LEMMA DepositMoves ==
    ASSUME NEW x, IsStore(x), NEW least, Deposit(x, least).ok
    PROVE  /\ Moves(x, Deposit(x, least))
           /\ x.amounts \in [Denoms -> Nat] /\ Sound(x) => Sound(Deposit(x, least))
<1>. DEFINE y == [x EXCEPT !.balance = Plus(@, x.amounts)]
<1>1. IsStore(y)
  BY DEF IsStore
<1>2. Deposit(x, least) = y /\ x.ok
  <2>1. CASE x.ok /\ Covers(x.amounts, least)
    BY <2>1 DEF Deposit, Check
  <2>2. CASE ~(x.ok /\ Covers(x.amounts, least))
    <3>1. Deposit(x, least) = Failed(y)
      BY <2>2 DEF Deposit, Check
    <3>. HIDE DEF y
    <3>. QED
      BY <1>1, <3>1, FailedStore
  <2>. QED
    BY <2>1, <2>2
<1>3. Moves(x, y)
  BY <1>2 DEF Moves, IsStore, Fields
<1>4. /\ y.balance = Plus(x.balance, x.amounts) /\ y.fees = x.fees /\ y.accum = x.accum
      /\ y.positions = x.positions /\ y.pool = x.pool /\ y.shares = x.shares
      /\ y.ticks = x.ticks
  BY DEF IsStore, Fields
<1>. HIDE DEF y
<1>5. ASSUME x.amounts \in [Denoms -> Nat], Sound(x) PROVE Sound(y)
  <2>1. y.balance \in [Denoms -> Nat]
    BY <1>2, <1>4, <1>5, CoinsTypes DEF Sound, Money
  <2>2. Money(y)
    BY <1>4, <1>5, <2>1 DEF Sound, Money
  <2>3. Active(y)
    BY <1>4, <1>5, ActiveOfSame DEF Sound
  <2>. QED
    BY <2>2, <2>3 DEF Sound
<1>. QED
  BY <1>2, <1>3, <1>5

\* Coins are not in the book.
LEMMA BookMoved ==
    ASSUME NEW x, NEW r, Book(x), Moves(x, r)
    PROVE  Book(r)
<1>1. SameBook(x, r)
  BY DEF SameBook, Moves, Book, Shape
<1>. QED
  BY <1>1, BookKept

\* Closing a position that has no liquidity left: shares and record go, ticks
\* stay for RemoveTicks.
LEMMA CloseBook ==
    ASSUME NEW s, Book(s), NEW id \in DOMAIN s.positions, s.positions[id].liquidity = 0,
           \A k \in DOMAIN s.positions : k # id => s.positions[k].liquidity # 0,
           s.ok, NEW p, Close(s, id, p).ok
    PROVE  LET r == Close(s, id, p)
           IN  /\ Shape(r) /\ TickSums(r) /\ ShareSums(r) /\ Positive(r)
               /\ DOMAIN r.shares = DOMAIN r.positions
               /\ r.ticks = s.ticks /\ r.pool = s.pool /\ r.amounts = s.amounts
               /\ Ends(s) = Ends(r) \cup {s.positions[id].lower, s.positions[id].upper}
               /\ Sound(s) => Sound(r)
<1>. DEFINE r == Close(s, id, p)
            x == CollectFees(s, id)
            y == RemovePosition(x, id)
<1>1. r = ResetIfEmpty(y, p)
  BY DEF Close
<1>2. IsStore(s) /\ id \in s.index /\ s.shares[id].shares = 0
  BY DEF Book, Shape, ShareSums
<1>3. x.ok
  <2>1. SUFFICES ASSUME ~x.ok PROVE FALSE
    OBVIOUS
  <2>2. IsStore(x)
    <3>1. ASSUME NEW a, IsStore(a), NEW b PROVE IsStore(Check(a, b))
      BY <3>1, FailedStore DEF Check
    <3>2. \A share, outside : IsStore(ClaimRewards(s, id, share, outside))
      <4>1. \A n, o, w, d : IsStore(PayRewards(s, id, n, o, w, d))
        <5>1. SUFFICES ASSUME NEW n, NEW o, NEW w, NEW d
                       PROVE  IsStore(PayRewards(s, id, n, o, w, d))
          OBVIOUS
        <5>. DEFINE a == [s EXCEPT
                 !.shares = IF n = 0 THEN Drop(@, {id})
                            ELSE Put(@, id, Share(n, Minus(s.accum, o), NoCoins)),
                 !.accum = Plus(@, DustPerShare(s, w, d)),
                 !.fees = Minus(@, d)]
        <5>2. IsStore(a)
          BY <1>2 DEF IsStore
        <5>3. PayRewards(s, id, n, o, w, d) = a \/ PayRewards(s, id, n, o, w, d) = Failed(a)
          BY DEF PayRewards, Check
        <5>. HIDE DEF a
        <5>. QED
          BY <5>2, <5>3, FailedStore
      <4>. QED
        BY <1>2, <4>1, FailedStore DEF ClaimRewards
    <3>. QED
      BY <3>2 DEF CollectFees
  <2>. HIDE DEF x
  <2>3. ~y.ok /\ IsStore(y)
    BY <2>1, <2>2 DEF RemovePosition, IsStore, Fields
  <2>. HIDE DEF y
  <2>4. ~ResetIfEmpty(y, p).ok
    BY <2>3 DEF ResetIfEmpty, IsStore, Fields
  <2>. QED
    BY <1>1, <2>4
<1>4. /\ IsStore(x) /\ x.positions = s.positions /\ x.index = s.index /\ x.count = s.count
      /\ x.ticks = s.ticks /\ x.pool = s.pool /\ x.totalShares = s.totalShares
      /\ x.amounts = s.amounts /\ x.shares = Drop(s.shares, {id})
      /\ Sound(s) => Money(x)
  <2>0. Sound(s) => Money(x)
    BY <1>2, <1>3, BookStored, CollectMoney DEF Sound
  <2>1. PICK v : Collected(s, x, id, v)
    BY <1>2, <1>3, CollectForm
  <2>. HIDE DEF x
  <2>. QED
    BY <1>2, <2>0, <2>1 DEF Collected
<1>. HIDE DEF x
<1>5. /\ IsStore(y) /\ y.positions = Drop(s.positions, {id}) /\ y.index = s.index
      /\ y.count = s.count /\ y.ticks = s.ticks /\ y.pool = s.pool
      /\ y.totalShares = s.totalShares /\ y.amounts = s.amounts
      /\ y.shares = Drop(s.shares, {id})
  BY <1>4 DEF RemovePosition, IsStore, Fields
<1>14. /\ y.balance = x.balance /\ y.fees = x.fees /\ y.accum = x.accum
       /\ y.shares = x.shares /\ y.ticks = x.ticks
  BY <1>4 DEF RemovePosition, IsStore, Fields
<1>. HIDE DEF y
<1>6. r = y
  BY <1>1, <1>2, <1>5 DEF ResetIfEmpty, PoolHasPosition
<1>7. /\ DOMAIN y.positions = DOMAIN s.positions \ {id}
      /\ \A k \in DOMAIN y.positions : y.positions[k] = s.positions[k]
      /\ DOMAIN y.shares = DOMAIN s.shares \ {id}
      /\ \A k \in DOMAIN y.shares : y.shares[k] = s.shares[k]
  BY <1>5 DEF Drop
<1>8. Shape(s) /\ Shape(y)
  BY <1>5, <1>7 DEF Book, Shape
<1>9. /\ \A t : Opened(s, t) = Opened(y, t) /\ Closed(s, t) = Closed(y, t)
      /\ LiquidityOf(s, DOMAIN s.positions) = LiquidityOf(y, DOMAIN y.positions)
      /\ Ends(s) = Ends(y) \cup {s.positions[id].lower, s.positions[id].upper}
      /\ \A tick : AtTick(s, tick) = AtTick(y, tick)
  <2>1. /\ id \notin DOMAIN y.positions
        /\ DOMAIN s.positions = DOMAIN y.positions \cup {id}
        /\ \A k \in DOMAIN y.positions : s.positions[k] = y.positions[k]
    BY <1>7
  <2>2. Padded(y, s, id)
    BY <1>8, <2>1 DEF Padded
  <2>. QED
    BY <2>2, SumsPadded, AtTickPadded
<1>10. TickSums(y)
  BY <1>5, <1>9 DEF Book, TickSums, Gross, Net
<1>11. ShareSums(y)
  <2>1. y.totalShares = LiquidityOf(y, DOMAIN y.positions)
    BY <1>5, <1>9 DEF Book, ShareSums
  <2>2. DOMAIN s.shares = DOMAIN s.positions
    BY DEF Book
  <2>3. \A k \in DOMAIN y.shares : y.shares[k].shares = y.positions[k].liquidity
    BY <1>7, <2>2 DEF Book, ShareSums
  <2>. QED
    BY <2>1, <2>3 DEF ShareSums
<1>12. Positive(y) /\ DOMAIN y.shares = DOMAIN y.positions
  BY <1>7 DEF Positive, Book
<1>13. ASSUME Sound(s) PROVE Sound(y)
  <2>1. Money(y)
    BY <1>4, <1>13, <1>14, MoneyOfSame
  <2>2. Active(y)
    BY <1>5, <1>9, <1>13 DEF Sound, Active
  <2>. QED
    BY <2>1, <2>2 DEF Sound
<1>. QED
  BY <1>5, <1>6, <1>8, <1>9, <1>10, <1>11, <1>12, <1>13

\* UpdatePosition returns a store, also when it fails.
LEMMA UpdateStore ==
    ASSUME NEW s, IsStore(s), NEW id, NEW delta
    PROVE  IsStore(UpdatePosition(s, id, delta))
<1>. DEFINE pos == s.positions[id]
            s3 == StorePosition(InitOrUpdateTick(InitOrUpdateTick(s, pos.lower, delta, FALSE),
                                                 pos.upper, delta, TRUE), id, pos, delta)
            x == UpdatePosition(s, id, delta)
<1>1. IsStore(s3)
  BY DEF StorePosition, InitOrUpdateTick, AddToTick, IsStore
<1>2. ASSUME NEW a, IsStore(a), NEW o, NEW d PROVE IsStore(SetFeeAccumulator(a, id, o, d))
  <2>1. \A v, u, b : IsStore(SetShare(a, id, d, v, u, b))
    BY <1>2 DEF SetShare, IsStore
  <2>. QED
    BY <2>1, FailedStore DEF SetFeeAccumulator, Check
<1>3. x = Failed(s) \/ x = Settle(s3, id, pos, delta)
  BY DEF UpdatePosition, UpdateAt
<1>. HIDE DEF s3, pos
<1>. QED
  BY <1>1, <1>2, <1>3, FailedStore DEF Settle

\* A withdrawal, of a part or of all of a position.
LEMMA DecreaseGood ==
    ASSUME NEW s, Good(s), NEW id \in DOMAIN s.positions,
           NEW liq \in 0 .. s.positions[id].liquidity, DecreaseLiquidity(s, id, liq).ok
    PROVE  LET r == DecreaseLiquidity(s, id, liq)
           IN  /\ Good(r) /\ HasPosition(r.pool) /\ r.amounts \in [Denoms -> Nat]
               /\ Sound(s) => Sound(r)
<1>. DEFINE r == DecreaseLiquidity(s, id, liq)
            pos == s.positions[id]
            x == UpdatePosition(s, id, -liq)
            y == Refund(x)
            z == Close(y, id, s.pool)
            last == IF liq = pos.liquidity THEN z ELSE y
<1>1. /\ Book(s) /\ Priced(s) /\ HasPosition(s.pool) /\ Opening(s, id)
      /\ IsPool(s.pool) /\ pos.liquidity \in Nat
      /\ pos.lower \in Ticks /\ pos.upper \in Ticks /\ pos.lower < pos.upper
  BY BookOpening DEF Good, Priced, Book, Shape
<1>2. r = RemoveTicks(last, pos)
  BY DEF DecreaseLiquidity
<1>3. last.ok
  BY <1>2 DEF RemoveTicks
<1>4. y.ok
  BY <1>3 DEF Close
<1>5. IsStore(x)
  BY <1>1, UpdateStore DEF Book, Shape
<1>6. x.ok /\ Moves(x, y)
  <2>. HIDE DEF x
  <2>. QED
    BY <1>4, <1>5, RefundMoves DEF Moves
<1>7. /\ -liq \in Int /\ Book(x) /\ Updated(s, x, id, -liq)
      /\ Sound(s) => Sound(x)
  BY <1>1, <1>6, UpdateBook
<1>. HIDE DEF x
<1>8. Book(y)
  BY <1>6, <1>7, BookMoved
<1>9. /\ DOMAIN y.positions = DOMAIN s.positions
      /\ y.positions[id].lower = pos.lower /\ y.positions[id].upper = pos.upper
      /\ y.positions[id].liquidity = pos.liquidity + -liq
      /\ \A k \in DOMAIN s.positions : k # id => y.positions[k].liquidity # 0
      /\ Priced(y) /\ HasPosition(y.pool)
      /\ y.amounts = Whole(CalcActualAmounts(s.pool, pos.lower, pos.upper, -liq))
  <2>1. Priced(y) /\ HasPosition(y.pool)
    BY <1>1, <1>6, <1>7, PricedUpdated DEF Updated, Moves
  <2>. QED
    BY <1>6, <1>7, <2>1 DEF Updated, Moves, Good, Positive
<1>10. y.amounts \in [Denoms -> Nat]
  BY <1>1, <1>7, <1>9, AmountsNat
<1>13. Sound(s) => Sound(y)
  <2>1. x.amounts \in [Denoms -> Nat]
    BY <1>6, <1>10 DEF Moves
  <2>. QED
    BY <1>4, <1>5, <1>7, <2>1, RefundMoves
<1>. HIDE DEF y
<1>11. CASE liq = pos.liquidity
  <2>1. last = z
    BY <1>11
  <2>2. y.positions[id].liquidity = 0
    <3>. HIDE DEF pos
    <3>. QED
      BY <1>1, <1>9, <1>11
  <2>3. /\ Shape(z) /\ TickSums(z) /\ ShareSums(z) /\ Positive(z)
        /\ DOMAIN z.shares = DOMAIN z.positions
        /\ z.ticks = y.ticks /\ z.pool = y.pool /\ z.amounts = y.amounts
        /\ Ends(y) = Ends(z) \cup {pos.lower, pos.upper}
        /\ Sound(y) => Sound(z)
    BY <1>3, <1>4, <1>8, <1>9, <2>1, <2>2, CloseBook
  <2>4. /\ pos.lower \in DOMAIN z.ticks /\ pos.upper \in DOMAIN z.ticks
        /\ DOMAIN z.ticks = Ends(z) \cup {pos.lower, pos.upper}
    BY <1>8, <2>3 DEF Book
  <2>5. z.ok
    BY <1>3, <2>1
  <2>. HIDE DEF z, last, pos
  <2>6. /\ Book(r) /\ Positive(r) /\ r.pool = z.pool /\ r.amounts = z.amounts
        /\ Sound(z) => Sound(r)
    BY <1>2, <2>1, <2>3, <2>4, <2>5, RemoveTicksBook
  <2>. HIDE DEF r
  <2>7. Priced(r) /\ HasPosition(r.pool)
    BY <1>9, <2>3, <2>6 DEF Priced
  <2>8. /\ Good(r) /\ HasPosition(r.pool) /\ r.amounts \in [Denoms -> Nat]
        /\ Sound(s) => Sound(r)
    BY <1>10, <1>13, <2>3, <2>6, <2>7 DEF Good
  <2>. QED
    BY <2>8 DEF r
<1>12. CASE liq # pos.liquidity
  <2>1. last = y
    BY <1>12
  <2>2. y.positions[id].liquidity # 0
    <3>1. liq \in Nat /\ liq \in Int
      OBVIOUS
    <3>. HIDE DEF pos
    <3>. QED
      BY <1>1, <1>9, <1>12, <3>1
  <2>3. Positive(y)
    BY <1>9, <2>2 DEF Positive
  <2>4. /\ pos.lower \in DOMAIN y.ticks /\ pos.upper \in DOMAIN y.ticks
        /\ DOMAIN y.ticks = Ends(y) \cup {pos.lower, pos.upper}
    <3>1. pos.lower \in Ends(y) /\ pos.upper \in Ends(y)
      BY <1>9 DEF Ends
    <3>. QED
      BY <1>8, <3>1 DEF Book
  <2>. HIDE DEF last, pos
  <2>6. /\ Book(r) /\ Positive(r) /\ r.pool = y.pool /\ r.amounts = y.amounts
        /\ Sound(y) => Sound(r)
    BY <1>2, <1>4, <1>8, <2>1, <2>3, <2>4, RemoveTicksBook DEF Book
  <2>. HIDE DEF r
  <2>7. Priced(r) /\ HasPosition(r.pool)
    BY <1>9, <2>6 DEF Priced
  <2>8. /\ Good(r) /\ HasPosition(r.pool) /\ r.amounts \in [Denoms -> Nat]
        /\ Sound(s) => Sound(r)
    BY <1>10, <1>13, <2>6, <2>7 DEF Good
  <2>. QED
    BY <2>8 DEF r
<1>. QED
  BY <1>11, <1>12

\* The first position gives the pool its price; later ones find it there.
LEMMA WithPriceGood ==
    ASSUME NEW s, Good(s), NEW offer, WithPrice(s, offer).ok
    PROVE  LET r == WithPrice(s, offer)
           IN  Good(r) /\ HasPosition(r.pool) /\ (Sound(s) => Sound(r))
<1>. DEFINE r == WithPrice(s, offer)
            root == ApproxSqrt(Quo(Dec(offer["quote"]), Dec(offer["base"])))
            x == [s EXCEPT !.pool.sqrtPrice = root, !.pool.tick = TickOf(root)]
<1>1. IsStore(s) /\ IsPool(s.pool)
  BY DEF Good, Book, Shape, Priced
<1>2. CASE HasPosition(s.pool)
  BY <1>2 DEF WithPrice
<1>3. CASE ~HasPosition(s.pool)
  <2>1. r = Failed(s) \/ (HasTick(root) /\ r = x)
    BY <1>3 DEF WithPrice, InitFirstPosition
  <2>2. HasTick(root) /\ r = x
    BY <1>1, <2>1, FailedStore
  <2>. HIDE DEF root
  <2>3. /\ IsStore(x) /\ x.positions = s.positions /\ x.index = s.index /\ x.count = s.count
        /\ x.ticks = s.ticks /\ x.shares = s.shares /\ x.totalShares = s.totalShares
        /\ x.balance = s.balance /\ x.fees = s.fees /\ x.accum = s.accum
    BY <1>1 DEF IsStore, Fields
  <2>4. /\ IsPool(x.pool) /\ x.pool.sqrtPrice = root /\ x.pool.tick = TickOf(root)
        /\ x.pool.liquidity = s.pool.liquidity
    BY <1>1 DEF IsStore, Fields, IsPool, PoolFields
  <2>. HIDE DEF x
  <2>5. /\ TickOf(root) \in Int /\ root \in Nat \ {0} /\ InTick(TickOf(root), root)
    BY <2>2, TickOfPrice
  <2>6. Priced(x) /\ HasPosition(x.pool)
    BY <2>4, <2>5 DEF Priced, HasPosition
  <2>7. SameBook(s, x)
    BY <2>3 DEF SameBook, Good, Book, Shape
  <2>8. Book(x) /\ Positive(x)
    BY <2>3, <2>7, BookKept DEF Good, Positive
  <2>9. ASSUME Sound(s) PROVE Sound(x)
    <3>1. DOMAIN s.positions = {}
      BY <1>3 DEF Good, Priced
    <3>2. \A tick : Around(s, tick) = {}
      BY <3>1 DEF Around
    <3>3. \A tick : AtTick(s, tick) = LiquidityOf(s, {})
      BY <3>2, Zenon DEF AtTick
    <3>4. \A tick : AtTick(x, tick) = AtTick(s, tick)
      BY <2>3, AtTickOfSame
    <3>5. Active(x)
      BY <2>4, <2>9, <3>3, <3>4 DEF Sound, Active
    <3>6. Money(x)
      BY <2>3, <2>9, MoneyOfSame DEF Sound
    <3>. QED
      BY <3>5, <3>6 DEF Sound
  <2>. QED
    BY <2>2, <2>6, <2>8, <2>9 DEF Good
<1>. QED
  BY <1>2, <1>3

\* AppendPosition, before the position has liquidity.
LEMMA AppendOpening ==
    ASSUME NEW s, Good(s), HasPosition(s.pool), NEW lower \in Ticks, NEW upper \in Ticks,
           lower < upper
    PROVE  LET r == AppendPosition(s, lower, upper)
           IN  /\ Opening(r, s.count) /\ r.pool = s.pool
               /\ r.positions[s.count].liquidity = 0
               /\ r.positions[s.count].lower = lower /\ r.positions[s.count].upper = upper
               /\ Sound(s) => Sound(r)
               /\ \A k \in DOMAIN r.positions : k # s.count => r.positions[k].liquidity # 0
<1>. DEFINE r == AppendPosition(s, lower, upper)
            id == s.count
            new == Position(lower, upper, 0)
<1>1. Book(s) /\ Shape(s) /\ IsStore(s) /\ s.count \in Nat
  BY DEF Good, Book, Shape
<1>2. /\ IsStore(r) /\ r.positions = Put(s.positions, id, new) /\ r.index = s.index \cup {id}
      /\ r.count = s.count + 1 /\ r.ticks = s.ticks /\ r.shares = s.shares
      /\ r.totalShares = s.totalShares /\ r.pool = s.pool
      /\ r.balance = s.balance /\ r.fees = s.fees /\ r.accum = s.accum
  BY <1>1 DEF AppendPosition, IsStore, Fields
<1>. HIDE DEF r
<1>3. new.lower = lower /\ new.upper = upper /\ new.liquidity = 0
  BY DEF Position
<1>. HIDE DEF new
<1>4. id \notin DOMAIN s.positions
  BY <1>1 DEF Shape
<1>5. /\ DOMAIN r.positions = DOMAIN s.positions \cup {id} /\ r.positions[id] = new
      /\ \A k \in DOMAIN s.positions : r.positions[k] = s.positions[k]
  BY <1>2, <1>4 DEF Put
<1>6. Shape(r)
  <2>1. r.index = 0 .. r.count - 1 /\ r.count \in Nat
    <3>1. (0 .. s.count - 1) \cup {s.count} = 0 .. (s.count + 1) - 1
      BY <1>1
    <3>. QED
      BY <1>1, <1>2, <3>1 DEF Shape
  <2>2. DOMAIN r.positions \subseteq r.index
    BY <1>1, <1>2, <1>5 DEF Shape
  <2>3. \A k \in DOMAIN r.positions :
          /\ r.positions[k].lower \in Ticks /\ r.positions[k].upper \in Ticks
          /\ r.positions[k].lower < r.positions[k].upper
          /\ r.positions[k].liquidity \in Nat
    BY <1>1, <1>3, <1>5 DEF Shape
  <2>. QED
    BY <1>1, <1>2, <2>1, <2>2, <2>3 DEF Shape
<1>7. Padded(s, r, id)
  BY <1>1, <1>3, <1>4, <1>5, <1>6 DEF Padded
<1>8. /\ \A t : Opened(r, t) = Opened(s, t) /\ Closed(r, t) = Closed(s, t)
      /\ LiquidityOf(r, DOMAIN r.positions) = LiquidityOf(s, DOMAIN s.positions)
      /\ Ends(r) = Ends(s) \cup {lower, upper}
  <2>. HIDE DEF id
  <2>1. Ends(r) = Ends(s) \cup {r.positions[id].lower, r.positions[id].upper}
    BY <1>7, SumsPadded
  <2>. QED
    BY <1>3, <1>5, <1>7, <2>1, SumsPadded
<1>9. TickSums(r)
  BY <1>1, <1>2, <1>8 DEF Book, TickSums, Gross, Net
<1>10. DOMAIN s.shares = DOMAIN s.positions
  BY <1>1 DEF Book
<1>11. ShareSums(r)
  BY <1>1, <1>2, <1>5, <1>8, <1>10 DEF Book, ShareSums
<1>12. Opening(r, id)
  BY <1>1, <1>2, <1>3, <1>5, <1>6, <1>8, <1>9, <1>10, <1>11 DEF Book, Opening
<1>13. \A k \in DOMAIN r.positions : k # s.count => r.positions[k].liquidity # 0
  BY <1>5 DEF Good, Positive
<1>14. ASSUME Sound(s) PROVE Sound(r)
  <2>1. Money(r)
    BY <1>2, <1>14, MoneyOfSame DEF Sound
  <2>2. Active(r)
    BY <1>2, <1>7, <1>14, AtTickPadded DEF Sound, Active
  <2>. QED
    BY <2>1, <2>2 DEF Sound
<1>. QED
  BY <1>2, <1>3, <1>5, <1>12, <1>13, <1>14 DEF r

\* A new position.
LEMMA CreateGood ==
    ASSUME NEW s, Good(s), NEW lower \in Ticks, NEW upper \in Ticks, lower < upper,
           NEW offer \in [Denoms -> Nat], NEW least,
           CreatePosition(s, lower, upper, offer, least).ok
    PROVE  /\ Good(CreatePosition(s, lower, upper, offer, least))
           /\ Sound(s) => Sound(CreatePosition(s, lower, upper, offer, least))
<1>. DEFINE r == CreatePosition(s, lower, upper, offer, least)
            a == WithPrice(s, offer)
            delta == GetLiquidityFromAmounts(a.pool.sqrtPrice, TickSqrtPrice[lower],
                                             TickSqrtPrice[upper], offer)
            b == AppendPosition(a, lower, upper)
            c == UpdatePosition(b, a.count, delta)
<1>1. IsStore(s)
  BY DEF Good, Book, Shape
<1>2. r = AddLiquidity(a, lower, upper, delta, least)
  <2>1. r # Failed(s)
    BY <1>1, FailedStore
  <2>. QED
    BY <2>1 DEF CreatePosition, AddOffer
<1>3. IsStore(a)
  <2>1. \A x : IsStore([s EXCEPT !.pool.sqrtPrice = x, !.pool.tick = TickOf(x)])
    BY <1>1 DEF IsStore
  <2>2. \A x : IsStore(InitFirstPosition(s, offer, x))
    BY <1>1, <2>1, FailedStore DEF InitFirstPosition
  <2>. QED
    BY <1>1, <2>2, FailedStore DEF WithPrice
<1>. HIDE DEF a, delta, r
<1>4. a.ok /\ r = Deposit(c, least)
  <2>1. CASE a.ok /\ delta # 0
    BY <1>2, <2>1 DEF AddLiquidity
  <2>2. CASE ~(a.ok /\ delta # 0)
    <3>1. r = Failed(a)
      BY <1>2, <2>2 DEF AddLiquidity
    <3>. QED
      BY <1>3, <3>1, FailedStore DEF r
  <2>. QED
    BY <2>1, <2>2
<1>5. Good(a) /\ HasPosition(a.pool) /\ (Sound(s) => Sound(a))
  BY <1>4, WithPriceGood DEF a
<1>6. delta \in Nat
  <2>1. /\ a.pool.sqrtPrice \in Nat /\ TickSqrtPrice[lower] \in Nat
        /\ TickSqrtPrice[upper] \in Nat
    BY <1>5, PoolAssumption DEF Good, Priced
  <2>. QED
    BY <2>1, LiquidityNat DEF delta
<1>7. /\ Opening(b, a.count) /\ b.pool = a.pool
      /\ b.positions[a.count].liquidity = 0
      /\ b.positions[a.count].lower = lower /\ b.positions[a.count].upper = upper
      /\ Sound(a) => Sound(b)
      /\ \A k \in DOMAIN b.positions : k # a.count => b.positions[k].liquidity # 0
  BY <1>5, AppendOpening
<1>. HIDE DEF b
<1>8. IsStore(c)
  BY <1>7, UpdateStore DEF Opening, Shape
<1>9. /\ Moves(c, r)
      /\ c.amounts \in [Denoms -> Nat] /\ Sound(c) => Sound(r)
  <2>. HIDE DEF c
  <2>. QED
    BY <1>4, <1>8, DepositMoves DEF r
<1>10. /\ delta # 0 /\ Book(c) /\ Updated(b, c, a.count, delta)
       /\ Sound(b) => Sound(c)
  <2>1. c.ok /\ IsPool(b.pool) /\ delta \in Int
    BY <1>5, <1>6, <1>7, <1>9 DEF Moves, Good, Priced
  <2>. QED
    BY <1>7, <2>1, UpdateBook
<1>. HIDE DEF c
<1>11. Book(r)
  BY <1>9, <1>10, BookMoved
<1>12. Positive(r)
  <2>1. c.positions[a.count].liquidity # 0
    BY <1>6, <1>7, <1>10 DEF Updated
  <2>. QED
    BY <1>7, <1>9, <1>10, <2>1 DEF Positive, Updated, Moves
<1>13. Priced(r)
  <2>1. /\ IsPool(r.pool) /\ r.pool.tick = a.pool.tick
        /\ r.pool.sqrtPrice = a.pool.sqrtPrice
    BY <1>7, <1>9, <1>10 DEF Updated, Moves
  <2>. QED
    BY <1>5, <2>1, PricedUpdated DEF Good
<1>14. Good(r)
  BY <1>11, <1>12, <1>13 DEF Good
<1>15. c.amounts \in [Denoms -> Nat]
  <2>1. c.amounts = Whole(CalcActualAmounts(a.pool, lower, upper, delta))
    BY <1>7, <1>10 DEF Updated
  <2>. QED
    BY <1>5, <1>6, <2>1, AmountsNat DEF Good
<1>16. Sound(s) => Sound(r)
  BY <1>5, <1>7, <1>9, <1>10, <1>15
<1>. QED
  BY <1>14, <1>16 DEF r

\* A position that is closed and opened again with more liquidity.
LEMMA IncreaseGood ==
    ASSUME NEW s, Good(s), NEW id \in DOMAIN s.positions, NEW offer \in [Denoms -> Nat],
           IncreaseLiquidity(s, id, offer).ok
    PROVE  /\ Good(IncreaseLiquidity(s, id, offer))
           /\ Sound(s) => Sound(IncreaseLiquidity(s, id, offer))
<1>. DEFINE r == IncreaseLiquidity(s, id, offer)
            pos == s.positions[id]
            x == DecreaseLiquidity(s, id, pos.liquidity)
            more == Plus(x.amounts, offer)
<1>1. /\ IsStore(s) /\ pos.liquidity \in Nat /\ pos.lower \in Ticks /\ pos.upper \in Ticks
      /\ pos.lower < pos.upper
  BY DEF Good, Book, Shape
<1>2. r = Reopen(x, pos, offer)
  <2>1. r # Failed(s)
    BY <1>1, FailedStore
  <2>. QED
    BY <2>1 DEF IncreaseLiquidity
<1>3. x.ok /\ r = CreatePosition(x, pos.lower, pos.upper, more, x.amounts)
  <2>. HIDE DEF x
  <2>. QED
    BY <1>2 DEF Reopen
<1>4. pos.liquidity \in 0 .. pos.liquidity
  <2>. HIDE DEF pos
  <2>. QED
    BY <1>1
<1>5. Good(x) /\ x.amounts \in [Denoms -> Nat] /\ (Sound(s) => Sound(x))
  BY <1>3, <1>4, DecreaseGood
<1>. HIDE DEF x
<1>6. more \in [Denoms -> Nat]
  BY <1>5 DEF Plus
<1>. HIDE DEF pos, more
<1>. QED
  BY <1>1, <1>3, <1>5, <1>6, CreateGood

\* Incentives grow the accumulator only.
LEMMA AllocateGood ==
    ASSUME NEW s, Good(s), AllocateIncentive(s).ok
    PROVE  Good(AllocateIncentive(s)) /\ (Sound(s) => Sound(AllocateIncentive(s)))
<1>. DEFINE r == AllocateIncentive(s)
            n == QuoTruncate(Dec(IncentiveAmount), s.pool.liquidity)
            x == [s EXCEPT !.accum["base"] = @ + n, !.fees["base"] = @ + IncentiveAmount]
<1>1. IsStore(s)
  BY DEF Good, Book, Shape
<1>2. r = x /\ s.pool.liquidity # 0
  <2>1. (r = x /\ s.pool.liquidity # 0) \/ r = Failed(s)
    BY DEF AllocateIncentive
  <2>. QED
    BY <1>1, <2>1, FailedStore
<1>6. ASSUME Sound(s) PROVE n \in Nat
  <2>1. PICK l \in Nat \ {0} : l = s.pool.liquidity
    BY <1>2, <1>6, AtTickNat DEF Sound, Active, Good, Book
  <2>2. Dec(IncentiveAmount) * Prec \in Nat
    BY PoolAssumption, PrecAssumption DEF Dec
  <2>. QED
    BY <2>1, <2>2, TruncBounds DEF QuoTruncate
<1>. HIDE DEF n
<1>3. /\ IsStore(x) /\ x.positions = s.positions /\ x.index = s.index /\ x.count = s.count
      /\ x.ticks = s.ticks /\ x.shares = s.shares /\ x.totalShares = s.totalShares
      /\ x.pool = s.pool /\ x.balance = s.balance
      /\ x.accum = [s.accum EXCEPT !["base"] = @ + n]
      /\ x.fees = [s.fees EXCEPT !["base"] = @ + IncentiveAmount]
  BY <1>1 DEF IsStore, Fields
<1>. HIDE DEF x
<1>4. SameBook(s, x)
  BY <1>3 DEF SameBook, Good, Book, Shape
<1>5. Good(x)
  BY <1>3, <1>4, BookKept, PricedKept DEF Good, Positive
<1>7. ASSUME Sound(s) PROVE Sound(x)
  <2>1. s.accum \in [Denoms -> Nat] /\ s.fees \in [Denoms -> Nat] /\ "base" \in Denoms
    BY <1>7 DEF Sound, Money, Denoms
  <2>2. n \in Nat /\ IncentiveAmount \in Nat
    BY <1>6, <1>7, PoolAssumption
  <2>3. x.accum \in [Denoms -> Nat] /\ x.fees \in [Denoms -> Nat]
    BY <1>3, <2>1, <2>2
  <2>4. Money(x)
    BY <1>3, <1>7, <2>3 DEF Sound, Money
  <2>5. Active(x)
    BY <1>3, <1>7, ActiveOfSame DEF Sound
  <2>. QED
    BY <2>4, <2>5 DEF Sound
<1>. QED
  BY <1>2, <1>5, <1>7

------------------------------------------------------------------------------
(* The transactions *)

\* A committed store differs from what its message left in the amounts only.
LEMMA CommitGood ==
    ASSUME NEW s, Good(s), Commit(s)
    PROVE  Good(db') /\ (Sound(s) => Sound(db'))
<1>. DEFINE x == [s EXCEPT !.amounts = NoCoins]
<1>1. db' = x
  BY DEF Commit
<1>2. IsStore(s)
  BY DEF Good, Book, Shape
<1>3. /\ IsStore(x) /\ x.positions = s.positions /\ x.index = s.index /\ x.count = s.count
      /\ x.ticks = s.ticks /\ x.shares = s.shares /\ x.totalShares = s.totalShares
      /\ x.pool = s.pool /\ x.balance = s.balance /\ x.fees = s.fees
      /\ x.accum = s.accum
  BY <1>2 DEF IsStore, Fields
<1>. HIDE DEF x
<1>4. SameBook(s, x)
  BY <1>3 DEF SameBook, Good, Book, Shape
<1>5. Good(x)
  BY <1>3, <1>4, BookKept, PricedKept DEF Good, Positive
<1>6. Sound(s) => Sound(x)
  BY <1>3, SoundOfSame
<1>. QED
  BY <1>1, <1>5, <1>6

\* A part of a position is no more than the position.
LEMMA FractionWithin ==
    ASSUME NEW liq \in Nat, NEW f \in Fractions
    PROVE  (liq * f.num) \div f.den \in 0 .. liq
<1>1. PICK den \in Nat \ {0} : den = f.den
  BY PoolAssumption
<1>2. PICK num \in 0 .. den : num = f.num
  BY <1>1, PoolAssumption
<1>3. PICK left \in Nat : den = num + left
  <2>1. den - num \in Nat /\ den = num + (den - num)
    OBVIOUS
  <2>. QED
    BY <2>1
<1>4. PICK part \in Nat, rest \in Nat : part = liq * num /\ rest = liq * left
  OBVIOUS
<1>5. liq * den = part + rest
  BY <1>3, <1>4
<1>6. PICK q \in Int : q = part \div den
  OBVIOUS
<1>7. den * q <= part /\ part < den * q + den
  BY <1>6
<1>8. q >= 0
  BY <1>7
<1>9. q <= liq
  <2>1. SUFFICES ASSUME q >= liq + 1 PROVE FALSE
    BY <1>6
  <2>2. den * q >= den * (liq + 1)
    BY <2>1
  <2>3. den * (liq + 1) = liq * den + den
    OBVIOUS
  <2>4. den * q \in Int /\ liq * den \in Int
    OBVIOUS
  <2>. QED
    BY <1>5, <1>7, <2>2, <2>3, <2>4
<1>. QED
  BY <1>1, <1>2, <1>4, <1>6, <1>8, <1>9

\* Every transaction keeps the invariant.
LEMMA GoodStep ==
    ASSUME Rated, Good(db), [Next]_vars
    PROVE  Good(db') /\ (Sound(db) /\ Deep(db) => Sound(db'))
<1>1. CASE MsgCreatePosition
  <2>1. PICK r \in Ranges, offer \in Deposits :
          Commit(CreatePosition(db, r[1], r[2], offer, NoCoins))
    BY <1>1 DEF MsgCreatePosition
  <2>2. /\ r[1] \in Ticks /\ r[2] \in Ticks /\ r[1] < r[2]
        /\ offer \in [Denoms -> Nat]
    BY PoolAssumption
  <2>3. CreatePosition(db, r[1], r[2], offer, NoCoins).ok
    BY <2>1 DEF Commit
  <2>4. /\ Good(CreatePosition(db, r[1], r[2], offer, NoCoins))
        /\ Sound(db) => Sound(CreatePosition(db, r[1], r[2], offer, NoCoins))
    BY <2>2, <2>3, CreateGood
  <2>. QED
    BY <2>1, <2>4, CommitGood
<1>2. CASE MsgIncreaseLiquidity
  <2>1. PICK id \in DOMAIN db.positions, offer \in Deposits :
          Commit(IncreaseLiquidity(db, id, offer))
    BY <1>2 DEF MsgIncreaseLiquidity, Live
  <2>2. offer \in [Denoms -> Nat]
    BY PoolAssumption
  <2>3. IncreaseLiquidity(db, id, offer).ok
    BY <2>1 DEF Commit
  <2>4. /\ Good(IncreaseLiquidity(db, id, offer))
        /\ Sound(db) => Sound(IncreaseLiquidity(db, id, offer))
    BY <2>2, <2>3, IncreaseGood
  <2>. QED
    BY <2>1, <2>4, CommitGood
<1>3. CASE MsgDecreaseLiquidity
  <2>1. PICK id \in DOMAIN db.positions, f \in Fractions :
          Commit(DecreaseLiquidity(db, id, (db.positions[id].liquidity * f.num) \div f.den))
    BY <1>3 DEF MsgDecreaseLiquidity, Live
  <2>. DEFINE liq == (db.positions[id].liquidity * f.num) \div f.den
  <2>2. db.positions[id].liquidity \in Nat
    BY DEF Good, Book, Shape
  <2>3. liq \in 0 .. db.positions[id].liquidity
    BY <2>2, FractionWithin
  <2>4. Commit(DecreaseLiquidity(db, id, liq))
    BY <2>1
  <2>. HIDE DEF liq
  <2>5. DecreaseLiquidity(db, id, liq).ok
    BY <2>4 DEF Commit
  <2>6. /\ Good(DecreaseLiquidity(db, id, liq))
        /\ Sound(db) => Sound(DecreaseLiquidity(db, id, liq))
    BY <2>3, <2>5, DecreaseGood
  <2>. QED
    BY <2>4, <2>6, CommitGood
<1>4. CASE MsgClaimRewards
  <2>1. PICK id \in DOMAIN db.positions : Commit(CollectFees(db, id))
    BY <1>4 DEF MsgClaimRewards, Live
  <2>2. CollectFees(db, id).ok
    BY <2>1 DEF Commit
  <2>3. /\ Good(CollectFees(db, id))
        /\ Sound(db) => Sound(CollectFees(db, id))
    BY <2>2, ClaimGood
  <2>. QED
    BY <2>1, <2>3, CommitGood
<1>5. CASE SwapExactAmountIn \/ SwapExactAmountOut
  <2>5. PICK dir \in {"down", "up"}, n \in SwapAmounts :
          Commit(Swap(db, dir, "in", n)) \/ Commit(Swap(db, dir, "out", n))
    BY <1>5 DEF SwapExactAmountIn, SwapExactAmountOut
  <2>1. PICK kind : Commit(Swap(db, dir, kind, n))
    BY <2>5
  <2>4. n \in Nat
    BY PoolAssumption
  <2>2. Swap(db, dir, kind, n).ok
    BY <2>1 DEF Commit
  <2>3. /\ Good(Swap(db, dir, kind, n))
        /\ Sound(db) /\ Deep(db) => Sound(Swap(db, dir, kind, n))
    BY <2>2, <2>4, SwapGood
  <2>. QED
    BY <2>1, <2>3, CommitGood
<1>6. CASE Incentive
  <2>1. Commit(AllocateIncentive(db))
    BY <1>6 DEF Incentive
  <2>2. AllocateIncentive(db).ok
    BY <2>1 DEF Commit
  <2>3. /\ Good(AllocateIncentive(db))
        /\ Sound(db) => Sound(AllocateIncentive(db))
    BY <2>2, AllocateGood
  <2>. QED
    BY <2>1, <2>3, CommitGood
<1>7. CASE UNCHANGED vars
  <2>1. db' = db
    BY <1>7 DEF vars
  <2>. QED
    BY <2>1
<1>. QED
  BY <1>1, <1>2, <1>3, <1>4, <1>5, <1>6, <1>7 DEF Next

\* The empty pool is sound.
LEMMA SoundInit == Init => Sound(db)
<1>. SUFFICES ASSUME Init PROVE Sound(db)
  OBVIOUS
<1>1. /\ db.positions = <<>> /\ db.ticks = <<>> /\ db.shares = <<>>
      /\ db.balance = NoCoins /\ db.fees = NoCoins /\ db.accum = NoCoins
      /\ db.pool = [tick |-> 0, sqrtPrice |-> 0, liquidity |-> 0]
  BY DEF Init
<1>2. DOMAIN db.positions = {} /\ DOMAIN db.ticks = {} /\ DOMAIN db.shares = {}
  BY <1>1
<1>3. AtTick(db, db.pool.tick) = 0
  <2>1. Around(db, db.pool.tick) = {}
    BY <1>2 DEF Around
  <2>. QED
    BY <2>1, SumEmpty DEF AtTick, LiquidityOf
<1>4. Active(db)
  BY <1>1, <1>3 DEF Active
<1>5. Money(db)
  BY <1>1, <1>2, CoinsTypes DEF Money
<1>. QED
  BY <1>4, <1>5 DEF Sound

(* The invariant of the specification, and the part of it that is kept while
   the pool is deep. *)
Inv == Good(db) /\ Rated
SoundPool == Sound(db)
DeepPool == Deep(db)

\* The invariant holds in every state of a behaviour.
LEMMA PoolInvariant == Spec => []Inv
<1>1. Init => Inv
  BY GoodInit, PoolAssumption DEF Inv, Init, Rated
<1>2. Inv /\ [Next]_vars => Inv'
  <2>1. [Next]_vars => UNCHANGED feeRate
    BY DEF Next, MsgCreatePosition, MsgIncreaseLiquidity, MsgDecreaseLiquidity,
       MsgClaimRewards, SwapExactAmountIn, SwapExactAmountOut, Incentive, Commit, vars
  <2>. QED
    BY <2>1, GoodStep DEF Inv, Rated
<1>. QED
  BY <1>1, <1>2, PTL DEF Spec

\* A pool that stays deep stays sound.
LEMMA PoolSound == Spec /\ []DeepPool => []SoundPool
<1>1. Init => SoundPool
  BY SoundInit DEF SoundPool
<1>2. Inv /\ DeepPool /\ SoundPool /\ [Next]_vars => SoundPool'
  BY GoodStep DEF Inv, DeepPool, SoundPool
<1>. QED
  BY <1>1, <1>2, PoolInvariant, PTL DEF Spec

\* The bound on the transactions.
LEMMA StepsBounded == Spec => [](steps \in 0 .. MaxSteps)
<1>1. Init => steps \in 0 .. MaxSteps
  BY PoolAssumption DEF Init
<1>2. steps \in 0 .. MaxSteps /\ [Next]_vars => (steps \in 0 .. MaxSteps)'
  <2>1. SUFFICES ASSUME steps \in 0 .. MaxSteps, [Next]_vars
                 PROVE  steps' \in 0 .. MaxSteps
    OBVIOUS
  <2>2. MaxSteps \in Nat
    BY PoolAssumption
  <2>3. CASE UNCHANGED vars
    BY <2>1, <2>3 DEF vars
  <2>4. CASE Next
    <3>1. steps < MaxSteps
      BY <2>4 DEF Next
    <3>2. steps' = steps + 1
      BY <2>4 DEF Next, MsgCreatePosition, MsgIncreaseLiquidity, MsgDecreaseLiquidity,
         MsgClaimRewards, SwapExactAmountIn, SwapExactAmountOut, Incentive, Commit
    <3>. QED
      BY <2>1, <2>2, <3>1, <3>2
  <2>. QED
    BY <2>1, <2>3, <2>4
<1>. QED
  BY <1>1, <1>2, PTL DEF Spec

\* For every tick spacing, fee rate and amount: the ticks stored are those where
\* a position begins or ends, with the sums of the liquidity that begins and
\* ends there, and the fee shares are the liquidity of the positions, after any
\* messages of x/liquiditypool.
THEOREM PoolStoresAgree == Spec => []StoresAgree
<1>1. Inv => StoresAgree
  BY GoodIsEnough DEF Inv
<1>. QED
  BY <1>1, PoolInvariant, PTL

\* The price updatePoolForSwap and initFirstPositionForPool store lies in the
\* tick they store with it, or on the upper end of a tick entered from above.
THEOREM PoolPriceInTick == Spec => []PriceInTick
<1>1. Inv => PriceInTick
  BY GoodIsEnough DEF Inv
<1>. QED
  BY <1>1, PoolInvariant, PTL

\* The liquidity updatePoolForSwap and UpdatePosition store is that of the
\* positions around the tick stored with it, however many ticks the loop of a
\* swap crossed in either direction, as long as the pool is deep: every position
\* that reaches below the price one has ten units of liquidity after fees.
THEOREM PoolActiveLiquidity == Spec /\ []DeepPool => []ActiveLiquidity
<1>1. SoundPool => ActiveLiquidity
  BY DEF SoundPool, Sound, Active, AtTick, Around, ActiveLiquidity, Live
<1>. QED
  BY <1>1, PoolSound, PTL

\* In such a pool nothing ever becomes negative: not the liquidity after a swap
\* that crosses ticks, not the balance of the pool or of its fee account after
\* withdrawals, swaps and claims, not the accumulator.
THEOREM PoolTypes == Spec /\ []DeepPool => []TypeOK
<1>1. Inv /\ SoundPool /\ steps \in 0 .. MaxSteps => TypeOK
  <2>1. SUFFICES ASSUME Good(db), Sound(db), steps \in 0 .. MaxSteps PROVE TypeOK
    BY DEF Inv, SoundPool
  <2>2. /\ DOMAIN db.positions \subseteq db.index /\ db.index = 0 .. db.count - 1
        /\ DOMAIN db.ticks \subseteq Ticks /\ Shape(db)
    BY <2>1 DEF Good, Book, Shape
  <2>3. /\ db.balance \in [Denoms -> Nat] /\ db.fees \in [Denoms -> Nat]
        /\ db.accum \in [Denoms -> Nat]
    BY <2>1 DEF Sound, Money
  <2>4. db.pool.liquidity \in Nat
    BY <2>1, <2>2, AtTickNat DEF Sound, Active
  <2>5. /\ db.pool = [tick |-> db.pool.tick, sqrtPrice |-> db.pool.sqrtPrice,
                      liquidity |-> db.pool.liquidity]
        /\ db.pool.tick \in Int /\ db.pool.sqrtPrice \in Nat
    BY <2>1 DEF Good, Priced, IsPool, PoolFields
  <2>6. db.pool \in [tick : Int, sqrtPrice : Nat, liquidity : Nat]
    BY <2>4, <2>5
  <2>. QED
    BY <2>1, <2>2, <2>3, <2>6 DEF TypeOK
<1>. QED
  BY <1>1, PoolInvariant, PoolSound, StepsBounded, PTL

\* A pool whose ticks all lie at or above the price one needs no liquidity for
\* that: whatever users deposit, withdraw and swap, the pool trades with the
\* liquidity of the positions around its tick.
THEOREM PoolAboveOne ==
    ASSUME \A t \in Ticks : TickSqrtPrice[t] >= One
    PROVE  Spec => [](ActiveLiquidity /\ TypeOK)
<1>1. Inv => DeepPool
  BY DEF Inv, Good, Book, Shape, DeepPool, Deep
<1>. QED
  BY <1>1, PoolInvariant, PoolActiveLiquidity, PoolTypes, PTL

==============================================================================
