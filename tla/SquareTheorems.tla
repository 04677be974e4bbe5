---------------------------- MODULE SquareTheorems ----------------------------
(***************************************************************************)
(* Theorems about the builder of the data square: the counters are exact,  *)
(* the estimate of the builder covers the square it exports, subtrees of   *)
(* share commitments are aligned, and builders of the same transactions    *)
(* export the same square.                                                 *)
(***************************************************************************)
EXTENDS SquareBuilder, SumTheorems

-----------------------------------------------------------------------------
(* Functions defined by recursion over 0 .. n *)

\* f obeys the recursion that starts with x and continues with the function g.
Recursive(f, n, x, g) ==
    /\ DOMAIN f = 0..n
    /\ f[0] = x
    /\ \A k \in 1..n : f[k] = g[<<f[k - 1], k>>]

\* A recursion has a solution.
LEMMA RecursionExists ==
    ASSUME NEW n \in Nat, NEW D, NEW x \in D, NEW g \in [D \X (1..n) -> D]
    PROVE  \E f \in [0..n -> D] : Recursive(f, n, x, g)
<1>. DEFINE Good == {m \in 0..n : \E f \in [0..m -> D] : Recursive(f, m, x, g)}
            Bad == (0..n) \ Good
<1>1. SUFFICES ASSUME Bad # {} PROVE FALSE
  <2>1. n \in 0..n
    OBVIOUS
  <2>. QED
    BY <1>1, <2>1
<1>2. PICK m \in Bad : \A k \in Bad : m <= k
  <2>1. Bad \subseteq Nat
    OBVIOUS
  <2>. HIDE DEF Bad
  <2>. QED
    BY <1>1, <2>1, LeastNatural
<1>3. m # 0
  <2>1. SUFFICES ASSUME m = 0 PROVE FALSE
    OBVIOUS
  <2>. DEFINE f == [k \in 0..0 |-> x]
  <2>2. f \in [0..0 -> D] /\ Recursive(f, 0, x, g)
    BY DEF Recursive
  <2>. QED
    BY <2>1, <2>2
<1>4. m - 1 \in 0..n /\ m \in 1..n
  BY <1>3
<1>5. PICK f \in [0..(m - 1) -> D] : Recursive(f, m - 1, x, g)
  <2>1. m - 1 \notin Bad
    BY <1>2, <1>4
  <2>. QED
    BY <1>4, <2>1
<1>. DEFINE h == [k \in 0..m |-> IF k = m THEN g[<<f[m - 1], m>>] ELSE f[k]]
<1>6. f[m - 1] \in D /\ g[<<f[m - 1], m>>] \in D
  BY <1>4
<1>7. h \in [0..m -> D]
  BY <1>4, <1>6
<1>8. Recursive(h, m, x, g)
  <2>1. DOMAIN h = 0..m /\ h[0] = x
    BY <1>4, <1>5 DEF Recursive
  <2>2. ASSUME NEW k \in 1..m PROVE h[k] = g[<<h[k - 1], k>>]
    <3>1. CASE k = m
      <4>1. h[k] = g[<<f[m - 1], m>>] /\ h[k - 1] = f[m - 1]
        BY <1>4, <3>1
      <4>. QED
        BY <3>1, <4>1
    <3>2. CASE k # m
      <4>1. k \in 1..(m - 1) /\ k - 1 \in 0..m /\ k - 1 # m
        BY <1>4, <3>2
      <4>2. h[k] = f[k] /\ h[k - 1] = f[k - 1]
        BY <4>1
      <4>3. f[k] = g[<<f[k - 1], k>>]
        BY <1>5, <4>1 DEF Recursive
      <4>. QED
        BY <4>2, <4>3
    <3>. QED
      BY <3>1, <3>2
  <2>. QED
    BY <2>1, <2>2 DEF Recursive
<1>. QED
  BY <1>2, <1>4, <1>7, <1>8

\* Induction over 0 .. n, with a set for the property.
LEMMA RangeInduction ==
    ASSUME NEW n \in Nat, NEW G, 0 \in G, \A k \in 1..n : k - 1 \in G => k \in G
    PROVE  \A k \in 0..n : k \in G
<1>. DEFINE Bad == (0..n) \ G
<1>1. SUFFICES ASSUME Bad # {} PROVE FALSE
  BY <1>1
<1>2. PICK m \in Bad : \A k \in Bad : m <= k
  <2>1. Bad \subseteq Nat
    OBVIOUS
  <2>. HIDE DEF Bad
  <2>. QED
    BY <1>1, <2>1, LeastNatural
<1>3. m \in 1..n /\ m - 1 \in 0..n
  BY <1>2
<1>4. m - 1 \in G
  BY <1>2, <1>3
<1>. QED
  BY <1>2, <1>3, <1>4

-----------------------------------------------------------------------------
(* Powers of two *)

\* The recursion of PowerOfTwo.
LEMMA PowerSteps ==
    /\ MaxPower \in Nat /\ PowerOfTwo[0] = 1
    /\ \A k \in 0..MaxPower : PowerOfTwo[k] \in Nat \ {0}
    /\ \A k \in 1..MaxPower : PowerOfTwo[k] = 2 * PowerOfTwo[k - 1]
<1>. DEFINE D == Nat \ {0}
            g == [t \in D \X (1..MaxPower) |-> 2 * t[1]]
            R(f) == [k \in 0..MaxPower |-> IF k = 0 THEN 1 ELSE 2 * f[k - 1]]
<1>1. MaxPower \in Nat
  BY SquareAssumption
<1>2. g \in [D \X (1..MaxPower) -> D] /\ 1 \in D
  OBVIOUS
<1>3. PICK f \in [0..MaxPower -> D] : Recursive(f, MaxPower, 1, g)
  <2>. HIDE DEF g, D
  <2>. QED
    BY <1>1, <1>2, RecursionExists
<1>4. f = R(f)
  <2>1. ASSUME NEW k \in 1..MaxPower PROVE f[k] = 2 * f[k - 1]
    <3>1. <<f[k - 1], k>> \in D \X (1..MaxPower)
      BY <1>1
    <3>2. f[k] = g[<<f[k - 1], k>>]
      BY <1>3 DEF Recursive
    <3>. QED
      BY <3>1, <3>2
  <2>2. f[0] = 1 /\ DOMAIN f = 0..MaxPower
    BY <1>3 DEF Recursive
  <2>3. ASSUME NEW k \in 0..MaxPower PROVE f[k] = R(f)[k]
    BY <1>1, <2>1, <2>2
  <2>. QED
    BY <2>2, <2>3
<1>5. PowerOfTwo = R(PowerOfTwo)
  BY <1>4 DEF PowerOfTwo
<1>. HIDE DEF PowerOfTwo
<1>6. PowerOfTwo[0] = 1 /\ \A k \in 1..MaxPower : PowerOfTwo[k] = 2 * PowerOfTwo[k - 1]
  BY <1>1, <1>5
<1>7. \A k \in 0..MaxPower : PowerOfTwo[k] \in D
  <2>. DEFINE G == {k \in 0..MaxPower : PowerOfTwo[k] \in D}
  <2>1. 0 \in G
    BY <1>1, <1>6
  <2>2. ASSUME NEW k \in 1..MaxPower, k - 1 \in G PROVE k \in G
    <3>1. PowerOfTwo[k] = 2 * PowerOfTwo[k - 1]
      BY <1>6
    <3>. QED
      BY <2>2, <3>1
  <2>3. \A k \in 0..MaxPower : k \in G
    <3>. HIDE DEF G
    <3>. QED
      BY <1>1, <2>1, <2>2, RangeInduction
  <2>. QED
    BY <2>3
<1>. QED
  BY <1>1, <1>6, <1>7

\* The powers looked at are positive.
LEMMA PowersPositive ==
    /\ Powers \subseteq Nat \ {0}
    /\ PowerOfTwo[MaxPower] \in Powers
<1>1. MaxPower \in 0..MaxPower
  BY PowerSteps
<1>. QED
  BY <1>1, PowerSteps DEF Powers

-----------------------------------------------------------------------------
(* Quotients *)

\* Quotient and remainder of a division.
LEMMA QuotRem ==
    ASSUME NEW a \in Nat, NEW d \in Nat \ {0}
    PROVE  /\ a \div d \in Nat
           /\ a % d \in 0..(d - 1)
           /\ a = d * (a \div d) + (a % d)
OBVIOUS

\* There is one quotient and one remainder.
LEMMA QuotUnique ==
    ASSUME NEW q \in Nat, NEW d \in Nat \ {0}, NEW r \in 0..(d - 1),
           NEW a \in Nat, a = d * q + r
    PROVE  a \div d = q /\ a % d = r
OBVIOUS

\* Rounding n / T up.
LEMMA QuotientBelow ==
    ASSUME NEW n \in Nat, NEW T \in Nat \ {0}
    PROVE  (n + T - 1) \div T \in Nat /\ (n + T - 1) \div T <= n
<1>1. PICK a \in Nat : a = n + T - 1
  OBVIOUS
<1>2. PICK q \in Nat, r \in 0..(T - 1) : q = a \div T /\ a = T * q + r
  BY QuotRem
<1>3. q <= n
  <2>1. SUFFICES ASSUME q >= n + 1 PROVE FALSE
    BY <1>2
  <2>2. PICK i \in Nat : q = n + 1 + i
    <3>1. q - n - 1 \in Nat /\ q = n + 1 + (q - n - 1)
      BY <2>1
    <3>. QED
      BY <3>1
  <2>3. T * q = T * n + T + T * i /\ T * i \in Nat /\ T * n \in Nat
    BY <2>2
  <2>4. T * n >= n
    OBVIOUS
  <2>. QED
    BY <1>1, <1>2, <2>3, <2>4
<1>. QED
  BY <1>1, <1>2, <1>3

\* The quotient grows with the dividend.
LEMMA QuotMonotone ==
    ASSUME NEW a \in Nat, NEW b \in Nat, NEW d \in Nat \ {0}, a <= b
    PROVE  a \div d <= b \div d
OBVIOUS

-----------------------------------------------------------------------------
(* Shares *)

\* A number of shares is a number.
LEMMA SharesNat ==
    ASSUME NEW len \in Nat, NEW first \in Nat \ {0}, NEW cont \in Nat \ {0}
    PROVE  SharesNeeded(len, first, cont) \in Nat
<1>1. CASE len <= first
  BY <1>1 DEF SharesNeeded
<1>2. CASE len > first
  <2>1. len - first + cont - 1 \in Nat
    BY <1>2
  <2>2. (len - first + cont - 1) \div cont \in Nat
    BY <2>1, QuotRem
  <2>. QED
    BY <1>2, <2>2 DEF SharesNeeded
<1>. QED
  BY <1>1, <1>2

\* More bytes take no fewer shares.
LEMMA SharesMonotone ==
    ASSUME NEW len \in Nat, NEW more \in Nat, len <= more,
           NEW first \in Nat \ {0}, NEW cont \in Nat \ {0}
    PROVE  SharesNeeded(len, first, cont) <= SharesNeeded(more, first, cont)
<1>. DEFINE Rest(n) == (n - first + cont - 1) \div cont
<1>1. ASSUME NEW n \in Nat, n > first PROVE n - first + cont - 1 \in Nat /\ Rest(n) \in Nat
  <2>1. n - first + cont - 1 \in Nat
    BY <1>1
  <2>. QED
    BY <2>1, QuotRem
<1>2. CASE more <= first
  BY <1>2 DEF SharesNeeded
<1>3. CASE more > first /\ len <= first
  <2>1. SharesNeeded(more, first, cont) = 1 + Rest(more)
    BY <1>3 DEF SharesNeeded
  <2>2. SharesNeeded(len, first, cont) \in {0, 1}
    BY <1>3 DEF SharesNeeded
  <2>3. Rest(more) \in Nat
    BY <1>1, <1>3
  <2>. HIDE DEF Rest
  <2>. QED
    BY <2>1, <2>2, <2>3
<1>4. CASE len > first
  <2>1. more > first
    BY <1>4
  <2>2. Rest(len) <= Rest(more)
    <3>1. len - first + cont - 1 <= more - first + cont - 1
      OBVIOUS
    <3>. QED
      BY <1>1, <1>4, <2>1, <3>1, QuotMonotone
  <2>3. /\ SharesNeeded(more, first, cont) = 1 + Rest(more)
        /\ SharesNeeded(len, first, cont) = 1 + Rest(len)
    BY <1>4, <2>1 DEF SharesNeeded
  <2>4. Rest(len) \in Nat /\ Rest(more) \in Nat
    BY <1>1, <1>4, <2>1
  <2>. HIDE DEF Rest
  <2>. QED
    BY <2>2, <2>3, <2>4
<1>. QED
  BY <1>2, <1>3, <1>4

-----------------------------------------------------------------------------
(* The compact share counter *)

\* Share capacities, by short names.
F == FirstCompactShareContentSize
C == ContinuationCompactShareContentSize

\* Both kinds of compact shares take bytes, the first one fewer.
LEMMA Capacities == F \in Nat \ {0} /\ C \in Nat \ {0} /\ F < C
BY SquareAssumption DEF F, C

\* The counter that has counted n bytes.
CounterAt(n) ==
    IF n < F THEN [shares |-> 0, remainder |-> n]
    ELSE [shares |-> 1 + (n - F) \div C, remainder |-> (n - F) % C]

\* CounterAt is a counter.
LEMMA CounterAtType ==
    ASSUME NEW n \in Nat
    PROVE  CounterAt(n) \in [shares : Nat, remainder : 0..(C - 1)]
<1>1. CASE n < F
  BY <1>1, Capacities DEF CounterAt
<1>2. CASE ~(n < F)
  <2>1. n - F \in Nat
    BY <1>2, Capacities
  <2>2. (n - F) \div C \in Nat /\ (n - F) % C \in 0..(C - 1)
    BY <2>1, QuotRem, Capacities
  <2>. QED
    BY <1>2, <2>2 DEF CounterAt
<1>. QED
  BY <1>1, <1>2

\* The counter of NewCompactShareCounter has seen no byte.
LEMMA EmptyCounterAt == CounterAt(0) = EmptyCounter
BY Capacities DEF CounterAt, EmptyCounter

\* A function on nothing is the empty sequence.
LEMMA EmptyFunction == ASSUME NEW f, f = [k \in 1..0 |-> f[k]] PROVE f = <<>>
OBVIOUS

\* When nothing is left of a unit, no share is added.
LEMMA FillRestDone ==
    ASSUME NEW shares \in Nat, NEW remainder \in Nat
    PROVE  FillRest([shares |-> shares, remainder |-> remainder, left |-> 0])
             = [shares |-> shares, remainder |-> remainder]
<1>1. 0 \div C = 0 /\ 0 % C = 0
  <2>1. 0 \in Nat /\ 0 \in 0..(C - 1) /\ 0 = C * 0 + 0
    BY Capacities
  <2>. QED
    BY <2>1, QuotUnique, Capacities
<1>. QED
  BY <1>1 DEF FillRest, C

\* What is left after the first shares of a unit goes into whole shares.
LEMMA FillRestLeft ==
    ASSUME NEW shares \in Nat, NEW left \in Nat
    PROVE  FillRest([shares |-> shares, remainder |-> 0, left |-> left])
             = [shares |-> shares + left \div C, remainder |-> left % C]
<1>1. CASE left = 0
  <2>1. left % C = 0
    <3>1. 0 \in Nat /\ 0 \in 0..(C - 1) /\ 0 = C * 0 + 0
      BY Capacities
    <3>. QED
      BY <1>1, <3>1, QuotUnique, Capacities
  <2>. QED
    BY <1>1, <2>1 DEF FillRest, C
<1>2. CASE left > 0
  BY <1>2 DEF FillRest, C
<1>. QED
  BY <1>1, <1>2

\* Counting a unit after n bytes is counting all of them together.
LEMMA CountAt ==
    ASSUME NEW n \in Nat, NEW m \in Nat
    PROVE  Count(CounterAt(n), m) = CounterAt(n + m)
<1>. DEFINE c == CounterAt(n)
            c0 == [shares |-> c.shares, remainder |-> c.remainder, left |-> m]
            c1 == FillFirst(c0)
            c2 == Fill(c1, C)
<1>0. F \in Nat \ {0} /\ C \in Nat \ {0} /\ F < C
  BY Capacities
<1>1. Count(c, m) = FillRest(c2)
  BY DEF Count, C
<1>2. CASE n + m < F
  <2>1. c = [shares |-> 0, remainder |-> n]
    BY <1>0, <1>2 DEF CounterAt
  <2>. HIDE DEF c
  <2>2. c1 = [shares |-> 0, remainder |-> n + m, left |-> 0]
    BY <1>0, <1>2, <2>1 DEF FillFirst, Fill, F
  <2>. HIDE DEF c1
  <2>3. c2 = [shares |-> 0, remainder |-> n + m, left |-> 0]
    BY <1>0, <1>2, <2>2 DEF Fill
  <2>. HIDE DEF c2
  <2>4. FillRest(c2) = [shares |-> 0, remainder |-> n + m]
    <3>1. n + m \in Nat /\ 0 \in Nat
      OBVIOUS
    <3>. QED
      BY <2>3, <3>1, FillRestDone, Zenon
  <2>5. CounterAt(n + m) = [shares |-> 0, remainder |-> n + m]
    BY <1>2 DEF CounterAt
  <2>. QED
    BY <1>1, <2>4, <2>5 DEF c
<1>3. CASE n < F /\ n + m >= F
  <2>1. PICK l \in Nat : l = n + m - F
    BY <1>0, <1>3
  <2>2. c = [shares |-> 0, remainder |-> n]
    BY <1>0, <1>3 DEF CounterAt
  <2>. HIDE DEF c
  <2>3. c1 = [shares |-> 1, remainder |-> 0, left |-> l]
    BY <1>0, <1>3, <2>1, <2>2 DEF FillFirst, Fill, F
  <2>. HIDE DEF c1
  <2>4. CounterAt(n + m) = [shares |-> 1 + l \div C, remainder |-> l % C]
    BY <1>0, <1>3, <2>1 DEF CounterAt
  <2>5. CASE l < C
    <3>1. c2 = [shares |-> 1, remainder |-> l, left |-> 0]
      BY <1>0, <2>3, <2>5 DEF Fill
    <3>. HIDE DEF c2
    <3>2. FillRest(c2) = [shares |-> 1, remainder |-> l]
      <4>1. 1 \in Nat /\ 0 \in Nat
        OBVIOUS
      <4>. QED
        BY <3>1, <4>1, FillRestDone, Zenon
    <3>3. l \div C = 0 /\ l % C = l
      <4>1. l \in 0..(C - 1) /\ l = C * 0 + l
        BY <1>0, <2>5
      <4>. QED
        BY <1>0, <4>1, QuotUnique
    <3>. QED
      BY <1>1, <2>4, <3>2, <3>3 DEF c
  <2>6. CASE l >= C
    <3>1. PICK k \in Nat : l = C * 1 + k
      <4>1. l - C \in Nat /\ l = C * 1 + (l - C)
        BY <1>0, <2>6
      <4>. QED
        BY <4>1
    <3>2. c2 = [shares |-> 2, remainder |-> 0, left |-> k]
      BY <1>0, <2>3, <2>6, <3>1 DEF Fill
    <3>. HIDE DEF c2
    <3>3. FillRest(c2) = [shares |-> 2 + k \div C, remainder |-> k % C]
      <4>1. 2 \in Nat /\ 0 \in Nat
        OBVIOUS
      <4>. QED
        BY <3>2, <4>1, FillRestLeft, Zenon
    <3>4. PICK q \in Nat, r \in 0..(C - 1) : q = k \div C /\ r = k % C /\ k = C * q + r
      BY <1>0, QuotRem
    <3>5. PICK t \in Nat : t = 1 + q
      OBVIOUS
    <3>6. l = C * t + r
      BY <1>0, <3>1, <3>4, <3>5
    <3>7. l \div C = t /\ l % C = r
      BY <1>0, <3>6, QuotUnique
    <3>8. 1 + t = 2 + q
      BY <3>5
    <3>. QED
      BY <1>1, <2>4, <3>3, <3>4, <3>7, <3>8 DEF c
  <2>. QED
    BY <1>0, <2>5, <2>6
<1>4. CASE n >= F
  <2>1. PICK a \in Nat : a = n - F
    BY <1>0, <1>4
  <2>2. PICK q \in Nat, r \in 0..(C - 1) : q = a \div C /\ r = a % C /\ a = C * q + r
    BY <1>0, QuotRem
  <2>3. c = [shares |-> 1 + q, remainder |-> r]
    BY <1>0, <1>4, <2>1, <2>2 DEF CounterAt
  <2>. HIDE DEF c
  <2>4. c1 = [shares |-> 1 + q, remainder |-> r, left |-> m]
    BY <2>3 DEF FillFirst
  <2>. HIDE DEF c1
  <2>5. PICK b \in Nat : b = a + m /\ n + m - F = b
    BY <1>0, <2>1
  <2>6. CounterAt(n + m) = [shares |-> 1 + b \div C, remainder |-> b % C]
    BY <1>0, <1>4, <2>5 DEF CounterAt
  <2>7. CASE r + m < C
    <3>1. c2 = [shares |-> 1 + q, remainder |-> r + m, left |-> 0]
      BY <1>0, <2>4, <2>7 DEF Fill
    <3>. HIDE DEF c2
    <3>2. FillRest(c2) = [shares |-> 1 + q, remainder |-> r + m]
      <4>1. 1 + q \in Nat /\ r + m \in Nat /\ 0 \in Nat
        BY <1>0
      <4>. QED
        BY <3>1, <4>1, FillRestDone, Zenon
    <3>3. PICK t \in 0..(C - 1) : t = r + m
      BY <1>0, <2>7
    <3>4. b = C * q + t
      BY <1>0, <2>2, <2>5, <3>3
    <3>5. b \div C = q /\ b % C = t
      BY <1>0, <3>4, QuotUnique
    <3>. QED
      BY <1>1, <2>6, <3>2, <3>3, <3>5 DEF c
  <2>8. CASE r + m >= C
    <3>1. PICK k \in Nat : k = r + m - C
      BY <1>0, <2>8
    <3>2. c2 = [shares |-> 2 + q, remainder |-> 0, left |-> k]
      BY <1>0, <2>4, <2>8, <3>1 DEF Fill
    <3>. HIDE DEF c2
    <3>3. PICK p \in Nat : p = q + 1
      OBVIOUS
    <3>4. b = C * p + k
      <4>1. C * p = C * q + C
        BY <1>0, <3>3
      <4>2. C * q \in Nat
        BY <1>0
      <4>. QED
        BY <1>0, <2>2, <2>5, <3>1, <4>1, <4>2
    <3>5. PICK i \in Nat, j \in 0..(C - 1) : i = k \div C /\ j = k % C /\ k = C * i + j
      BY <1>0, QuotRem
    <3>6. FillRest(c2) = [shares |-> 2 + q + k \div C, remainder |-> k % C]
      <4>1. PICK u \in Nat : u = 2 + q
        OBVIOUS
      <4>2. c2 = [shares |-> u, remainder |-> 0, left |-> k]
        BY <3>2, <4>1
      <4>3. FillRest(c2) = [shares |-> u + k \div C, remainder |-> k % C]
        BY <4>2, FillRestLeft, Zenon
      <4>. QED
        BY <4>1, <4>3
    <3>7. PICK t \in Nat : t = p + i
      OBVIOUS
    <3>8. b = C * t + j
      <4>1. C * t = C * p + C * i /\ C * p \in Nat /\ C * i \in Nat
        BY <1>0, <3>7
      <4>. QED
        BY <1>0, <3>4, <3>5, <4>1
    <3>9. b \div C = t /\ b % C = j
      BY <1>0, <3>8, QuotUnique
    <3>10. 1 + t = 2 + q + i
      BY <3>3, <3>7
    <3>. QED
      BY <1>1, <2>6, <3>5, <3>6, <3>9, <3>10 DEF c
  <2>. QED
    BY <1>0, <2>7, <2>8
<1>. QED
  BY <1>0, <1>2, <1>3, <1>4

\* The size of a counter is the number of shares its bytes need.
LEMMA CounterSizeAt ==
    ASSUME NEW n \in Nat
    PROVE  /\ CounterSize(CounterAt(n)) = CompactSharesNeeded(n)
           /\ CompactSharesNeeded(n) \in Nat
<1>0. F \in Nat \ {0} /\ C \in Nat \ {0} /\ F < C
  BY Capacities
<1>1. CompactSharesNeeded(n) = SharesNeeded(n, F, C)
  BY DEF CompactSharesNeeded, F, C
<1>2. CompactSharesNeeded(n) \in Nat
  BY <1>0, <1>1, SharesNat
<1>3. CASE n < F
  BY <1>0, <1>1, <1>3 DEF CounterAt, CounterSize, SharesNeeded
<1>4. CASE n >= F
  <2>1. PICK a \in Nat : a = n - F
    BY <1>0, <1>4
  <2>2. PICK q \in Nat, r \in 0..(C - 1) : q = a \div C /\ r = a % C /\ a = C * q + r
    BY <1>0, QuotRem
  <2>3. CounterSize(CounterAt(n)) = 1 + q + (IF r = 0 THEN 0 ELSE 1)
    BY <1>0, <1>4, <2>1, <2>2 DEF CounterAt, CounterSize
  <2>4. SharesNeeded(n, F, C) = 1 + q + (IF r = 0 THEN 0 ELSE 1)
    <3>1. CASE a = 0
      <4>1. q = 0 /\ r = 0
        <5>1. 0 \in 0..(C - 1) /\ a = C * 0 + 0
          BY <1>0, <3>1
        <5>2. a \div C = 0 /\ a % C = 0
          BY <1>0, <5>1, QuotUnique
        <5>. QED
          BY <2>2, <5>2
      <4>2. n = F
        BY <1>0, <2>1, <3>1
      <4>. QED
        BY <1>0, <4>1, <4>2 DEF SharesNeeded
    <3>2. CASE a > 0
      <4>1. SharesNeeded(n, F, C) = 1 + (a + C - 1) \div C
        BY <1>0, <2>1, <3>2 DEF SharesNeeded
      <4>2. PICK p \in Nat : p = q + (IF r = 0 THEN 0 ELSE 1)
        OBVIOUS
      <4>3. PICK t \in 0..(C - 1) : t = IF r = 0 THEN C - 1 ELSE r - 1
        BY <1>0
      <4>4. a + C - 1 = C * p + t
        <5>1. CASE r = 0
          BY <1>0, <2>2, <4>2, <4>3, <5>1
        <5>2. CASE r # 0
          <6>1. p = q + 1 /\ t = r - 1
            BY <4>2, <4>3, <5>2
          <6>2. C * p = C * q + C /\ C * q \in Nat
            BY <1>0, <6>1
          <6>. QED
            BY <1>0, <2>2, <6>1, <6>2
        <5>. QED
          BY <5>1, <5>2
      <4>5. (a + C - 1) \div C = p
        BY <1>0, <4>4, QuotUnique
      <4>. QED
        BY <4>1, <4>2, <4>5
    <3>. QED
      BY <3>1, <3>2
  <2>. QED
    BY <1>1, <1>2, <2>3, <2>4
<1>. QED
  BY <1>0, <1>2, <1>3, <1>4

\* More bytes take no fewer compact shares.
LEMMA CompactMonotone ==
    ASSUME NEW n \in Nat, NEW m \in Nat, n <= m
    PROVE  CompactSharesNeeded(n) <= CompactSharesNeeded(m)
BY SharesMonotone, Capacities DEF CompactSharesNeeded, F, C

-----------------------------------------------------------------------------
(* Sums over sequences *)

\* f is a sequence of n numbers.
Numbers(f, n) == n \in Nat /\ DOMAIN f = 1..n /\ \A i \in 1..n : f[i] \in Nat

\* The positions of a sequence are finitely many.
LEMMA RangeFinite == \A n \in Nat : IsFiniteSet(1..n) /\ Cardinality(1..n) = n
<1>. SUFFICES ASSUME NEW n \in Nat PROVE IsFiniteSet(1..n) /\ Cardinality(1..n) = n
  OBVIOUS
<1>1. IsFiniteSet(1..n) /\ Cardinality(1..n) = IF 1 > n THEN 0 ELSE n - 1 + 1
  BY FS_Interval
<1>. QED
  BY <1>1

\* The sum of numbers is a number.
LEMMA SumSeqNat ==
    ASSUME NEW f, NEW n, Numbers(f, n)
    PROVE  SumSeq(f) \in Nat /\ SumSeq(f) = SumFunctionOnSet(f, 1..n)
<1>1. n \in Nat /\ IsFiniteSet(1..n) /\ DOMAIN f = 1..n
  BY RangeFinite DEF Numbers
<1>2. SumSeq(f) = SumFunctionOnSet(f, 1..n)
  BY <1>1 DEF SumSeq, SumFunction
<1>3. SumFunctionOnSet(f, 1..n) \in Nat
  BY <1>1, SumNat DEF Numbers
<1>. QED
  BY <1>2, <1>3

\* The sum of no numbers is zero.
LEMMA SumSeqEmpty ==
    ASSUME NEW f, Numbers(f, 0)
    PROVE  SumSeq(f) = 0
<1>1. 1..0 = {}
  OBVIOUS
<1>. QED
  BY <1>1, SumSeqNat, SumEmpty

\* Sums of larger numbers are larger.
LEMMA SumSeqMonotone ==
    ASSUME NEW f, NEW g, NEW n, Numbers(f, n), Numbers(g, n), \A i \in 1..n : f[i] <= g[i]
    PROVE  SumSeq(f) <= SumSeq(g)
<1>1. IsFiniteSet(1..n)
  BY RangeFinite DEF Numbers
<1>2. \A i \in 1..n : f[i] \in Int /\ g[i] \in Int /\ f[i] <= g[i]
  BY DEF Numbers
<1>3. SumFunctionOnSet(f, 1..n) <= SumFunctionOnSet(g, 1..n)
  BY <1>1, <1>2, SumMonotone
<1>. QED
  BY <1>3, SumSeqNat

\* The sum over one sequence after the other.
LEMMA SumSeqConcat ==
    ASSUME NEW f, NEW g, NEW h, NEW n, NEW m, Numbers(g, n), Numbers(h, m),
           Numbers(f, n + m),
           \A i \in 1..n : f[i] = g[i],
           \A i \in 1..m : f[n + i] = h[i]
    PROVE  SumSeq(f) = SumSeq(g) + SumSeq(h)
<1>. DEFINE Sum(q, k) == SumFunctionOnSet(q, 1..k)
            G == {k \in 0..m : Sum(f, n + k) = Sum(g, n) + Sum(h, k)}
<1>1. n \in Nat /\ m \in Nat /\ n + m \in Nat
  BY DEF Numbers
<1>2. 0 \in G
  <2>1. Sum(f, n) = Sum(g, n)
    <3>1. \A i \in 1..n : g[i] \in Int
      BY DEF Numbers
    <3>. QED
      BY <1>1, <3>1, RangeFinite, SumEqual
  <2>2. Sum(h, 0) = 0
    <3>1. 1..0 = {}
      OBVIOUS
    <3>. QED
      BY <3>1, SumEmpty
  <2>3. Sum(g, n) \in Nat
    BY SumSeqNat
  <2>4. n + 0 = n /\ 0 \in 0..m
    BY <1>1
  <2>. HIDE DEF Sum
  <2>. QED
    BY <2>1, <2>2, <2>3, <2>4
<1>3. ASSUME NEW k \in 1..m, k - 1 \in G PROVE k \in G
  <2>1. /\ 1..(n + k) = 1..(n + (k - 1)) \cup {n + k}
        /\ n + k \notin 1..(n + (k - 1))
        /\ n + (k - 1) \in Nat
    BY <1>1
  <2>2. /\ 1..k = 1..(k - 1) \cup {k} /\ k \notin 1..(k - 1) /\ k - 1 \in Nat
    BY <1>1
  <2>3. Sum(f, n + k) = f[n + k] + Sum(f, n + (k - 1))
    <3>1. \A i \in 1..(n + (k - 1)) \cup {n + k} : f[i] \in Int
      BY <1>1 DEF Numbers
    <3>2. IsFiniteSet(1..(n + (k - 1)))
      BY <2>1, RangeFinite
    <3>. QED
      BY <2>1, <3>1, <3>2, SumAdd, Zenon
  <2>4. Sum(h, k) = h[k] + Sum(h, k - 1)
    <3>1. \A i \in 1..(k - 1) \cup {k} : h[i] \in Int
      BY <1>1 DEF Numbers
    <3>2. IsFiniteSet(1..(k - 1))
      BY <2>2, RangeFinite
    <3>. QED
      BY <2>2, <3>1, <3>2, SumAdd, Zenon
  <2>5. f[n + k] = h[k] /\ h[k] \in Nat
    BY DEF Numbers
  <2>6. Sum(f, n + (k - 1)) = Sum(g, n) + Sum(h, k - 1)
    BY <1>3
  <2>7. Sum(g, n) \in Int /\ Sum(h, k - 1) \in Int
    <3>1. Sum(g, n) \in Nat
      BY SumSeqNat
    <3>2. IsFiniteSet(1..(k - 1)) /\ \A i \in 1..(k - 1) : h[i] \in Nat
      BY <1>1, <2>2, RangeFinite DEF Numbers
    <3>3. Sum(h, k - 1) \in Nat
      BY <3>2, SumNat
    <3>. QED
      BY <3>1, <3>3
  <2>8. Sum(f, n + k) = Sum(g, n) + Sum(h, k)
    <3>. HIDE DEF Sum
    <3>. QED
      BY <2>3, <2>4, <2>5, <2>6, <2>7
  <2>. QED
    BY <1>1, <2>8
<1>4. m \in G
  <2>1. \A k \in 0..m : k \in G
    <3>. HIDE DEF G
    <3>. QED
      BY <1>1, <1>2, <1>3, RangeInduction
  <2>. QED
    BY <1>1, <2>1
<1>5. Sum(f, n + m) = Sum(g, n) + Sum(h, m)
  BY <1>4
<1>6. /\ SumSeq(f) = Sum(f, n + m)
      /\ SumSeq(g) = Sum(g, n)
      /\ SumSeq(h) = Sum(h, m)
  BY SumSeqNat
<1>. HIDE DEF Sum
<1>. QED
  BY <1>5, <1>6

\* One more number.
LEMMA SumSeqAppend ==
    ASSUME NEW f, NEW g, NEW n, Numbers(g, n), Numbers(f, n + 1),
           \A i \in 1..n : f[i] = g[i]
    PROVE  SumSeq(f) = SumSeq(g) + f[n + 1]
<1>. DEFINE h == [i \in 1..1 |-> f[n + 1]]
<1>1. n \in Nat /\ f[n + 1] \in Nat
  BY DEF Numbers
<1>2. Numbers(h, 1) /\ \A i \in 1..1 : f[n + i] = h[i]
  BY <1>1 DEF Numbers
<1>3. SumSeq(f) = SumSeq(g) + SumSeq(h)
  <2>. HIDE DEF h
  <2>. QED
    BY <1>2, SumSeqConcat
<1>4. SumSeq(h) = f[n + 1]
  <2>1. SumSeq(h) = SumFunctionOnSet(h, 1..1) /\ 1..1 = {1} /\ h[1] = f[n + 1]
    <3>1. 1..1 = {1} /\ h[1] = f[n + 1]
      OBVIOUS
    <3>2. SumSeq(h) = SumFunctionOnSet(h, 1..1)
      <4>. HIDE DEF h
      <4>. QED
        BY <1>2, SumSeqNat, Zenon
    <3>. QED
      BY <3>1, <3>2
  <2>2. h[1] \in Int
    BY <1>1, <2>1
  <2>3. SumFunctionOnSet(h, {1}) = h[1]
    <3>. HIDE DEF h
    <3>. QED
      BY <2>2, SumSingleton
  <2>. QED
    BY <2>1, <2>3
<1>. QED
  BY <1>3, <1>4

\* key is a bijection under which f and g have the same terms.
Renamed(S, f, V, g, key) ==
    /\ IsFiniteSet(S) /\ IsFiniteSet(V)
    /\ \A x \in S : key[x] \in V /\ f[x] \in Int /\ g[key[x]] = f[x]
    /\ \A x, y \in S : key[x] = key[y] => x = y
    /\ \A v \in V : \E x \in S : key[x] = v

\* The order of the terms does not matter.
LEMMA SumRenamed ==
    ASSUME NEW S, NEW f, NEW V, NEW g, NEW key, Renamed(S, f, V, g, key)
    PROVE  SumFunctionOnSet(f, S) = SumFunctionOnSet(g, V)
<1>1. ASSUME NEW v \in V
      PROVE  g[v] = SumFunctionOnSet(f, {y \in S : key[y] = v})
  <2>1. PICK x \in S : key[x] = v
    BY DEF Renamed
  <2>2. {y \in S : key[y] = v} = {x}
    BY <2>1 DEF Renamed
  <2>3. f[x] \in Int /\ g[v] = f[x]
    BY <2>1 DEF Renamed
  <2>4. SumFunctionOnSet(f, {x}) = f[x]
    BY <2>3, SumSingleton
  <2>. QED
    BY <2>2, <2>3, <2>4
<1>2. Grouped(S, f, V, key, g)
  BY <1>1 DEF Grouped, Renamed
<1>. QED
  BY <1>2, SumByKey

-----------------------------------------------------------------------------
(* Lengths *)

\* A varint has at least one byte.
LEMMA DelimLenNat ==
    ASSUME NEW n \in Nat
    PROVE  DelimLen(n) \in Nat \ {0}
<1>1. IsFiniteSet(1..3)
  <2>1. 3 \in Nat
    OBVIOUS
  <2>. QED
    BY <2>1, RangeFinite, Zenon
<1>2. {k \in 1..3 : n >= VarintBase^k} \in SUBSET (1..3)
  OBVIOUS
<1>3. Cardinality({k \in 1..3 : n >= VarintBase^k}) \in Nat
  BY <1>1, <1>2, FS_Subset, FS_CardinalityType
<1>. QED
  BY <1>3 DEF DelimLen

\* Larger values have no shorter varints.
LEMMA DelimLenMonotone ==
    ASSUME NEW n \in Nat, NEW m \in Nat, n <= m
    PROVE  DelimLen(n) <= DelimLen(m)
<1>. DEFINE K(x) == {k \in 1..3 : x >= VarintBase^k}
<1>1. IsFiniteSet(1..3)
  <2>1. 3 \in Nat
    OBVIOUS
  <2>. QED
    BY <2>1, RangeFinite, Zenon
<1>2. \A k \in 1..3 : VarintBase^k \in Int
  BY SquareAssumption
<1>3. K(n) \in SUBSET K(m)
  <2>1. ASSUME NEW k \in 1..3, n >= VarintBase^k PROVE m >= VarintBase^k
    <3>1. PICK v \in Int : v = VarintBase^k
      BY <1>2
    <3>. QED
      BY <2>1, <3>1
  <2>. QED
    BY <2>1
<1>4. K(m) \in SUBSET (1..3)
  OBVIOUS
<1>5. IsFiniteSet(K(m))
  BY <1>1, <1>4, FS_Subset
<1>6. IsFiniteSet(K(n)) /\ Cardinality(K(n)) <= Cardinality(K(m))
  <2>. HIDE DEF K
  <2>. QED
    BY <1>3, <1>5, FS_Subset
<1>7. Cardinality(K(n)) \in Nat /\ Cardinality(K(m)) \in Nat
  <2>. HIDE DEF K
  <2>. QED
    BY <1>5, <1>6, FS_CardinalityType
<1>8. DelimLen(n) = 1 + Cardinality(K(n)) /\ DelimLen(m) = 1 + Cardinality(K(m))
  BY DEF DelimLen
<1>. HIDE DEF K
<1>. QED
  BY <1>6, <1>7, <1>8

\* A delimited unit is never empty.
LEMMA DelimitedNat ==
    ASSUME NEW n \in Nat
    PROVE  Delimited(n) \in Nat \ {0}
BY DelimLenNat DEF Delimited

\* Longer units are longer with their delimiters.
LEMMA DelimitedMonotone ==
    ASSUME NEW n \in Nat, NEW m \in Nat, n <= m
    PROVE  Delimited(n) <= Delimited(m)
<1>1. DelimLen(n) \in Nat /\ DelimLen(m) \in Nat /\ DelimLen(n) <= DelimLen(m)
  BY DelimLenNat, DelimLenMonotone
<1>. QED
  BY <1>1 DEF Delimited

\* A wrapper does not shrink when its share indexes grow.
LEMMA WrapperGrows ==
    ASSUME NEW len \in Nat, NEW n, NEW a, NEW b, Numbers(a, n), Numbers(b, n),
           \A i \in 1..n : a[i] <= b[i]
    PROVE  /\ WrapperSize(len, a) \in Nat
           /\ WrapperSize(len, b) \in Nat
           /\ WrapperSize(len, a) <= WrapperSize(len, b)
<1>. DEFINE L(x) == [i \in DOMAIN x |-> DelimLen(x[i])]
<1>1. Numbers(L(a), n) /\ Numbers(L(b), n)
  BY DelimLenNat DEF Numbers
<1>2. \A i \in 1..n : L(a)[i] <= L(b)[i]
  BY DelimLenMonotone DEF Numbers
<1>3. SumSeq(L(a)) \in Nat /\ SumSeq(L(b)) \in Nat /\ SumSeq(L(a)) <= SumSeq(L(b))
  <2>. HIDE DEF L
  <2>. QED
    BY <1>1, <1>2, SumSeqNat, SumSeqMonotone
<1>4. /\ Delimited(SumSeq(L(a))) \in Nat /\ Delimited(SumSeq(L(b))) \in Nat
      /\ Delimited(SumSeq(L(a))) <= Delimited(SumSeq(L(b)))
  <2>. HIDE DEF L
  <2>. QED
    BY <1>3, DelimitedNat, DelimitedMonotone
<1>5. /\ WrapperSize(len, a) = WrapperOverhead + Delimited(len) + Delimited(SumSeq(L(a)))
      /\ WrapperSize(len, b) = WrapperOverhead + Delimited(len) + Delimited(SumSeq(L(b)))
  BY DEF WrapperSize
<1>6. Delimited(len) \in Nat /\ WrapperOverhead \in Nat
  BY DelimitedNat, SquareAssumption
<1>. HIDE DEF L
<1>. QED
  BY <1>4, <1>5, <1>6

-----------------------------------------------------------------------------
(* The stable sort *)

\* s is a sequence of n elements with a namespace.
Spaced(s, n) == n \in Nat /\ DOMAIN s = 1..n /\ \A i \in 1..n : s[i].ns \in Nat

Rank(s, i) == Cardinality(Before(s, i))

\* Only finitely many blobs come before a blob.
LEMMA BeforeFinite ==
    ASSUME NEW s, NEW n, Spaced(s, n), NEW i \in 1..n
    PROVE  /\ Before(s, i) \subseteq (1..n) \ {i}
           /\ IsFiniteSet(Before(s, i))
           /\ Rank(s, i) \in 0..(n - 1)
<1>1. n \in Nat /\ IsFiniteSet(1..n) /\ Cardinality(1..n) = n
  BY RangeFinite DEF Spaced
<1>2. Before(s, i) \subseteq (1..n) \ {i}
  BY DEF Before, Spaced
<1>3. IsFiniteSet((1..n) \ {i}) /\ Cardinality((1..n) \ {i}) = n - 1
  BY <1>1, FS_RemoveElement
<1>4. IsFiniteSet(Before(s, i)) /\ Cardinality(Before(s, i)) <= n - 1
  BY <1>2, <1>3, FS_Subset
<1>5. Cardinality(Before(s, i)) \in Nat
  BY <1>4, FS_CardinalityType
<1>. QED
  BY <1>1, <1>2, <1>4, <1>5 DEF Rank

\* What comes before another element has a smaller rank.
LEMMA RankGrows ==
    ASSUME NEW s, NEW n, Spaced(s, n), NEW i \in 1..n, NEW j \in 1..n, j \in Before(s, i)
    PROVE  Rank(s, j) < Rank(s, i)
<1>1. Before(s, j) \cup {j} \subseteq Before(s, i)
  BY DEF Before, Spaced
<1>2. j \notin Before(s, j) /\ IsFiniteSet(Before(s, j)) /\ IsFiniteSet(Before(s, i))
  BY BeforeFinite
<1>3. Cardinality(Before(s, j) \cup {j}) = Cardinality(Before(s, j)) + 1
  BY <1>2, FS_AddElement
<1>4. Cardinality(Before(s, j) \cup {j}) <= Cardinality(Before(s, i))
  BY <1>1, <1>2, FS_Subset
<1>5. Cardinality(Before(s, j)) \in Nat /\ Cardinality(Before(s, i)) \in Nat
  BY <1>2, FS_CardinalityType
<1>. QED
  BY <1>3, <1>4, <1>5 DEF Rank

\* Of two blobs one comes before the other.
LEMMA BeforeTotal ==
    ASSUME NEW s, NEW n, Spaced(s, n), NEW i \in 1..n, NEW j \in 1..n, i # j
    PROVE  i \in Before(s, j) \/ j \in Before(s, i)
BY DEF Before, Spaced

\* Every rank occurs once.
LEMMA RankBijective ==
    ASSUME NEW s, NEW n, Spaced(s, n)
    PROVE  /\ \A i, j \in 1..n : Rank(s, i) = Rank(s, j) => i = j
           /\ \A k \in 1..n : \E i \in 1..n : Rank(s, i) = k - 1
<1>. DEFINE r == [i \in 1..n |-> Rank(s, i) + 1]
<1>1. n \in Nat /\ IsFiniteSet(1..n)
  BY RangeFinite DEF Spaced
<1>2. \A i \in 1..n : Rank(s, i) \in 0..(n - 1)
  BY BeforeFinite
<1>3. ASSUME NEW i \in 1..n, NEW j \in 1..n, Rank(s, i) = Rank(s, j) PROVE i = j
  <2>1. SUFFICES ASSUME i # j PROVE FALSE
    OBVIOUS
  <2>2. Rank(s, i) < Rank(s, j) \/ Rank(s, j) < Rank(s, i)
    BY <2>1, BeforeTotal, RankGrows
  <2>. QED
    BY <1>2, <1>3, <2>2
<1>4. r \in Injection(1..n, 1..n)
  <2>1. r \in [1..n -> 1..n]
    BY <1>1, <1>2
  <2>2. ASSUME NEW i \in 1..n, NEW j \in 1..n, r[i] = r[j] PROVE i = j
    <3>1. Rank(s, i) = Rank(s, j)
      BY <1>2, <2>2
    <3>. QED
      BY <1>3, <3>1
  <2>. HIDE DEF r
  <2>. QED
    BY <2>1, <2>2 DEF Injection, IsInjective
<1>5. r \in Surjection(1..n, 1..n)
  <2>. HIDE DEF r
  <2>. QED
    BY <1>1, <1>4, FS_Injection
<1>6. ASSUME NEW k \in 1..n PROVE \E i \in 1..n : Rank(s, i) = k - 1
  <2>1. PICK i \in 1..n : r[i] = k
    <3>. HIDE DEF r
    <3>. QED
      BY <1>5 DEF Surjection
  <2>2. Rank(s, i) + 1 = k /\ Rank(s, i) \in Int
    BY <1>2, <2>1
  <2>. QED
    BY <1>1, <2>2
<1>. QED
  BY <1>3, <1>6

\* p puts the elements of s in order: it is a permutation, and what it puts
\* first comes before.
Sorts(p, s, n) ==
    /\ p \in [1..n -> 1..n]
    /\ \A k, l \in 1..n : p[k] = p[l] => k = l
    /\ \A i \in 1..n : \E k \in 1..n : p[k] = i
    /\ \A k, l \in 1..n : k < l => p[k] \in Before(s, p[l])

\* SortedBlobs permutes the blobs into the order of Before.
LEMMA SortedBy ==
    ASSUME NEW b, NEW n, Spaced(b.blobs, n)
    PROVE  \E p : /\ Sorts(p, b.blobs, n)
                  /\ SortedBlobs(b) = [k \in 1..n |-> b.blobs[p[k]]]
<1>. DEFINE s == b.blobs
            p == [k \in 1..n |-> CHOOSE i \in 1..n : Rank(s, i) = k - 1]
<1>1. n \in Nat /\ DOMAIN s = 1..n
  BY DEF Spaced
<1>2. \A k \in 1..n : p[k] \in 1..n /\ Rank(s, p[k]) = k - 1
  <2>1. ASSUME NEW k \in 1..n PROVE \E i \in 1..n : Rank(s, i) = k - 1
    BY RankBijective
  <2>. QED
    BY <2>1
<1>3. SortedBlobs(b) = [k \in 1..n |-> s[p[k]]]
  BY <1>1 DEF SortedBlobs, Rank
<1>4. p \in [1..n -> 1..n]
  BY <1>2
<1>. HIDE DEF p, s
<1>5. ASSUME NEW k \in 1..n, NEW l \in 1..n, p[k] = p[l] PROVE k = l
  <2>1. k - 1 = l - 1
    BY <1>2, <1>5
  <2>. QED
    BY <1>1, <2>1
<1>6. ASSUME NEW i \in 1..n PROVE \E k \in 1..n : p[k] = i
  <2>1. PICK k \in 1..n : k = Rank(s, i) + 1
    <3>1. Rank(s, i) \in 0..(n - 1)
      BY BeforeFinite DEF s
    <3>. QED
      BY <1>1, <3>1
  <2>2. Rank(s, p[k]) = Rank(s, i)
    <3>1. Rank(s, i) \in 0..(n - 1)
      BY BeforeFinite DEF s
    <3>. QED
      BY <1>1, <1>2, <2>1, <3>1
  <2>3. p[k] = i
    BY <1>2, <2>2, RankBijective DEF s
  <2>. QED
    BY <2>3
<1>7. ASSUME NEW k \in 1..n, NEW l \in 1..n, k < l PROVE p[k] \in Before(s, p[l])
  <2>1. p[k] \in 1..n /\ p[l] \in 1..n /\ Rank(s, p[k]) = k - 1 /\ Rank(s, p[l]) = l - 1
    BY <1>2
  <2>2. p[k] # p[l]
    BY <1>1, <1>5, <1>7
  <2>3. p[l] \notin Before(s, p[k])
    <3>1. SUFFICES ASSUME p[l] \in Before(s, p[k]) PROVE FALSE
      OBVIOUS
    <3>2. Rank(s, p[l]) < Rank(s, p[k])
      BY <2>1, <3>1, RankGrows DEF s
    <3>. QED
      BY <1>1, <1>7, <2>1, <3>2
  <2>. QED
    BY <2>1, <2>2, <2>3, BeforeTotal DEF s
<1>8. Sorts(p, s, n)
  BY <1>4, <1>5, <1>6, <1>7 DEF Sorts
<1>. QED
  BY <1>3, <1>8 DEF s

-----------------------------------------------------------------------------
(* Widths and positions *)

\* Min is the least element of a set of numbers.
LEMMA LeastMin ==
    ASSUME NEW S, S \subseteq Nat, S # {}
    PROVE  Min(S) \in S /\ \A y \in S : Min(S) <= y
BY LeastNatural DEF Min

\* Up to the largest power of two looked at, widths are powers of two.
LEMMA WidthType ==
    ASSUME NEW n \in Nat, n <= PowerOfTwo[MaxPower]
    PROVE  SubTreeWidth(n) \in Powers /\ SubTreeWidth(n) \in Nat \ {0}
<1>. DEFINE top == PowerOfTwo[MaxPower]
            T == SubtreeRootThreshold
            m == (n + T - 1) \div T
<1>1. Powers \subseteq Nat \ {0} /\ top \in Powers
  BY PowersPositive
<1>. HIDE DEF top
<1>2. T \in Nat \ {0}
  BY SquareAssumption
<1>3. m \in Nat /\ m <= n
  BY <1>2, QuotientBelow
<1>. DEFINE A == {p \in Powers : p >= m}
            B == {p \in Powers : p * p >= n}
<1>4. A \subseteq Nat /\ A # {} /\ A \subseteq Powers
  <2>. HIDE DEF m
  <2>1. top >= m
    <3>1. n <= top
      BY DEF top
    <3>2. top \in Nat
      BY <1>1
    <3>. QED
      BY <1>3, <3>1, <3>2
  <2>. QED
    BY <1>1, <2>1
<1>5. B \subseteq Nat /\ B # {} /\ B \subseteq Powers
  <2>1. top * top >= n
    <3>1. top \in Nat \ {0} /\ n <= top
      BY <1>1 DEF top
    <3>2. top * top >= top
      BY <3>1
    <3>. QED
      BY <3>1, <3>2
  <2>. QED
    BY <1>1, <2>1
<1>6. RoundUpPowerOfTwo(m) \in A
  <2>. HIDE DEF A
  <2>1. Min(A) \in A
    BY <1>4, LeastMin
  <2>. QED
    BY <2>1 DEF A, RoundUpPowerOfTwo
<1>7. BlobMinSquareSize(n) \in B
  <2>. HIDE DEF B
  <2>1. Min(B) \in B
    BY <1>5, LeastMin
  <2>. QED
    BY <2>1 DEF B, BlobMinSquareSize
<1>. HIDE DEF A, B
<1>8. Min({RoundUpPowerOfTwo(m), BlobMinSquareSize(n)})
        \in {RoundUpPowerOfTwo(m), BlobMinSquareSize(n)}
  <2>1. {RoundUpPowerOfTwo(m), BlobMinSquareSize(n)} \subseteq Nat
    BY <1>4, <1>5, <1>6, <1>7
  <2>. QED
    BY <2>1, LeastMin
<1>9. SubTreeWidth(n) \in Powers
  BY <1>4, <1>5, <1>6, <1>7, <1>8 DEF SubTreeWidth
<1>. QED
  BY <1>1, <1>9

\* The smallest square that holds n shares, up to the largest one allowed.
LEMMA SquareHolds ==
    ASSUME NEW n \in Nat, n <= MaxSquareSize * MaxSquareSize
    PROVE  /\ BlobMinSquareSize(n) \in Nat \ {0}
           /\ BlobMinSquareSize(n) * BlobMinSquareSize(n) >= n
<1>. DEFINE B == {p \in Powers : p * p >= n}
<1>1. Powers \subseteq Nat \ {0} /\ MaxSquareSize \in Powers
  BY PowersPositive, SquareAssumption
<1>2. MaxSquareSize * MaxSquareSize >= n
  <2>1. MaxSquareSize \in Nat
    BY <1>1
  <2>. QED
    BY <2>1
<1>3. B \subseteq Nat /\ B # {}
  BY <1>1, <1>2
<1>4. BlobMinSquareSize(n) \in B
  <2>. HIDE DEF B
  <2>1. Min(B) \in B
    BY <1>3, LeastMin
  <2>. QED
    BY <2>1 DEF B, BlobMinSquareSize
<1>. QED
  BY <1>1, <1>4

\* The padding before a blob is less than the width of its first subtree.
LEMMA PaddingBound ==
    ASSUME NEW cursor \in Nat, NEW n, SubTreeWidth(n) \in Nat \ {0}
    PROVE  /\ NextShareIndex(cursor, n) \in Nat
           /\ cursor <= NextShareIndex(cursor, n)
           /\ NextShareIndex(cursor, n) <= cursor + (SubTreeWidth(n) - 1)
           /\ NextShareIndex(cursor, n) % SubTreeWidth(n) = 0
<1>1. PICK w \in Nat \ {0} : w = SubTreeWidth(n)
  OBVIOUS
<1>2. PICK q \in Nat, r \in 0..(w - 1) : q = cursor \div w /\ r = cursor % w /\ cursor = w * q + r
  BY QuotRem
<1>3. NextShareIndex(cursor, n) = IF r = 0 THEN cursor ELSE (q + 1) * w
  BY <1>1, <1>2 DEF NextShareIndex, RoundUpByMultipleOf
<1>4. CASE r = 0
  <2>1. NextShareIndex(cursor, n) = cursor
    BY <1>3, <1>4
  <2>2. cursor % w = 0
    BY <1>2, <1>4
  <2>3. cursor <= cursor + (w - 1) /\ cursor <= cursor
    OBVIOUS
  <2>. QED
    BY <1>1, <2>1, <2>2, <2>3
<1>5. CASE r # 0
  <2>1. PICK x \in Nat : x = NextShareIndex(cursor, n) /\ x = w * q + w
    <3>1. (q + 1) * w = w * q + w /\ w * q + w \in Nat
      OBVIOUS
    <3>. QED
      BY <1>3, <1>5, <3>1
  <2>2. w * q \in Nat
    OBVIOUS
  <2>3. cursor <= x /\ x <= cursor + (w - 1)
    BY <1>2, <1>5, <2>1, <2>2
  <2>4. x % w = 0
    <3>1. PICK p \in Nat : p = q + 1
      OBVIOUS
    <3>2. x = w * p + 0 /\ 0 \in 0..(w - 1)
      BY <2>1, <3>1
    <3>. QED
      BY <3>2, QuotUnique
  <2>. QED
    BY <1>1, <2>1, <2>3, <2>4
<1>. QED
  BY <1>4, <1>5

\* s is a sequence of n blobs as NewElement makes them.
Elements(s, n) ==
    /\ Spaced(s, n) /\ Len(s) = n
    /\ \A i \in 1..n : /\ s[i].numShares \in Nat
                       /\ SubTreeWidth(s[i].numShares) \in Nat \ {0}
                       /\ s[i].maxPadding = SubTreeWidth(s[i].numShares) - 1

\* The recursion of EndsFrom.
LEMMA EndsUnfold ==
    ASSUME NEW cursor \in Nat, NEW s, NEW n, Elements(s, n)
    PROVE  LET ends == EndsFrom(cursor, s)
           IN  /\ ends \in [0..n -> Nat] /\ ends[0] = cursor
               /\ \A k \in 1..n : ends[k] = NextShareIndex(ends[k - 1], s[k].numShares)
                                              + s[k].numShares
<1>. DEFINE step(x, k) == NextShareIndex(x, s[k].numShares) + s[k].numShares
            g == [t \in Nat \X (1..n) |-> step(t[1], t[2])]
            R(f) == [k \in 0..n |-> IF k = 0 THEN cursor ELSE step(f[k - 1], k)]
            ends == EndsFrom(cursor, s)
<1>1. n \in Nat /\ Len(s) = n
  BY DEF Elements, Spaced
<1>2. ASSUME NEW x \in Nat, NEW k \in 1..n PROVE step(x, k) \in Nat
  <2>1. s[k].numShares \in Nat /\ SubTreeWidth(s[k].numShares) \in Nat \ {0}
    BY DEF Elements
  <2>2. NextShareIndex(x, s[k].numShares) \in Nat
    BY <2>1, PaddingBound
  <2>. QED
    BY <2>1, <2>2
<1>. HIDE DEF step
<1>3. g \in [Nat \X (1..n) -> Nat]
  BY <1>2
<1>4. PICK f \in [0..n -> Nat] : Recursive(f, n, cursor, g)
  <2>. HIDE DEF g
  <2>. QED
    BY <1>1, <1>3, RecursionExists
<1>5. f = R(f)
  <2>1. ASSUME NEW k \in 1..n PROVE f[k] = step(f[k - 1], k)
    <3>1. <<f[k - 1], k>> \in Nat \X (1..n)
      BY <1>1
    <3>2. f[k] = g[<<f[k - 1], k>>]
      BY <1>4 DEF Recursive
    <3>. QED
      BY <3>1, <3>2
  <2>2. f[0] = cursor /\ DOMAIN f = 0..n
    BY <1>4 DEF Recursive
  <2>3. ASSUME NEW k \in 0..n PROVE f[k] = R(f)[k]
    BY <1>1, <2>1, <2>2
  <2>. QED
    BY <2>2, <2>3
<1>6. ends = CHOOSE h : h = R(h)
  BY <1>1 DEF EndsFrom, step
<1>7. ends = R(ends)
  <2>. HIDE DEF R, ends
  <2>. QED
    BY <1>5, <1>6
<1>. HIDE DEF ends
<1>8. \A k \in 0..n : k \in {i \in 0..n : ends[i] \in Nat}
  <2>. DEFINE G == {i \in 0..n : ends[i] \in Nat}
  <2>1. 0 \in G
    BY <1>1, <1>7
  <2>2. ASSUME NEW k \in 1..n, k - 1 \in G PROVE k \in G
    <3>1. ends[k] = step(ends[k - 1], k)
      BY <1>1, <1>7
    <3>2. ends[k - 1] \in Nat
      BY <2>2
    <3>3. step(ends[k - 1], k) \in Nat
      BY <1>2, <3>2
    <3>. QED
      BY <1>1, <3>1, <3>3
  <2>. HIDE DEF G
  <2>3. \A k \in 0..n : k \in G
    BY <1>1, <2>1, <2>2, RangeInduction
  <2>. QED
    BY <2>3 DEF G
<1>9. ends \in [0..n -> Nat] /\ ends[0] = cursor
  <2>1. \A k \in 0..n : ends[k] \in Nat
    BY <1>8
  <2>2. DOMAIN ends = 0..n /\ ends = [k \in 0..n |-> ends[k]]
    BY <1>7
  <2>3. ends[0] = cursor
    BY <1>1, <1>7
  <2>. QED
    BY <2>1, <2>2, <2>3
<1>10. \A k \in 1..n : ends[k] = step(ends[k - 1], k)
  BY <1>1, <1>7
<1>. QED
  BY <1>9, <1>10 DEF ends, step


\* A function over 1 .. n is a sequence of length n.
LEMMA FunctionIsSeq ==
    ASSUME NEW n \in Nat, NEW f, NEW S, f \in [1..n -> S]
    PROVE  f \in Seq(S) /\ Len(f) = n
OBVIOUS

\* What grows step by step grows.
LEMMA StepsMonotone ==
    ASSUME NEW n \in Nat, NEW f \in [0..n -> Nat], \A k \in 1..n : f[k - 1] <= f[k]
    PROVE  \A k \in 0..n : \A j \in 0..k : f[j] <= f[k]
<1>. DEFINE G == {k \in 0..n : \A j \in 0..k : f[j] <= f[k]}
<1>1. 0 \in G
  OBVIOUS
<1>2. ASSUME NEW k \in 1..n, k - 1 \in G PROVE k \in G
  <2>1. ASSUME NEW j \in 0..k PROVE f[j] <= f[k]
    <3>1. CASE j = k
      BY <3>1
    <3>2. CASE j # k
      <4>1. j \in 0..(k - 1) /\ j \in 0..n /\ k - 1 \in 0..n
        BY <3>2
      <4>2. f[j] <= f[k - 1] /\ f[k - 1] <= f[k]
        BY <1>2, <4>1
      <4>. QED
        BY <4>1, <4>2
    <3>. QED
      BY <3>1, <3>2
  <2>. QED
    BY <2>1
<1>3. \A k \in 0..n : k \in G
  <2>. HIDE DEF G
  <2>. QED
    BY <1>1, <1>2, RangeInduction
<1>. QED
  BY <1>3

\* The shares at most taken by each of some blobs.
Offsets(s) == [i \in DOMAIN s |-> MaxShareOffset(s[i])]

\* What blobs take at most are numbers.
LEMMA OffsetsNumbers ==
    ASSUME NEW s, NEW n, Elements(s, n)
    PROVE  Numbers(Offsets(s), n)
<1>1. n \in Nat /\ DOMAIN s = 1..n
  BY DEF Elements, Spaced
<1>2. ASSUME NEW i \in 1..n PROVE MaxShareOffset(s[i]) \in Nat
  <2>1. PICK w \in Nat \ {0} : w = SubTreeWidth(s[i].numShares)
    BY DEF Elements
  <2>2. s[i].numShares \in Nat /\ s[i].maxPadding = w - 1
    BY <2>1 DEF Elements
  <2>. QED
    BY <2>2 DEF MaxShareOffset
<1>. QED
  BY <1>1, <1>2 DEF Offsets, Numbers

\* One blob after the other, each with its padding.
LEMMA StartBounds ==
    ASSUME NEW cursor \in Nat, NEW s, NEW n, Elements(s, n), NEW k \in 1..n
    PROVE  LET before == EndsFrom(cursor, s)[k - 1]
               after == EndsFrom(cursor, s)[k]
               start == NextShareIndex(before, s[k].numShares)
           IN  /\ before \in Nat /\ start \in Nat /\ after \in Nat
               /\ before <= start /\ start - before <= s[k].maxPadding
               /\ after = start + s[k].numShares /\ start <= after
               /\ after <= before + MaxShareOffset(s[k])
               /\ start % SubTreeWidth(s[k].numShares) = 0
<1>. DEFINE ends == EndsFrom(cursor, s)
<1>1. n \in Nat /\ k - 1 \in 0..n /\ k \in 0..n
  BY DEF Elements, Spaced
<1>2. /\ ends \in [0..n -> Nat]
      /\ ends[k] = NextShareIndex(ends[k - 1], s[k].numShares) + s[k].numShares
  BY EndsUnfold
<1>. HIDE DEF ends
<1>3. PICK x \in Nat : x = ends[k - 1]
  BY <1>1, <1>2
<1>4. PICK m \in Nat : m = s[k].numShares
  BY DEF Elements
<1>5. PICK w \in Nat \ {0} : w = SubTreeWidth(m)
  BY <1>4 DEF Elements
<1>6. s[k].maxPadding = w - 1
  BY <1>4, <1>5 DEF Elements
<1>7. PICK y \in Nat : y = NextShareIndex(x, m)
  BY <1>5, PaddingBound
<1>8. x <= y /\ y <= x + (w - 1) /\ y % w = 0
  BY <1>5, <1>7, PaddingBound
<1>9. ends[k] = y + m /\ MaxShareOffset(s[k]) = m + (w - 1)
  BY <1>2, <1>3, <1>4, <1>6, <1>7 DEF MaxShareOffset
<1>10. /\ y - x <= w - 1 /\ y + m \in Nat /\ y <= y + m
       /\ y + m <= x + (m + (w - 1))
  BY <1>8
<1>. QED
  BY <1>3, <1>4, <1>5, <1>6, <1>7, <1>8, <1>9, <1>10 DEF ends

\* The estimate covers the blobs: where they end.
LEMMA EndsBound ==
    ASSUME NEW cursor \in Nat, NEW s, NEW n, Elements(s, n)
    PROVE  /\ \A k \in 0..n : /\ EndsFrom(cursor, s)[k] \in Nat
                              /\ cursor <= EndsFrom(cursor, s)[k]
                              /\ EndsFrom(cursor, s)[k] <= cursor + SumSeq(Offsets(s))
           /\ \A k \in 0..n : \A j \in 0..k : EndsFrom(cursor, s)[j] <= EndsFrom(cursor, s)[k]
<1>. DEFINE ends == EndsFrom(cursor, s)
            off == Offsets(s)
            Part(k) == [i \in 1..k |-> off[i]]
            G == {k \in 0..n : ends[k] <= cursor + SumSeq(Part(k))}
<1>1. n \in Nat /\ ends \in [0..n -> Nat] /\ ends[0] = cursor
  BY EndsUnfold DEF Elements, Spaced
<1>2. Numbers(off, n) /\ DOMAIN off = 1..n
  BY OffsetsNumbers DEF Numbers
<1>3. ASSUME NEW k \in 1..n
      PROVE  ends[k - 1] <= ends[k] /\ ends[k] <= ends[k - 1] + off[k]
  <2>1. off[k] = MaxShareOffset(s[k])
    BY <1>1 DEF Offsets, Elements, Spaced
  <2>2. PICK x, y, z \in Nat : /\ x = ends[k - 1] /\ z = ends[k]
                               /\ x <= y /\ y <= z /\ z <= x + MaxShareOffset(s[k])
    BY StartBounds
  <2>. QED
    BY <2>1, <2>2
<1>. HIDE DEF ends, off
<1>4. \A k \in 0..n : Numbers(Part(k), k)
  BY <1>1, <1>2 DEF Numbers
<1>5. ASSUME NEW k \in 0..n PROVE SumSeq(Part(k)) \in Nat
  BY <1>4, SumSeqNat
<1>6. ASSUME NEW k \in 1..n PROVE SumSeq(Part(k)) = SumSeq(Part(k - 1)) + off[k]
  <2>1. /\ k - 1 \in 0..n /\ k \in 0..n /\ (k - 1) + 1 = k
        /\ \A i \in 1..(k - 1) : Part(k)[i] = Part(k - 1)[i]
        /\ Part(k)[k] = off[k]
    BY <1>1
  <2>2. Numbers(Part(k - 1), k - 1) /\ Numbers(Part(k), (k - 1) + 1)
    BY <1>4, <2>1
  <2>. HIDE DEF Part
  <2>3. SumSeq(Part(k)) = SumSeq(Part(k - 1)) + Part(k)[(k - 1) + 1]
    BY <2>1, <2>2, SumSeqAppend
  <2>. QED
    BY <2>1, <2>3
<1>. HIDE DEF Part
<1>7. 0 \in G
  BY <1>1, <1>5
<1>8. ASSUME NEW k \in 1..n, k - 1 \in G PROVE k \in G
  <2>1. k \in 0..n /\ k - 1 \in 0..n
    BY <1>1
  <2>2. PICK x, z, a, b, o \in Nat :
            /\ x = ends[k - 1] /\ z = ends[k] /\ o = off[k]
            /\ a = SumSeq(Part(k - 1)) /\ b = SumSeq(Part(k))
    BY <1>1, <1>2, <1>5, <2>1 DEF Numbers
  <2>3. x <= cursor + a /\ b = a + o /\ z <= x + o
    BY <1>3, <1>6, <1>8, <2>2
  <2>4. z <= cursor + b
    BY <2>3
  <2>. QED
    BY <2>1, <2>2, <2>4
<1>9. \A k \in 0..n : k \in G
  <2>. HIDE DEF G
  <2>. QED
    BY <1>1, <1>7, <1>8, RangeInduction
<1>10. \A k \in 0..n : \A j \in 0..k : ends[j] <= ends[k]
  BY <1>1, <1>3, StepsMonotone
<1>11. Part(n) = off
  BY <1>2 DEF Part, off, Offsets
<1>12. ASSUME NEW k \in 0..n
       PROVE  ends[k] \in Nat /\ cursor <= ends[k] /\ ends[k] <= cursor + SumSeq(off)
  <2>1. n \in 0..n /\ k \in 0..n /\ 0 \in 0..k
    BY <1>1
  <2>2. ends[k] <= ends[n] /\ ends[0] <= ends[k]
    BY <1>10, <2>1
  <2>3. ends[n] <= cursor + SumSeq(off)
    BY <1>9, <1>11, <2>1
  <2>4. PICK x, z, a \in Nat : x = ends[k] /\ z = ends[n] /\ a = SumSeq(off)
    BY <1>1, <1>5, <1>11, <2>1
  <2>5. x <= cursor + a
    BY <2>2, <2>3, <2>4
  <2>. QED
    BY <1>1, <2>2, <2>4, <2>5
<1>. QED
  BY <1>10, <1>12 DEF ends, off

\* The sort keeps the blobs, and so what is set aside for them.
LEMMA SortedElements ==
    ASSUME NEW b, NEW n, Elements(b.blobs, n)
    PROVE  /\ Elements(SortedBlobs(b), n)
           /\ SumSeq(Offsets(SortedBlobs(b))) = SumSeq(Offsets(b.blobs))
<1>. DEFINE s == b.blobs
            t == SortedBlobs(b)
<1>1. Spaced(s, n) /\ n \in Nat /\ DOMAIN s = 1..n
  BY DEF Elements, Spaced
<1>2. PICK p : Sorts(p, s, n) /\ t = [k \in 1..n |-> s[p[k]]]
  BY <1>1, SortedBy
<1>. HIDE DEF t
<1>3. \A k \in 1..n : p[k] \in 1..n /\ t[k] = s[p[k]]
  BY <1>2 DEF Sorts
<1>4. Len(t) = n /\ DOMAIN t = 1..n
  <2>1. t \in [1..n -> {s[i] : i \in 1..n}]
    BY <1>2, <1>3
  <2>. QED
    BY <1>1, <2>1, FunctionIsSeq
<1>5. Elements(t, n)
  <2>. HIDE DEF s
  <2>1. Elements(s, n)
    BY DEF s
  <2>2. ASSUME NEW k \in 1..n
        PROVE  /\ t[k].ns \in Nat /\ t[k].numShares \in Nat
               /\ SubTreeWidth(t[k].numShares) \in Nat \ {0}
               /\ t[k].maxPadding = SubTreeWidth(t[k].numShares) - 1
    <3>1. PICK i \in 1..n : t[k] = s[i]
      BY <1>3
    <3>. QED
      BY <2>1, <3>1 DEF Elements, Spaced
  <2>3. Spaced(t, n)
    BY <1>1, <1>4, <2>2 DEF Spaced
  <2>. QED
    BY <1>4, <2>2, <2>3, Zenon DEF Elements
<1>6. Numbers(Offsets(s), n) /\ Numbers(Offsets(t), n)
  BY <1>5, OffsetsNumbers
<1>7. \A k \in 1..n : Offsets(t)[k] = Offsets(s)[p[k]]
  BY <1>1, <1>3, <1>4 DEF Offsets
<1>8. Renamed(1..n, Offsets(t), 1..n, Offsets(s), p)
  <2>1. IsFiniteSet(1..n)
    BY <1>1, RangeFinite
  <2>2. \A k \in 1..n : Offsets(t)[k] \in Int
    BY <1>6 DEF Numbers
  <2>. HIDE DEF s
  <2>. QED
    BY <1>2, <1>3, <1>7, <2>1, <2>2 DEF Renamed, Sorts
<1>9. SumFunctionOnSet(Offsets(t), 1..n) = SumFunctionOnSet(Offsets(s), 1..n)
  BY <1>8, SumRenamed
<1>10. SumSeq(Offsets(t)) = SumSeq(Offsets(s))
  <2>. HIDE DEF s
  <2>. QED
    BY <1>6, <1>9, SumSeqNat
<1>. QED
  BY <1>5, <1>10 DEF t

\* Blobs placed as the commitment rules want them, within what is set aside.
WellPlaced(placed, b, n) ==
    /\ DOMAIN placed = 1..n /\ Len(placed) = n
    /\ \A k \in 1..n :
          /\ placed[k].element = SortedBlobs(b)[k]
          /\ placed[k].start \in Nat /\ placed[k].end \in Nat
          /\ placed[k].padding \in Nat /\ placed[k].element.maxPadding \in Nat
          /\ placed[k].padding <= placed[k].element.maxPadding
          /\ placed[k].end = placed[k].start + placed[k].element.numShares
          /\ Reserved(b) <= placed[k].start /\ placed[k].start <= placed[k].end
          /\ placed[k].end <= Reserved(b) + SumSeq(Offsets(b.blobs))
          /\ placed[k].start % SubTreeWidth(placed[k].element.numShares) = 0
    /\ \A k, l \in 1..n : k < l => placed[k].end <= placed[l].start

\* The loop of Export places the blobs well.
LEMMA PlacedWell ==
    ASSUME NEW b, NEW n, Elements(b.blobs, n), Reserved(b) \in Nat
    PROVE  WellPlaced(Placed(b), b, n)
<1>1. PICK s : /\ s = SortedBlobs(b) /\ Elements(s, n)
               /\ SumSeq(Offsets(s)) = SumSeq(Offsets(b.blobs))
  BY SortedElements
<1>0. PICK r \in Nat : r = Reserved(b)
  OBVIOUS
<1>. DEFINE ends == EndsFrom(r, s)
            pl == Placed(b)
<1>2. n \in Nat /\ DOMAIN s = 1..n
  BY <1>1 DEF Elements, Spaced
<1>3. /\ \A k \in 0..n : /\ ends[k] \in Nat /\ r <= ends[k]
                         /\ ends[k] <= r + SumSeq(Offsets(s))
      /\ \A k \in 0..n : \A j \in 0..k : ends[j] <= ends[k]
  BY <1>1, <1>2, EndsBound
<1>4. ASSUME NEW k \in 1..n
      PROVE  /\ pl[k] = PlacedAt(s[k], ends[k - 1], NextShareIndex(ends[k - 1], s[k].numShares))
             /\ k \in DOMAIN pl
  BY <1>0, <1>1, <1>2 DEF pl, Placed, PlacedWith
<1>5. pl = [k \in 1..n |-> pl[k]]
  BY <1>0, <1>1, <1>2 DEF pl, Placed, PlacedWith
<1>6. DOMAIN pl = 1..n /\ Len(pl) = n
  <2>. HIDE DEF pl
  <2>1. pl \in [1..n -> {pl[k] : k \in 1..n}]
    BY <1>5
  <2>. QED
    BY <1>2, <2>1, FunctionIsSeq
<1>. HIDE DEF pl, ends
<1>7. ASSUME NEW k \in 1..n
      PROVE  /\ pl[k].element = s[k]
             /\ pl[k].start \in Nat /\ pl[k].end \in Nat
             /\ pl[k].padding \in Nat /\ s[k].maxPadding \in Nat
             /\ pl[k].padding <= s[k].maxPadding
             /\ pl[k].end = pl[k].start + s[k].numShares
             /\ pl[k].end = ends[k] /\ ends[k - 1] <= pl[k].start
             /\ pl[k].start <= pl[k].end
             /\ pl[k].start % SubTreeWidth(s[k].numShares) = 0
  <2>1. PICK x, y, z \in Nat :
            /\ x = ends[k - 1] /\ z = ends[k] /\ y = NextShareIndex(x, s[k].numShares)
            /\ x <= y /\ y - x <= s[k].maxPadding /\ z = y + s[k].numShares /\ y <= z
            /\ y % SubTreeWidth(s[k].numShares) = 0
    <3>1. LET before == EndsFrom(r, s)[k - 1]
              after == EndsFrom(r, s)[k]
              start == NextShareIndex(before, s[k].numShares)
          IN  /\ before \in Nat /\ start \in Nat /\ after \in Nat
              /\ before <= start /\ start - before <= s[k].maxPadding
              /\ after = start + s[k].numShares /\ start <= after
              /\ after <= before + MaxShareOffset(s[k])
              /\ start % SubTreeWidth(s[k].numShares) = 0
      BY <1>1, StartBounds, Zenon
    <3>. QED
      BY <3>1, Zenon DEF ends
  <2>2. pl[k] = PlacedAt(s[k], x, y)
    BY <1>4, <2>1
  <2>3. pl[k].element = s[k] /\ pl[k].start = y /\ pl[k].padding = y - x /\ pl[k].end = z
    BY <2>1, <2>2 DEF PlacedAt
  <2>4. s[k].maxPadding \in Nat
    <3>1. PICK w \in Nat \ {0} : w = SubTreeWidth(s[k].numShares)
      BY <1>1 DEF Elements
    <3>2. s[k].maxPadding = w - 1 /\ w - 1 \in Nat
      BY <1>1, <3>1 DEF Elements
    <3>. QED
      BY <3>2
  <2>5. y - x \in Nat
    BY <2>1
  <2>. QED
    BY <2>1, <2>3, <2>4, <2>5
<1>8. ASSUME NEW k \in 1..n
      PROVE  r <= pl[k].start /\ pl[k].end <= r + SumSeq(Offsets(s))
  <2>1. k \in 0..n /\ k - 1 \in 0..n
    BY <1>2
  <2>2. PICK x, y \in Nat : x = ends[k - 1] /\ y = pl[k].start /\ r <= x /\ x <= y
    BY <1>3, <1>7, <2>1
  <2>3. pl[k].end <= r + SumSeq(Offsets(s))
    BY <1>3, <1>7, <2>1
  <2>. QED
    BY <1>2, <2>2, <2>3
<1>9. ASSUME NEW k \in 1..n, NEW l \in 1..n, k < l PROVE pl[k].end <= pl[l].start
  <2>1. k \in 0..(l - 1) /\ k \in 0..n /\ l - 1 \in 0..n
    BY <1>2, <1>9
  <2>2. PICK x, y, z \in Nat : x = ends[k] /\ y = ends[l - 1] /\ z = pl[l].start
    BY <1>3, <1>7, <2>1
  <2>3. x <= y /\ y <= z /\ x = pl[k].end
    BY <1>3, <1>7, <2>1, <2>2
  <2>. QED
    BY <2>2, <2>3
<1>. QED
  BY <1>0, <1>1, <1>6, <1>7, <1>8, <1>9 DEF WellPlaced, pl

-----------------------------------------------------------------------------
(* What the builder keeps *)

Pfb == [len : PfbLens, blobs : BlobLists, indexes : Seq(Nat)]

Builder ==
    [txs : Seq(TxLens), pfbs : Seq(Pfb), blobs : Seq(Element), txCounter : Counter,
     pfbCounter : Counter, currentSize : Nat, done : BOOLEAN]

\* The bytes of each wrapped PFB with its worst-case indexes.
WorstBytes(pfbs) ==
    [p \in DOMAIN pfbs |->
        Delimited(WrapperSize(pfbs[p].len, WorstCaseShareIndexes(Len(pfbs[p].indexes))))]

\* The blobs of the p-th PFB, as elements of the square.
ElementsOf(blobs, p) == [i \in DOMAIN blobs |-> NewElement(blobs[i], p, i)]

\* What is set aside for the blobs of each PFB.
SetAside(pfbs) == [p \in DOMAIN pfbs |-> SumSeq(Offsets(ElementsOf(pfbs[p].blobs, p)))]

\* The counters have counted the transactions, and with the blobs of the PFBs
\* they make up the estimate.
Sized(b) ==
    /\ b.txCounter = CounterAt(TxBytes(b.txs))
    /\ b.pfbCounter = CounterAt(SumSeq(WorstBytes(b.pfbs)))
    /\ SumSeq(Offsets(b.blobs)) = SumSeq(SetAside(b.pfbs))
    /\ b.currentSize = Reserved(b) + SumSeq(SetAside(b.pfbs))
    /\ b.currentSize <= MaxSquareSize * MaxSquareSize

\* The elements are the blobs of the PFBs, whose indexes are as many.
Matched(b) ==
    /\ \A p \in DOMAIN b.pfbs : Len(b.pfbs[p].indexes) = Len(b.pfbs[p].blobs)
    /\ \A k \in DOMAIN b.blobs : \E p \in DOMAIN b.pfbs : \E i \in DOMAIN b.pfbs[p].blobs :
          b.blobs[k] = NewElement(b.pfbs[p].blobs[i], p, i)
    /\ \A p \in DOMAIN b.pfbs : \A i \in DOMAIN b.pfbs[p].blobs : \E k \in DOMAIN b.blobs :
          b.blobs[k] = NewElement(b.pfbs[p].blobs[i], p, i)

Earlier(d, e) ==
    \/ d.pfb < e.pfb
    \/ d.pfb = e.pfb /\ d.idx < e.idx

\* The blobs of a namespace are in the order in which they were appended,
\* although those exported before were sorted.
Stable(b) ==
    \A j, k \in DOMAIN b.blobs :
        j < k /\ b.blobs[j].ns = b.blobs[k].ns => Earlier(b.blobs[j], b.blobs[k])

\* An exported PFB has the indexes of the square.
Pointed(b) ==
    b.done => \A p \in DOMAIN b.pfbs :
                 b.pfbs[p].indexes = ShareIndexes(b.pfbs[p], p, Placed(b))

Good(b) == b \in Builder /\ Sized(b) /\ Matched(b) /\ Stable(b) /\ Pointed(b)

\* Length and elements of a sequence.
LEMMA SeqFacts ==
    ASSUME NEW S, NEW s \in Seq(S)
    PROVE  /\ Len(s) \in Nat /\ DOMAIN s = 1..Len(s) /\ DOMAIN s \subseteq Nat
           /\ \A i \in DOMAIN s : s[i] \in S
OBVIOUS

\* newElement gives an element of the shares the blob needs.
LEMMA NewElementGood ==
    ASSUME NEW blobs \in BlobLists, NEW i \in DOMAIN blobs, NEW p \in Nat
    PROVE  LET e == NewElement(blobs[i], p, i)
           IN  /\ e \in Element /\ e.ns = blobs[i].ns /\ e.pfb = p /\ e.idx = i
               /\ e.numShares = SparseSharesNeeded(blobs[i].len) /\ e.numShares \in Nat
               /\ SubTreeWidth(e.numShares) \in Nat \ {0}
               /\ e.maxPadding = SubTreeWidth(e.numShares) - 1
<1>1. blobs \in Seq([ns : Nat, len : Nat])
      /\ SparseSharesNeeded(blobs[i].len) <= PowerOfTwo[MaxPower]
  BY SquareAssumption
<1>2. i \in Nat /\ blobs[i] \in [ns : Nat, len : Nat]
  BY <1>1, SeqFacts, Zenon
<1>3. SparseSharesNeeded(blobs[i].len) \in Nat
  <2>1. /\ FirstSparseShareContentSize \in Nat \ {0}
        /\ ContinuationSparseShareContentSize \in Nat \ {0}
        /\ blobs[i].len \in Nat
    BY <1>2, SquareAssumption
  <2>. QED
    BY <2>1, SharesNat DEF SparseSharesNeeded
<1>4. PICK m \in Nat : m = SparseSharesNeeded(blobs[i].len)
  BY <1>3
<1>5. PICK w \in Nat \ {0} : w = SubTreeWidth(m)
  BY <1>1, <1>4, WidthType
<1>6. NewElement(blobs[i], p, i)
        = [ns |-> blobs[i].ns, pfb |-> p, idx |-> i, numShares |-> m, maxPadding |-> w - 1]
  BY <1>4, <1>5 DEF NewElement
<1>7. w - 1 \in Nat
  OBVIOUS
<1>. QED
  BY <1>2, <1>4, <1>5, <1>6, <1>7 DEF Element

\* The same for all blobs of a PFB.
LEMMA ElementsOfGood ==
    ASSUME NEW blobs \in BlobLists, NEW p \in Nat
    PROVE  /\ Elements(ElementsOf(blobs, p), Len(blobs))
           /\ ElementsOf(blobs, p) \in Seq(Element)
<1>. DEFINE s == ElementsOf(blobs, p)
<1>1. blobs \in Seq([ns : Nat, len : Nat])
  BY SquareAssumption
<1>2. PICK n \in Nat : n = Len(blobs) /\ DOMAIN blobs = 1..n
  BY <1>1
<1>3. s = [i \in 1..n |-> NewElement(blobs[i], p, i)]
  BY <1>2 DEF ElementsOf
<1>. HIDE DEF s
<1>4. ASSUME NEW i \in 1..n
      PROVE  /\ s[i] \in Element /\ s[i].ns \in Nat
             /\ s[i].numShares \in Nat /\ SubTreeWidth(s[i].numShares) \in Nat \ {0}
             /\ s[i].maxPadding = SubTreeWidth(s[i].numShares) - 1
  <2>1. i \in DOMAIN blobs /\ s[i] = NewElement(blobs[i], p, i)
    BY <1>2, <1>3
  <2>2. s[i] \in Element => s[i].ns \in Nat
    BY DEF Element
  <2>. QED
    BY <2>1, <2>2, NewElementGood
<1>5. s \in [1..n -> Element] /\ DOMAIN s = 1..n
  BY <1>3, <1>4
<1>6. s \in Seq(Element) /\ Len(s) = n
  BY <1>5, FunctionIsSeq
<1>7. Elements(s, n)
  BY <1>4, <1>5, <1>6 DEF Elements, Spaced
<1>. QED
  BY <1>2, <1>6, <1>7 DEF s

\* Types of what is in a builder's sequences.
LEMMA PfbTypes ==
    ASSUME NEW b \in Builder
    PROVE  /\ Len(b.pfbs) \in Nat /\ DOMAIN b.pfbs = 1..Len(b.pfbs)
           /\ Len(b.txs) \in Nat /\ DOMAIN b.txs = 1..Len(b.txs)
           /\ Len(b.blobs) \in Nat /\ DOMAIN b.blobs = 1..Len(b.blobs)
           /\ \A i \in 1..Len(b.txs) : b.txs[i] \in TxLens /\ b.txs[i] \in Nat
           /\ \A p \in 1..Len(b.pfbs) : /\ b.pfbs[p] \in Pfb
                                        /\ b.pfbs[p].len \in Nat
                                        /\ b.pfbs[p].blobs \in BlobLists
                                        /\ b.pfbs[p].indexes \in Seq(Nat)
                                        /\ Len(b.pfbs[p].indexes) \in Nat
<1>1. b.pfbs \in Seq(Pfb) /\ b.txs \in Seq(TxLens) /\ b.blobs \in Seq(Element)
  BY DEF Builder
<1>2. TxLens \subseteq Nat /\ PfbLens \subseteq Nat
  BY SquareAssumption
<1>3. /\ Len(b.pfbs) \in Nat /\ DOMAIN b.pfbs = 1..Len(b.pfbs)
      /\ Len(b.txs) \in Nat /\ DOMAIN b.txs = 1..Len(b.txs)
      /\ Len(b.blobs) \in Nat /\ DOMAIN b.blobs = 1..Len(b.blobs)
      /\ \A i \in 1..Len(b.txs) : b.txs[i] \in TxLens
  BY <1>1, SeqFacts
<1>4. ASSUME NEW p \in 1..Len(b.pfbs)
      PROVE  /\ b.pfbs[p] \in Pfb /\ b.pfbs[p].len \in Nat
             /\ b.pfbs[p].blobs \in BlobLists
             /\ b.pfbs[p].indexes \in Seq(Nat) /\ Len(b.pfbs[p].indexes) \in Nat
  <2>1. PICK q \in Pfb : q = b.pfbs[p]
    BY <1>1, <1>3, SeqFacts
  <2>2. q.len \in PfbLens /\ q.blobs \in BlobLists /\ q.indexes \in Seq(Nat)
    BY DEF Pfb
  <2>3. Len(q.indexes) \in Nat
    BY <2>2, SeqFacts
  <2>. QED
    BY <1>2, <2>1, <2>2, <2>3
<1>. QED
  BY <1>2, <1>3, <1>4

\* The elements of a builder have the paddings of their widths.
LEMMA GoodElements ==
    ASSUME NEW b \in Builder, Matched(b)
    PROVE  Elements(b.blobs, Len(b.blobs))
<1>. DEFINE n == Len(b.blobs)
<1>1. n \in Nat /\ DOMAIN b.blobs = 1..n
  BY PfbTypes
<1>2. ASSUME NEW k \in 1..n
      PROVE  /\ b.blobs[k].ns \in Nat /\ b.blobs[k].numShares \in Nat
             /\ SubTreeWidth(b.blobs[k].numShares) \in Nat \ {0}
             /\ b.blobs[k].maxPadding = SubTreeWidth(b.blobs[k].numShares) - 1
  <2>1. PICK p \in DOMAIN b.pfbs : \E i \in DOMAIN b.pfbs[p].blobs :
            b.blobs[k] = NewElement(b.pfbs[p].blobs[i], p, i)
    BY <1>1 DEF Matched
  <2>2. PICK i \in DOMAIN b.pfbs[p].blobs : b.blobs[k] = NewElement(b.pfbs[p].blobs[i], p, i)
    BY <2>1
  <2>3. b.pfbs[p].blobs \in BlobLists /\ p \in Nat
    <3>1. DOMAIN b.pfbs = 1..Len(b.pfbs) /\ Len(b.pfbs) \in Nat
      BY PfbTypes
    <3>2. p \in 1..Len(b.pfbs) /\ p \in Nat
      BY <3>1
    <3>. QED
      BY <3>2, PfbTypes
  <2>4. b.blobs[k] \in Element => b.blobs[k].ns \in Nat
    BY DEF Element
  <2>. QED
    BY <2>2, <2>3, <2>4, NewElementGood
<1>. QED
  BY <1>1, <1>2 DEF Elements, Spaced

\* The worst-case lengths of wrapped PFBs are positive numbers.
LEMMA WorstBytesNumbers ==
    ASSUME NEW b \in Builder
    PROVE  /\ Numbers(WorstBytes(b.pfbs), Len(b.pfbs))
           /\ \A p \in 1..Len(b.pfbs) : WorstBytes(b.pfbs)[p] >= 1
<1>. DEFINE W(p) == WorstCaseShareIndexes(Len(b.pfbs[p].indexes))
<1>1. ASSUME NEW p \in 1..Len(b.pfbs)
      PROVE  Delimited(WrapperSize(b.pfbs[p].len, W(p))) \in Nat \ {0}
  <2>1. b.pfbs[p].len \in Nat /\ Len(b.pfbs[p].indexes) \in Nat
    BY PfbTypes
  <2>2. PICK m \in Nat : m = Len(b.pfbs[p].indexes)
    BY <2>1
  <2>3. SquareSizeUpperBound * SquareSizeUpperBound \in Nat
    <3>1. SquareSizeUpperBound \in Nat
      BY PowersPositive, SquareAssumption
    <3>. QED
      BY <3>1
  <2>4. Numbers(W(p), m) /\ \A i \in 1..m : W(p)[i] <= W(p)[i]
    BY <2>2, <2>3 DEF Numbers, WorstCaseShareIndexes
  <2>5. WrapperSize(b.pfbs[p].len, W(p)) \in Nat
    <3>. HIDE DEF W
    <3>. QED
      BY <2>1, <2>4, WrapperGrows
  <2>. QED
    BY <2>5, DelimitedNat
<1>2. Len(b.pfbs) \in Nat /\ DOMAIN b.pfbs = 1..Len(b.pfbs)
  BY PfbTypes
<1>. QED
  BY <1>1, <1>2 DEF WorstBytes, Numbers

\* What PFBs paid for are numbers.
LEMMA SetAsideNumbers ==
    ASSUME NEW b \in Builder
    PROVE  Numbers(SetAside(b.pfbs), Len(b.pfbs))
<1>1. ASSUME NEW p \in 1..Len(b.pfbs)
      PROVE  SumSeq(Offsets(ElementsOf(b.pfbs[p].blobs, p))) \in Nat
  <2>1. b.pfbs[p].blobs \in BlobLists /\ p \in Nat
    BY PfbTypes
  <2>. QED
    BY <2>1, ElementsOfGood, OffsetsNumbers, SumSeqNat
<1>2. Len(b.pfbs) \in Nat /\ DOMAIN b.pfbs = 1..Len(b.pfbs)
  BY PfbTypes
<1>. QED
  BY <1>1, <1>2 DEF SetAside, Numbers

\* The bytes of each transaction.
UnitBytes(lens) == [i \in DOMAIN lens |-> Delimited(lens[i])]

\* The lengths of transactions are numbers.
LEMMA UnitBytesNumbers ==
    ASSUME NEW lens, NEW n, Numbers(lens, n)
    PROVE  Numbers(UnitBytes(lens), n) /\ \A i \in 1..n : UnitBytes(lens)[i] >= 1
<1>1. n \in Nat /\ DOMAIN lens = 1..n /\ \A i \in 1..n : Delimited(lens[i]) \in Nat \ {0}
  BY DelimitedNat DEF Numbers
<1>. QED
  BY <1>1 DEF UnitBytes, Numbers

-----------------------------------------------------------------------------
(* AppendTx *)

\* Length and elements of a sequence with one more element.
LEMMA AppendFacts ==
    ASSUME NEW S, NEW s \in Seq(S), NEW x \in S
    PROVE  /\ Append(s, x) \in Seq(S) /\ Len(Append(s, x)) = Len(s) + 1
           /\ DOMAIN Append(s, x) = 1..(Len(s) + 1)
           /\ \A i \in 1..Len(s) : Append(s, x)[i] = s[i]
           /\ Append(s, x)[Len(s) + 1] = x
OBVIOUS

\* The bytes of the transactions grow by those of the appended one.
LEMMA TxBytesAppend ==
    ASSUME NEW txs \in Seq(TxLens), NEW len \in TxLens
    PROVE  /\ TxBytes(txs) \in Nat
           /\ TxBytes(Append(txs, len)) = TxBytes(txs) + Delimited(len)
<1>. DEFINE more == Append(txs, len)
            n == Len(txs)
<1>1. TxLens \subseteq Nat
  BY SquareAssumption
<1>2. n \in Nat /\ DOMAIN txs = 1..n /\ \A i \in 1..n : txs[i] \in Nat
  BY <1>1, SeqFacts
<1>3. /\ DOMAIN more = 1..(n + 1) /\ more[n + 1] = len
      /\ \A i \in 1..n : more[i] = txs[i]
  BY AppendFacts
<1>. HIDE DEF more, n
<1>4. Numbers(txs, n) /\ Numbers(more, n + 1)
  <2>1. \A i \in 1..(n + 1) : more[i] \in Nat
    <3>1. ASSUME NEW i \in 1..(n + 1) PROVE i \in 1..n \/ i = n + 1
      BY <1>2
    <3>. QED
      BY <1>1, <1>2, <1>3, <3>1
  <2>. QED
    BY <1>2, <1>3, <2>1 DEF Numbers
<1>5. Numbers(UnitBytes(txs), n) /\ Numbers(UnitBytes(more), n + 1)
  BY <1>4, UnitBytesNumbers
<1>6. \A i \in 1..n : UnitBytes(more)[i] = UnitBytes(txs)[i]
  BY <1>2, <1>3 DEF UnitBytes
<1>7. UnitBytes(more)[n + 1] = Delimited(len)
  BY <1>2, <1>3 DEF UnitBytes
<1>8. SumSeq(UnitBytes(more)) = SumSeq(UnitBytes(txs)) + Delimited(len)
  BY <1>5, <1>6, <1>7, SumSeqAppend
<1>9. SumSeq(UnitBytes(txs)) \in Nat
  BY <1>5, SumSeqNat
<1>. QED
  BY <1>8, <1>9 DEF TxBytes, UnitBytes, more

\* The counter sees one unit after the other.
LEMMA AddAt ==
    ASSUME NEW n \in Nat, NEW len \in Nat
    PROVE  CounterAdd(CounterAt(n), len) = CounterAt(n + Delimited(len))
BY CountAt, DelimitedNat DEF CounterAdd

\* CounterAt has the type of a counter.
LEMMA CounterAtCounter ==
    ASSUME NEW n \in Nat
    PROVE  CounterAt(n) \in Counter /\ CounterSize(CounterAt(n)) \in Nat
BY CounterAtType, CounterSizeAt DEF Counter, C

\* The sizes the estimate is made of.
LEMMA SizedNat ==
    ASSUME NEW b \in Builder, Sized(b)
    PROVE  /\ TxBytes(b.txs) \in Nat /\ SumSeq(WorstBytes(b.pfbs)) \in Nat
           /\ SumSeq(SetAside(b.pfbs)) \in Nat
           /\ CounterSize(b.txCounter) \in Nat /\ CounterSize(b.pfbCounter) \in Nat
           /\ Reserved(b) \in Nat
<1>1. TxBytes(b.txs) \in Nat
  <2>1. TxLens \subseteq Nat /\ b.txs \in Seq(TxLens)
    BY SquareAssumption DEF Builder
  <2>2. Numbers(b.txs, Len(b.txs))
    BY PfbTypes DEF Numbers
  <2>3. SumSeq(UnitBytes(b.txs)) \in Nat
    BY <2>2, UnitBytesNumbers, SumSeqNat
  <2>. QED
    BY <2>3 DEF TxBytes, UnitBytes
<1>2. SumSeq(WorstBytes(b.pfbs)) \in Nat /\ SumSeq(SetAside(b.pfbs)) \in Nat
  BY WorstBytesNumbers, SetAsideNumbers, SumSeqNat
<1>3. CounterSize(b.txCounter) \in Nat /\ CounterSize(b.pfbCounter) \in Nat
  BY <1>1, <1>2, CounterAtCounter DEF Sized
<1>. QED
  BY <1>1, <1>2, <1>3 DEF Reserved

\* The builder with one more transaction, if it fits.
LEMMA TxAddedGood ==
    ASSUME NEW b, Good(b), NEW len \in TxLens
    PROVE  LET c == TxAdded(b, len, CounterAdd(b.txCounter, len))
           IN  /\ c.txs = Append(b.txs, len) /\ c.pfbs = b.pfbs /\ c.done = FALSE
               /\ c.blobs = b.blobs
               /\ c.currentSize = CompactSharesNeeded(TxBytes(Append(b.txs, len)))
                                    + CounterSize(b.pfbCounter) + SumSeq(SetAside(b.pfbs))
               /\ c \in Builder
               /\ c.currentSize <= MaxSquareSize * MaxSquareSize => Good(c)
               /\ WithTx(b, len) = IF c.currentSize <= MaxSquareSize * MaxSquareSize THEN c ELSE b
<1>1. b \in Builder /\ Sized(b) /\ Matched(b) /\ Stable(b)
  BY DEF Good
<1>2. PICK c : c = TxAdded(b, len, CounterAdd(b.txCounter, len))
  OBVIOUS
<1>3. PICK txs \in Seq(TxLens) : txs = b.txs
  BY <1>1 DEF Builder
<1>4. PICK more \in Seq(TxLens) : more = Append(txs, len)
  BY AppendFacts
<1>5. len \in Nat /\ TxBytes(txs) \in Nat /\ TxBytes(more) = TxBytes(txs) + Delimited(len)
  BY <1>4, TxBytesAppend, SquareAssumption
<1>6. CounterAdd(b.txCounter, len) = CounterAt(TxBytes(more)) /\ TxBytes(more) \in Nat
  <2>1. b.txCounter = CounterAt(TxBytes(txs))
    BY <1>1, <1>3 DEF Sized
  <2>2. CounterAdd(CounterAt(TxBytes(txs)), len) = CounterAt(TxBytes(txs) + Delimited(len))
    BY <1>5, AddAt, Zenon
  <2>3. PICK x, y \in Nat : x = TxBytes(txs) /\ y = Delimited(len)
    BY <1>5, DelimitedNat
  <2>4. TxBytes(more) \in Nat
    BY <1>5, <2>3
  <2>. QED
    BY <1>5, <2>1, <2>2, <2>4
<1>7. PICK counter \in Counter : counter = CounterAt(TxBytes(more))
  BY <1>6, CounterAtCounter
<1>8. CounterSize(counter) = CompactSharesNeeded(TxBytes(more)) /\ CounterSize(counter) \in Nat
  BY <1>6, <1>7, CounterSizeAt
<1>9. PICK x, y, z, paid \in Nat :
          /\ x = CounterSize(b.txCounter) /\ y = CounterSize(b.pfbCounter)
          /\ z = CounterSize(counter) /\ paid = SumSeq(SetAside(b.pfbs))
  BY <1>1, <1>8, SizedNat
<1>10. b.currentSize = x + y + paid
  BY <1>1, <1>9 DEF Sized, Reserved
<1>11. c = [b EXCEPT !.txs = more, !.txCounter = counter,
                     !.currentSize = b.currentSize + z - x, !.done = FALSE]
  BY <1>2, <1>3, <1>4, <1>6, <1>7, <1>9 DEF TxAdded
<1>12. b.currentSize + z - x = z + y + paid /\ z + y + paid \in Nat
  BY <1>10
<1>13. /\ c \in Builder
       /\ c.txs = more /\ c.pfbs = b.pfbs /\ c.blobs = b.blobs /\ c.txCounter = counter
       /\ c.pfbCounter = b.pfbCounter /\ c.currentSize = z + y + paid /\ c.done = FALSE
  BY <1>1, <1>11, <1>12 DEF Builder
<1>14. ASSUME c.currentSize <= MaxSquareSize * MaxSquareSize PROVE Good(c)
  <2>1. Sized(c)
    <3>1. Reserved(c) = z + y
      BY <1>9, <1>13 DEF Reserved
    <3>. QED
      BY <1>1, <1>7, <1>9, <1>13, <1>14, <3>1 DEF Sized
  <2>2. Matched(c)
    BY <1>1, <1>13 DEF Matched
  <2>3. Stable(c)
    BY <1>1, <1>13 DEF Stable
  <2>4. Pointed(c)
    BY <1>13 DEF Pointed
  <2>. QED
    BY <1>13, <2>1, <2>2, <2>3, <2>4 DEF Good
<1>15. WithTx(b, len) = IF c.currentSize <= MaxSquareSize * MaxSquareSize THEN c ELSE b
  <2>1. b.currentSize + (c.currentSize - b.currentSize) = c.currentSize
    BY <1>10, <1>13
  <2>. QED
    BY <1>2, <2>1 DEF WithTx, IfFits, CanFit
<1>. QED
  BY <1>2, <1>3, <1>4, <1>8, <1>9, <1>12, <1>13, <1>14, <1>15

-----------------------------------------------------------------------------
(* AppendBlobTx *)

\* Length and elements of a concatenation.
LEMMA ConcatFacts ==
    ASSUME NEW S, NEW s \in Seq(S), NEW t \in Seq(S)
    PROVE  /\ s \o t \in Seq(S) /\ Len(s \o t) = Len(s) + Len(t)
           /\ DOMAIN (s \o t) = 1..(Len(s) + Len(t))
           /\ \A i \in 1..Len(s) : (s \o t)[i] = s[i]
           /\ \A i \in 1..Len(t) : (s \o t)[Len(s) + i] = t[i]
OBVIOUS

\* Blobs of two sequences take what those of each take.
LEMMA OffsetsConcat ==
    ASSUME NEW s \in Seq(Element), NEW t \in Seq(Element), NEW n, NEW m,
           Elements(s, n), Elements(t, m)
    PROVE  SumSeq(Offsets(s \o t)) = SumSeq(Offsets(s)) + SumSeq(Offsets(t))
<1>1. n \in Nat /\ m \in Nat /\ Len(s) = n /\ Len(t) = m /\ DOMAIN s = 1..n /\ DOMAIN t = 1..m
  BY DEF Elements, Spaced
<1>2. /\ DOMAIN (s \o t) = 1..(n + m)
      /\ \A i \in 1..n : (s \o t)[i] = s[i]
      /\ \A i \in 1..m : (s \o t)[n + i] = t[i]
  <2>1. /\ DOMAIN (s \o t) = 1..(Len(s) + Len(t))
        /\ \A i \in 1..Len(s) : (s \o t)[i] = s[i]
        /\ \A i \in 1..Len(t) : (s \o t)[Len(s) + i] = t[i]
    BY ConcatFacts
  <2>. QED
    BY <1>1, <2>1, Zenon
<1>3. PICK u : u = s \o t
  OBVIOUS
<1>4. Numbers(Offsets(s), n) /\ Numbers(Offsets(t), m)
  BY OffsetsNumbers
<1>5. /\ \A i \in 1..n : Offsets(u)[i] = Offsets(s)[i]
      /\ \A i \in 1..m : Offsets(u)[n + i] = Offsets(t)[i]
      /\ DOMAIN Offsets(u) = 1..(n + m)
  <2>1. ASSUME NEW i \in 1..n PROVE Offsets(u)[i] = Offsets(s)[i]
    <3>1. i \in DOMAIN u /\ u[i] = s[i] /\ i \in DOMAIN s
      BY <1>1, <1>2, <1>3
    <3>. QED
      BY <3>1 DEF Offsets
  <2>2. ASSUME NEW i \in 1..m PROVE Offsets(u)[n + i] = Offsets(t)[i]
    <3>1. n + i \in DOMAIN u /\ u[n + i] = t[i] /\ i \in DOMAIN t
      BY <1>1, <1>2, <1>3
    <3>. QED
      BY <3>1 DEF Offsets
  <2>. QED
    BY <1>2, <1>3, <2>1, <2>2 DEF Offsets
<1>6. Numbers(Offsets(u), n + m)
  <2>1. ASSUME NEW i \in 1..(n + m) PROVE Offsets(u)[i] \in Nat
    <3>1. CASE i <= n
      BY <1>1, <1>4, <1>5, <3>1 DEF Numbers
    <3>2. CASE i > n
      <4>1. PICK j \in 1..m : i = n + j
        <5>1. i - n \in 1..m /\ i = n + (i - n)
          BY <1>1, <3>2
        <5>. QED
          BY <5>1
      <4>2. Offsets(t)[j] \in Nat
        BY <1>4 DEF Numbers
      <4>. QED
        BY <1>5, <4>1, <4>2
    <3>. QED
      BY <1>1, <3>1, <3>2
  <2>. QED
    BY <1>1, <1>5, <2>1 DEF Numbers
<1>7. SumSeq(Offsets(u)) = SumSeq(Offsets(s)) + SumSeq(Offsets(t))
  <2>1. PICK f, g, h : f = Offsets(u) /\ g = Offsets(s) /\ h = Offsets(t)
    OBVIOUS
  <2>2. /\ Numbers(g, n) /\ Numbers(h, m) /\ Numbers(f, n + m)
        /\ \A i \in 1..n : f[i] = g[i]
        /\ \A i \in 1..m : f[n + i] = h[i]
    BY <1>4, <1>5, <1>6, <2>1
  <2>3. SumSeq(f) = SumSeq(g) + SumSeq(h)
    BY <2>2, SumSeqConcat
  <2>. QED
    BY <2>1, <2>3
<1>. QED
  BY <1>3, <1>7

\* A PFB as it is appended.
NewPfb(len, blobs) ==
    [len |-> len, blobs |-> blobs, indexes |-> WorstCaseShareIndexes(Len(blobs))]

\* A new wrapped PFB has the type of one.
LEMMA NewPfbGood ==
    ASSUME NEW len \in PfbLens, NEW blobs \in BlobLists
    PROVE  /\ NewPfb(len, blobs) \in Pfb /\ Len(NewPfb(len, blobs).indexes) = Len(blobs)
           /\ WrapperSize(len, WorstCaseShareIndexes(Len(blobs))) \in Nat
<1>1. PICK n \in Nat : n = Len(blobs)
  BY SquareAssumption, SeqFacts
<1>2. SquareSizeUpperBound * SquareSizeUpperBound \in Nat
  <2>1. SquareSizeUpperBound \in Nat
    BY PowersPositive, SquareAssumption
  <2>. QED
    BY <2>1
<1>3. WorstCaseShareIndexes(n) \in [1..n -> Nat]
  BY <1>2 DEF WorstCaseShareIndexes
<1>4. WorstCaseShareIndexes(n) \in Seq(Nat) /\ Len(WorstCaseShareIndexes(n)) = n
  BY <1>3, FunctionIsSeq
<1>5. Numbers(WorstCaseShareIndexes(n), n)
      /\ \A i \in 1..n : WorstCaseShareIndexes(n)[i] <= WorstCaseShareIndexes(n)[i]
  BY <1>3 DEF Numbers
<1>6. WrapperSize(len, WorstCaseShareIndexes(n)) \in Nat
  BY <1>5, WrapperGrows, SquareAssumption
<1>. QED
  BY <1>1, <1>4, <1>6 DEF NewPfb, Pfb

\* What the builder sets aside for one more PFB.
LEMMA PfbSums ==
    ASSUME NEW b \in Builder, NEW c \in Builder, NEW len \in PfbLens, NEW blobs \in BlobLists,
           c.pfbs = Append(b.pfbs, NewPfb(len, blobs))
    PROVE  /\ SumSeq(WorstBytes(c.pfbs)) =
                SumSeq(WorstBytes(b.pfbs))
                  + Delimited(WrapperSize(len, WorstCaseShareIndexes(Len(blobs))))
           /\ SumSeq(SetAside(c.pfbs)) =
                SumSeq(SetAside(b.pfbs)) + SumSeq(Offsets(ElementsOf(blobs, Len(b.pfbs) + 1)))
<1>1. PICK pfb \in Pfb : pfb = NewPfb(len, blobs)
  BY NewPfbGood
<1>2. PICK n \in Nat : n = Len(b.pfbs) /\ DOMAIN b.pfbs = 1..n
  BY PfbTypes
<1>3. /\ Len(c.pfbs) = n + 1 /\ DOMAIN c.pfbs = 1..(n + 1) /\ c.pfbs[n + 1] = pfb
      /\ \A p \in 1..n : c.pfbs[p] = b.pfbs[p]
  <2>1. b.pfbs \in Seq(Pfb)
    BY DEF Builder
  <2>. QED
    BY <1>1, <1>2, <2>1, AppendFacts
<1>4. pfb.len = len /\ pfb.blobs = blobs /\ Len(pfb.indexes) = Len(blobs)
  BY <1>1, NewPfbGood DEF NewPfb
<1>5. n + 1 \in 1..(n + 1) /\ \A p \in 1..n : p \in 1..(n + 1)
  OBVIOUS
<1>6. /\ Numbers(WorstBytes(b.pfbs), n) /\ Numbers(WorstBytes(c.pfbs), n + 1)
      /\ Numbers(SetAside(b.pfbs), n) /\ Numbers(SetAside(c.pfbs), n + 1)
  BY <1>2, <1>3, WorstBytesNumbers, SetAsideNumbers
<1>7. /\ \A p \in 1..n : WorstBytes(c.pfbs)[p] = WorstBytes(b.pfbs)[p]
      /\ WorstBytes(c.pfbs)[n + 1] =
           Delimited(WrapperSize(len, WorstCaseShareIndexes(Len(blobs))))
  BY <1>2, <1>3, <1>4, <1>5, Zenon DEF WorstBytes
<1>8. /\ \A p \in 1..n : SetAside(c.pfbs)[p] = SetAside(b.pfbs)[p]
      /\ SetAside(c.pfbs)[n + 1] = SumSeq(Offsets(ElementsOf(blobs, n + 1)))
  BY <1>2, <1>3, <1>4, <1>5, Zenon DEF SetAside
<1>9. /\ SumSeq(WorstBytes(c.pfbs)) = SumSeq(WorstBytes(b.pfbs)) + WorstBytes(c.pfbs)[n + 1]
      /\ SumSeq(SetAside(c.pfbs)) = SumSeq(SetAside(b.pfbs)) + SetAside(c.pfbs)[n + 1]
  BY <1>6, <1>7, <1>8, SumSeqAppend
<1>. QED
  BY <1>2, <1>7, <1>8, <1>9

\* The builder with one more PFB, if it fits.
LEMMA PfbAddedGood ==
    ASSUME NEW b, Good(b), NEW len \in PfbLens, NEW blobs \in BlobLists
    PROVE  \E c :
             /\ c.txs = b.txs /\ c.pfbs = Append(b.pfbs, NewPfb(len, blobs)) /\ c.done = FALSE
             /\ c \in Builder
             /\ c.currentSize = CounterSize(b.txCounter)
                                  + CompactSharesNeeded(SumSeq(WorstBytes(c.pfbs)))
                                  + SumSeq(SetAside(c.pfbs))
             /\ c.currentSize <= MaxSquareSize * MaxSquareSize => Good(c)
             /\ WithBlobTx(b, len, blobs) =
                  IF c.currentSize <= MaxSquareSize * MaxSquareSize THEN c ELSE b
<1>1. b \in Builder /\ Sized(b) /\ Matched(b) /\ Stable(b)
  BY DEF Good
<1>2. PICK n \in Nat : n = Len(b.pfbs) /\ DOMAIN b.pfbs = 1..n
  BY <1>1, PfbTypes
<1>3. PICK pfb \in Pfb : pfb = NewPfb(len, blobs)
  BY NewPfbGood
<1>4. PICK indexes : indexes = WorstCaseShareIndexes(Len(blobs))
  OBVIOUS
<1>5. pfb.len = len /\ pfb.blobs = blobs /\ pfb.indexes = indexes /\ Len(indexes) = Len(blobs)
  BY <1>3, <1>4, NewPfbGood DEF NewPfb
<1>6. PICK elements \in Seq(Element) : elements = ElementsOf(blobs, n + 1)
  BY ElementsOfGood
<1>7. PICK m \in Nat : m = Len(blobs) /\ Elements(elements, m) /\ DOMAIN blobs = 1..m
  <2>1. Elements(elements, Len(blobs))
    BY <1>6, ElementsOfGood
  <2>. QED
    BY <2>1, SquareAssumption, SeqFacts
<1>8. PICK size \in Nat : size = WrapperSize(len, indexes)
  BY <1>4, NewPfbGood
<1>9. PICK bytes \in Nat : bytes = SumSeq(WorstBytes(b.pfbs)) + Delimited(size)
  <2>1. SumSeq(WorstBytes(b.pfbs)) \in Nat /\ Delimited(size) \in Nat
    BY <1>1, SizedNat, DelimitedNat
  <2>. QED
    BY <2>1
<1>10. PICK counter \in Counter :
           /\ counter = CounterAt(bytes) /\ counter = CounterAdd(b.pfbCounter, size)
  <2>1. PICK x \in Nat : x = SumSeq(WorstBytes(b.pfbs))
    BY <1>1, SizedNat
  <2>2. b.pfbCounter = CounterAt(x)
    BY <1>1, <2>1 DEF Sized
  <2>3. CounterAdd(CounterAt(x), size) = CounterAt(x + Delimited(size))
    BY AddAt
  <2>4. CounterAt(bytes) \in Counter
    BY CounterAtCounter
  <2>. QED
    BY <1>9, <2>1, <2>2, <2>3, <2>4
<1>11. PICK x, y, z, paid, new \in Nat :
           /\ x = CounterSize(b.txCounter) /\ y = CounterSize(b.pfbCounter)
           /\ z = CounterSize(counter) /\ paid = SumSeq(SetAside(b.pfbs))
           /\ new = SumSeq(Offsets(elements))
  <2>1. CounterSize(counter) \in Nat
    BY <1>10, CounterAtCounter
  <2>2. SumSeq(Offsets(elements)) \in Nat
    BY <1>7, OffsetsNumbers, SumSeqNat
  <2>. QED
    BY <1>1, <2>1, <2>2, SizedNat
<1>12. b.currentSize = x + y + paid
  BY <1>1, <1>11 DEF Sized, Reserved
<1>13. PICK c : c = [b EXCEPT !.pfbs = Append(b.pfbs, pfb), !.blobs = b.blobs \o elements,
                              !.pfbCounter = counter,
                              !.currentSize = b.currentSize + z - y + new, !.done = FALSE]
  OBVIOUS
<1>14. b.currentSize + z - y + new = x + z + (paid + new) /\ x + z + (paid + new) \in Nat
  BY <1>12
<1>15. Append(b.pfbs, pfb) \in Seq(Pfb) /\ b.blobs \o elements \in Seq(Element)
  <2>1. b.pfbs \in Seq(Pfb) /\ b.blobs \in Seq(Element)
    BY <1>1 DEF Builder
  <2>. QED
    BY <2>1, AppendFacts, ConcatFacts
<1>16. /\ c \in Builder
       /\ c.txs = b.txs /\ c.pfbs = Append(b.pfbs, pfb) /\ c.blobs = b.blobs \o elements
       /\ c.txCounter = b.txCounter /\ c.pfbCounter = counter
       /\ c.currentSize = x + z + (paid + new) /\ c.done = FALSE
  BY <1>1, <1>13, <1>14, <1>15 DEF Builder
<1>17. SumSeq(WorstBytes(c.pfbs)) = bytes /\ SumSeq(SetAside(c.pfbs)) = paid + new
  <2>1. /\ SumSeq(WorstBytes(c.pfbs)) = SumSeq(WorstBytes(b.pfbs)) + Delimited(size)
        /\ SumSeq(SetAside(c.pfbs)) = SumSeq(SetAside(b.pfbs)) + SumSeq(Offsets(elements))
    BY <1>1, <1>2, <1>3, <1>4, <1>6, <1>8, <1>16, PfbSums
  <2>. QED
    BY <1>9, <1>11, <2>1
<1>18. z = CompactSharesNeeded(SumSeq(WorstBytes(c.pfbs)))
  BY <1>10, <1>11, <1>17, CounterSizeAt
<1>19. WithBlobTx(b, len, blobs) =
         IF c.currentSize <= MaxSquareSize * MaxSquareSize THEN c ELSE b
  <2>1. c = PfbAdded(b, pfb, elements, counter)
    BY <1>11, <1>13 DEF PfbAdded, Offsets
  <2>2. WithBlobTx(b, len, blobs) = IfFits(b, PfbAdded(b, pfb, elements, counter))
    BY <1>2, <1>3, <1>4, <1>6, <1>8, <1>10 DEF WithBlobTx, NewPfb, ElementsOf
  <2>3. b.currentSize + (c.currentSize - b.currentSize) = c.currentSize
    BY <1>12, <1>16
  <2>. QED
    BY <2>1, <2>2, <2>3 DEF IfFits, CanFit
<1>20. Elements(b.blobs, Len(b.blobs)) /\ b.blobs \in Seq(Element)
  BY <1>1, GoodElements DEF Builder
<1>27. PICK k0 \in Nat : k0 = Len(b.blobs) /\ DOMAIN b.blobs = 1..k0
  BY <1>20, SeqFacts
<1>21. /\ DOMAIN b.blobs = 1..k0 /\ DOMAIN c.blobs = 1..(k0 + m)
       /\ \A k \in 1..k0 : c.blobs[k] = b.blobs[k]
       /\ \A i \in 1..m : c.blobs[k0 + i] = elements[i]
  <2>1. Len(elements) = m
    BY <1>7 DEF Elements
  <2>2. PICK s \in Seq(Element) : s = b.blobs
    BY <1>20
  <2>3. Len(s) = k0
    BY <1>27, <2>2
  <2>4. PICK u : u = s \o elements
    OBVIOUS
  <2>5. /\ DOMAIN u = 1..(k0 + m)
        /\ \A i \in 1..k0 : u[i] = s[i]
        /\ \A i \in 1..m : u[k0 + i] = elements[i]
    <3>1. /\ DOMAIN (s \o elements) = 1..(Len(s) + Len(elements))
          /\ \A i \in 1..Len(s) : (s \o elements)[i] = s[i]
          /\ \A i \in 1..Len(elements) : (s \o elements)[Len(s) + i] = elements[i]
      BY ConcatFacts
    <3>. QED
      BY <2>1, <2>3, <2>4, <3>1, Zenon
  <2>6. u = c.blobs
    BY <1>16, <2>2, <2>4, Zenon
  <2>. QED
    BY <1>27, <2>2, <2>5, <2>6, Zenon
<1>22. /\ DOMAIN c.pfbs = 1..(n + 1) /\ c.pfbs[n + 1] = pfb
       /\ \A p \in 1..n : c.pfbs[p] = b.pfbs[p]
  <2>1. b.pfbs \in Seq(Pfb)
    BY <1>1 DEF Builder
  <2>. QED
    BY <1>2, <1>16, <2>1, AppendFacts
<1>23. \A i \in 1..m : elements[i] = NewElement(blobs[i], n + 1, i)
  BY <1>6, <1>7 DEF ElementsOf
<1>24. Matched(c)
  <2>1. ASSUME NEW p \in DOMAIN c.pfbs PROVE p \in 1..n \/ p = n + 1
    BY <1>22
  <2>2. ASSUME NEW k \in DOMAIN c.blobs PROVE k \in 1..k0 \/ \E i \in 1..m : k = k0 + i
    <3>1. CASE k <= k0
      BY <1>21, <3>1
    <3>2. CASE k > k0
      <4>1. k - k0 \in 1..m /\ k = k0 + (k - k0)
        BY <1>21, <3>2
      <4>. QED
        BY <4>1
    <3>. QED
      BY <1>21, <3>1, <3>2
  <2>3. \A p \in DOMAIN c.pfbs : Len(c.pfbs[p].indexes) = Len(c.pfbs[p].blobs)
    BY <1>1, <1>2, <1>5, <1>22, <2>1 DEF Matched
  <2>4. ASSUME NEW k \in DOMAIN c.blobs
        PROVE  \E p \in DOMAIN c.pfbs : \E i \in DOMAIN c.pfbs[p].blobs :
                  c.blobs[k] = NewElement(c.pfbs[p].blobs[i], p, i)
    <3>1. CASE k \in 1..k0
      <4>1. PICK p \in 1..n : \E i \in DOMAIN b.pfbs[p].blobs :
                b.blobs[k] = NewElement(b.pfbs[p].blobs[i], p, i)
        BY <1>1, <1>2, <1>27, <3>1 DEF Matched
      <4>2. p \in DOMAIN c.pfbs /\ c.pfbs[p] = b.pfbs[p] /\ c.blobs[k] = b.blobs[k]
        BY <1>21, <1>22, <3>1
      <4>. QED
        BY <4>1, <4>2
    <3>2. CASE \E i \in 1..m : k = k0 + i
      <4>1. PICK i \in 1..m : k = k0 + i
        BY <3>2
      <4>2. c.blobs[k] = NewElement(blobs[i], n + 1, i)
        BY <1>21, <1>23, <4>1
      <4>3. n + 1 \in DOMAIN c.pfbs /\ c.pfbs[n + 1].blobs = blobs /\ i \in DOMAIN blobs
        BY <1>5, <1>7, <1>22
      <4>. QED
        BY <4>2, <4>3
    <3>. QED
      BY <2>2, <3>1, <3>2
  <2>5. ASSUME NEW p \in DOMAIN c.pfbs, NEW i \in DOMAIN c.pfbs[p].blobs
        PROVE  \E k \in DOMAIN c.blobs : c.blobs[k] = NewElement(c.pfbs[p].blobs[i], p, i)
    <3>1. CASE p \in 1..n
      <4>1. c.pfbs[p] = b.pfbs[p] /\ p \in DOMAIN b.pfbs
        BY <1>2, <1>22, <3>1
      <4>2. PICK k \in 1..k0 : b.blobs[k] = NewElement(b.pfbs[p].blobs[i], p, i)
        BY <1>1, <1>27, <4>1 DEF Matched
      <4>3. k \in DOMAIN c.blobs /\ c.blobs[k] = b.blobs[k]
        BY <1>21
      <4>. QED
        BY <4>1, <4>2, <4>3
    <3>2. CASE p = n + 1
      <4>1. i \in 1..m /\ c.pfbs[p].blobs = blobs
        BY <1>5, <1>7, <1>22, <3>2
      <4>2. k0 + i \in DOMAIN c.blobs
        BY <1>21, <4>1
      <4>3. c.blobs[k0 + i] = NewElement(blobs[i], n + 1, i)
        BY <1>21, <1>23, <4>1
      <4>. QED
        BY <3>2, <4>1, <4>2, <4>3
    <3>. QED
      BY <2>1, <3>1, <3>2
  <2>. QED
    BY <2>3, <2>4, <2>5 DEF Matched
<1>25. Stable(c)
  <2>1. \A k \in 1..k0 : b.blobs[k].pfb \in 1..n
    <3>1. ASSUME NEW k \in 1..k0 PROVE b.blobs[k].pfb \in 1..n
      <4>1. k \in DOMAIN b.blobs
        BY <1>27, Zenon
      <4>2. PICK p \in DOMAIN b.pfbs : \E i \in DOMAIN b.pfbs[p].blobs :
                b.blobs[k] = NewElement(b.pfbs[p].blobs[i], p, i)
        BY <1>1, <4>1, Zenon DEF Matched
      <4>3. p \in 1..n
        BY <1>2
      <4>. QED
        BY <4>2, <4>3 DEF NewElement
    <3>. QED
      BY <3>1
  <2>2. ASSUME NEW i \in 1..m PROVE elements[i].pfb = n + 1 /\ elements[i].idx = i
    <3>1. i \in DOMAIN blobs /\ n + 1 \in Nat /\ elements[i] = NewElement(blobs[i], n + 1, i)
      BY <1>7, <1>23
    <3>2. PICK p \in Nat : p = n + 1
      OBVIOUS
    <3>3. NewElement(blobs[i], p, i).pfb = p /\ NewElement(blobs[i], p, i).idx = i
      BY <3>1, NewElementGood
    <3>. QED
      BY <3>1, <3>2, <3>3
  <2>3. ASSUME NEW j \in 1..(k0 + m), NEW k \in 1..(k0 + m), j < k,
               c.blobs[j].ns = c.blobs[k].ns
        PROVE  Earlier(c.blobs[j], c.blobs[k])
    <3>1. CASE k <= k0
      <4>1. j \in 1..k0 /\ k \in 1..k0
        BY <2>3, <3>1
      <4>2. c.blobs[j] = b.blobs[j] /\ c.blobs[k] = b.blobs[k]
        BY <1>21, <4>1
      <4>. QED
        BY <1>1, <1>27, <2>3, <4>1, <4>2 DEF Stable
    <3>2. CASE k > k0
      <4>1. PICK i \in 1..m : k = k0 + i
        <5>1. k - k0 \in 1..m /\ k = k0 + (k - k0)
          BY <3>2
        <5>. QED
          BY <5>1
      <4>2. c.blobs[k].pfb = n + 1 /\ c.blobs[k].idx = i
        <5>1. c.blobs[k] = elements[i]
          BY <1>21, <4>1
        <5>. QED
          BY <2>2, <5>1
      <4>3. CASE j <= k0
        <5>1. j \in 1..k0
          BY <4>3
        <5>2. c.blobs[j].pfb \in 1..n
          BY <1>21, <2>1, <5>1
        <5>3. PICK q \in 1..n : q = c.blobs[j].pfb
          BY <5>2
        <5>4. q < n + 1
          OBVIOUS
        <5>5. c.blobs[j].pfb < c.blobs[k].pfb
          BY <4>2, <5>3, <5>4, Zenon
        <5>. QED
          BY <5>5, Zenon DEF Earlier
      <4>4. CASE j > k0
        <5>1. PICK l \in 1..m : j = k0 + l
          <6>1. j - k0 \in 1..m /\ j = k0 + (j - k0)
            BY <4>4
          <6>. QED
            BY <6>1
        <5>2. c.blobs[j].pfb = n + 1 /\ c.blobs[j].idx = l
          <6>1. c.blobs[j] = elements[l]
            BY <1>21, <5>1
          <6>. QED
            BY <2>2, <6>1
        <5>3. l < i
          BY <2>3, <4>1, <5>1
        <5>. QED
          BY <4>2, <5>2, <5>3 DEF Earlier
      <4>. QED
        BY <4>3, <4>4
    <3>. QED
      BY <3>1, <3>2
  <2>. QED
    BY <1>21, <2>3 DEF Stable
<1>26. ASSUME c.currentSize <= MaxSquareSize * MaxSquareSize PROVE Good(c)
  <2>1. SumSeq(Offsets(c.blobs)) = paid + new
    <3>1. SumSeq(Offsets(c.blobs)) = SumSeq(Offsets(b.blobs)) + SumSeq(Offsets(elements))
      BY <1>7, <1>16, <1>20, OffsetsConcat
    <3>2. SumSeq(Offsets(b.blobs)) = paid
      BY <1>1, <1>11 DEF Sized
    <3>. QED
      BY <1>11, <3>1, <3>2
  <2>2. Reserved(c) = x + z
    BY <1>11, <1>16 DEF Reserved
  <2>3. c.txCounter = CounterAt(TxBytes(c.txs))
    BY <1>1, <1>16 DEF Sized
  <2>4. c.pfbCounter = CounterAt(SumSeq(WorstBytes(c.pfbs)))
    BY <1>10, <1>16, <1>17
  <2>5. Sized(c)
    BY <1>16, <1>17, <1>26, <2>1, <2>2, <2>3, <2>4 DEF Sized
  <2>6. Pointed(c)
    BY <1>16 DEF Pointed
  <2>. QED
    BY <1>16, <1>24, <1>25, <2>5, <2>6 DEF Good
<1>. QED
  BY <1>3, <1>11, <1>16, <1>17, <1>18, <1>19, <1>26

-----------------------------------------------------------------------------
(* The order of the square *)

\* The order of the square: by namespace, PFB and index.
Less(d, e) ==
    \/ d.ns < e.ns
    \/ d.ns = e.ns /\ Earlier(d, e)

\* A sequence of n elements in that order.
Increasing(s, n) ==
    /\ n \in Nat /\ s = [k \in 1..n |-> s[k]]
    /\ \A k \in 1..n : s[k].ns \in Nat /\ s[k].pfb \in Nat /\ s[k].idx \in Nat
    /\ \A k, l \in 1..n : k < l => Less(s[k], s[l])

\* The order of the square is strict.
LEMMA LessStrict ==
    ASSUME NEW d, NEW e, d.ns \in Nat, d.pfb \in Nat, d.idx \in Nat,
           e.ns \in Nat, e.pfb \in Nat, e.idx \in Nat, Less(d, e)
    PROVE  ~Less(e, d) /\ d # e
<1>1. PICK dn, dp, di, en, ep, ei \in Nat :
          /\ dn = d.ns /\ dp = d.pfb /\ di = d.idx
          /\ en = e.ns /\ ep = e.pfb /\ ei = e.idx
  OBVIOUS
<1>2. dn < en \/ (dn = en /\ (dp < ep \/ (dp = ep /\ di < ei)))
  BY <1>1 DEF Less, Earlier
<1>3. ~(en < dn \/ (en = dn /\ (ep < dp \/ (ep = dp /\ ei < di))))
  BY <1>2
<1>4. ~Less(e, d)
  BY <1>1, <1>3 DEF Less, Earlier
<1>. QED
  BY <1>4

\* One sequence agrees with another one of the same elements up to its length.
LEMMA PrefixAgrees ==
    ASSUME NEW s, NEW n, Increasing(s, n), NEW t, NEW m, Increasing(t, m),
           \A k \in 1..n : \E l \in 1..m : s[k] = t[l],
           \A l \in 1..m : \E k \in 1..n : t[l] = s[k]
    PROVE  \A k \in 1..n : k \in 1..m /\ s[k] = t[k]
<1>. DEFINE G == {k \in 0..n : \A j \in 1..k : j \in 1..m /\ s[j] = t[j]}
<1>1. n \in Nat /\ m \in Nat
  BY DEF Increasing
<1>2. 0 \in G
  BY <1>1
<1>3. ASSUME NEW k \in 1..n, k - 1 \in G PROVE k \in G
  <2>1. \A j \in 1..(k - 1) : j \in 1..m /\ s[j] = t[j]
    BY <1>3
  <2>2. PICK l \in 1..m : s[k] = t[l]
    OBVIOUS
  <2>3. l >= k
    <3>1. SUFFICES ASSUME l < k PROVE FALSE
      BY <1>1
    <3>2. l \in 1..(k - 1) /\ l \in 1..n
      BY <1>1, <3>1
    <3>3. s[k] = s[l] /\ Less(s[l], s[k])
      BY <2>1, <2>2, <3>1, <3>2 DEF Increasing
    <3>. QED
      BY <3>2, <3>3, LessStrict DEF Increasing
  <2>4. k \in 1..m
    BY <1>1, <2>3
  <2>5. PICK i \in 1..n : t[k] = s[i]
    BY <2>4
  <2>6. i >= k
    <3>1. SUFFICES ASSUME i < k PROVE FALSE
      BY <1>1
    <3>2. i \in 1..(k - 1) /\ i \in 1..m
      BY <1>1, <2>4, <3>1
    <3>3. t[k] = t[i] /\ Less(t[i], t[k])
      BY <2>1, <2>4, <2>5, <3>1, <3>2 DEF Increasing
    <3>. QED
      BY <2>4, <3>2, <3>3, LessStrict DEF Increasing
  <2>7. s[k] = t[k]
    <3>1. SUFFICES ASSUME s[k] # t[k] PROVE FALSE
      OBVIOUS
    <3>2. l # k /\ i # k
      BY <2>2, <2>5, <3>1, Zenon
    <3>5. l > k /\ i > k
      BY <1>1, <2>3, <2>6, <3>2
    <3>3. Less(t[k], t[l]) /\ Less(s[k], s[i])
      BY <2>4, <3>5 DEF Increasing
    <3>4. Less(t[k], s[k]) /\ Less(s[k], t[k])
      BY <2>2, <2>5, <3>3
    <3>. QED
      BY <2>4, <3>4, LessStrict DEF Increasing
  <2>8. \A j \in 1..k : j \in 1..(k - 1) \/ j = k
    BY <1>1
  <2>9. \A j \in 1..k : j \in 1..m /\ s[j] = t[j]
    BY <2>1, <2>4, <2>7, <2>8, Zenon
  <2>10. k \in 0..n
    BY <1>1
  <2>. QED
    BY <2>9, <2>10
<1>4. \A k \in 0..n : k \in G
  <2>. HIDE DEF G
  <2>. QED
    BY <1>1, <1>2, <1>3, RangeInduction
<1>5. n \in G
  <2>. HIDE DEF G
  <2>1. n \in 0..n
    BY <1>1
  <2>. QED
    BY <1>4, <2>1
<1>. QED
  BY <1>5

\* There is one way to put elements in order.
LEMMA OrderUnique ==
    ASSUME NEW s, NEW n, Increasing(s, n), NEW t, NEW m, Increasing(t, m),
           \A k \in 1..n : \E l \in 1..m : s[k] = t[l],
           \A l \in 1..m : \E k \in 1..n : t[l] = s[k]
    PROVE  n = m /\ s = t
<1>1. n \in Nat /\ m \in Nat
  BY DEF Increasing
<1>2. \A k \in 1..n : k \in 1..m /\ s[k] = t[k]
  BY PrefixAgrees
<1>3. \A k \in 1..m : k \in 1..n /\ t[k] = s[k]
  BY PrefixAgrees
<1>4. n <= m /\ m <= n
  <2>1. n = 0 \/ n \in 1..n
    BY <1>1
  <2>2. m = 0 \/ m \in 1..m
    BY <1>1
  <2>3. n = 0 \/ n \in 1..m
    BY <1>2, <2>1
  <2>4. m = 0 \/ m \in 1..n
    BY <1>3, <2>2
  <2>. QED
    BY <1>1, <2>3, <2>4
<1>5. n = m
  BY <1>1, <1>4
<1>6. [k \in 1..n |-> s[k]] = [k \in 1..n |-> t[k]]
  BY <1>2
<1>. QED
  BY <1>5, <1>6 DEF Increasing

\* The sort gives that order, whatever order the blobs had before.
LEMMA SortedIncreasing ==
    ASSUME NEW b \in Builder, Matched(b), Stable(b)
    PROVE  /\ Increasing(SortedBlobs(b), Len(b.blobs))
           /\ \A k \in 1..Len(b.blobs) : \E j \in 1..Len(b.blobs) : SortedBlobs(b)[k] = b.blobs[j]
           /\ \A j \in 1..Len(b.blobs) : \E k \in 1..Len(b.blobs) : b.blobs[j] = SortedBlobs(b)[k]
<1>1. PICK n \in Nat : n = Len(b.blobs) /\ DOMAIN b.blobs = 1..n
  BY PfbTypes
<1>2. Spaced(b.blobs, n)
  BY <1>1, GoodElements DEF Elements
<1>3. PICK p : Sorts(p, b.blobs, n) /\ SortedBlobs(b) = [k \in 1..n |-> b.blobs[p[k]]]
  BY <1>2, SortedBy
<1>4. PICK s : s = SortedBlobs(b)
  OBVIOUS
<1>5. s = [k \in 1..n |-> s[k]] /\ \A k \in 1..n : p[k] \in 1..n /\ s[k] = b.blobs[p[k]]
  BY <1>3, <1>4 DEF Sorts
<1>6. ASSUME NEW j \in 1..n
      PROVE  b.blobs[j].ns \in Nat /\ b.blobs[j].pfb \in Nat /\ b.blobs[j].idx \in Nat
  <2>1. b.blobs[j] \in Element
    BY <1>1, SeqFacts DEF Builder
  <2>. QED
    BY <2>1 DEF Element
<1>7. ASSUME NEW k \in 1..n, NEW l \in 1..n, k < l PROVE Less(s[k], s[l])
  <2>1. PICK i \in 1..n, j \in 1..n : i = p[k] /\ j = p[l] /\ s[k] = b.blobs[i] /\ s[l] = b.blobs[j]
    BY <1>5
  <2>2. i \in Before(b.blobs, j)
    BY <1>3, <1>7, <2>1 DEF Sorts
  <2>3. \/ b.blobs[i].ns < b.blobs[j].ns
        \/ b.blobs[i].ns = b.blobs[j].ns /\ i < j
    BY <2>2 DEF Before
  <2>4. b.blobs[i].ns < b.blobs[j].ns
        \/ (b.blobs[i].ns = b.blobs[j].ns /\ Earlier(b.blobs[i], b.blobs[j]))
    BY <1>1, <2>3, Zenon DEF Stable
  <2>. QED
    BY <2>1, <2>4, Zenon DEF Less
<1>8. Increasing(s, n)
  BY <1>5, <1>6, <1>7 DEF Increasing
<1>9. ASSUME NEW j \in 1..n PROVE \E k \in 1..n : b.blobs[j] = s[k]
  <2>1. PICK k \in 1..n : p[k] = j
    BY <1>3 DEF Sorts
  <2>. QED
    BY <1>5, <2>1, Zenon
<1>. QED
  BY <1>1, <1>4, <1>5, <1>8, <1>9

\* Builders of the same blobs sort them into the same order.
LEMMA SortedSame ==
    ASSUME NEW b \in Builder, Matched(b), Stable(b), NEW c \in Builder, Matched(c), Stable(c),
           DOMAIN b.pfbs = DOMAIN c.pfbs,
           \A p \in DOMAIN b.pfbs : b.pfbs[p].blobs = c.pfbs[p].blobs
    PROVE  SortedBlobs(b) = SortedBlobs(c)
<1>1. PICK s, n : /\ s = SortedBlobs(b) /\ n = Len(b.blobs) /\ Increasing(s, n)
                  /\ \A k \in 1..n : \E j \in 1..n : s[k] = b.blobs[j]
                  /\ \A j \in 1..n : \E k \in 1..n : b.blobs[j] = s[k]
  BY SortedIncreasing
<1>2. PICK t, m : /\ t = SortedBlobs(c) /\ m = Len(c.blobs) /\ Increasing(t, m)
                  /\ \A k \in 1..m : \E j \in 1..m : t[k] = c.blobs[j]
                  /\ \A j \in 1..m : \E k \in 1..m : c.blobs[j] = t[k]
  BY SortedIncreasing
<1>3. DOMAIN b.blobs = 1..n /\ DOMAIN c.blobs = 1..m
  BY <1>1, <1>2, PfbTypes
<1>4. ASSUME NEW j \in 1..n PROVE \E l \in 1..m : b.blobs[j] = c.blobs[l]
  <2>1. PICK p \in DOMAIN b.pfbs : \E i \in DOMAIN b.pfbs[p].blobs :
            b.blobs[j] = NewElement(b.pfbs[p].blobs[i], p, i)
    <3>1. j \in DOMAIN b.blobs
      BY <1>3, Zenon
    <3>. QED
      BY <3>1, Zenon DEF Matched
  <2>2. PICK i \in DOMAIN b.pfbs[p].blobs : b.blobs[j] = NewElement(b.pfbs[p].blobs[i], p, i)
    BY <2>1
  <2>3. p \in DOMAIN c.pfbs /\ c.pfbs[p].blobs = b.pfbs[p].blobs
    OBVIOUS
  <2>4. PICK l \in 1..m : c.blobs[l] = NewElement(c.pfbs[p].blobs[i], p, i)
    <3>1. i \in DOMAIN c.pfbs[p].blobs
      BY <2>3, Zenon
    <3>2. PICK l \in DOMAIN c.blobs : c.blobs[l] = NewElement(c.pfbs[p].blobs[i], p, i)
      BY <2>3, <3>1, Zenon DEF Matched
    <3>. QED
      BY <1>3, <3>2, Zenon
  <2>. QED
    BY <2>2, <2>3, <2>4
<1>5. ASSUME NEW j \in 1..m PROVE \E l \in 1..n : c.blobs[j] = b.blobs[l]
  <2>1. PICK p \in DOMAIN c.pfbs : \E i \in DOMAIN c.pfbs[p].blobs :
            c.blobs[j] = NewElement(c.pfbs[p].blobs[i], p, i)
    <3>1. j \in DOMAIN c.blobs
      BY <1>3, Zenon
    <3>. QED
      BY <3>1, Zenon DEF Matched
  <2>2. PICK i \in DOMAIN c.pfbs[p].blobs : c.blobs[j] = NewElement(c.pfbs[p].blobs[i], p, i)
    BY <2>1
  <2>3. p \in DOMAIN b.pfbs /\ c.pfbs[p].blobs = b.pfbs[p].blobs
    OBVIOUS
  <2>4. PICK l \in 1..n : b.blobs[l] = NewElement(b.pfbs[p].blobs[i], p, i)
    <3>1. i \in DOMAIN b.pfbs[p].blobs
      BY <2>3, Zenon
    <3>2. PICK l \in DOMAIN b.blobs : b.blobs[l] = NewElement(b.pfbs[p].blobs[i], p, i)
      BY <2>3, <3>1, Zenon DEF Matched
    <3>. QED
      BY <1>3, <3>2, Zenon
  <2>. QED
    BY <2>2, <2>3, <2>4
<1>6. ASSUME NEW k \in 1..n PROVE \E l \in 1..m : s[k] = t[l]
  <2>1. PICK j \in 1..n : s[k] = b.blobs[j]
    BY <1>1
  <2>2. PICK i \in 1..m : b.blobs[j] = c.blobs[i]
    BY <1>4
  <2>3. PICK l \in 1..m : c.blobs[i] = t[l]
    BY <1>2
  <2>. QED
    BY <2>1, <2>2, <2>3
<1>7. ASSUME NEW l \in 1..m PROVE \E k \in 1..n : t[l] = s[k]
  <2>1. PICK j \in 1..m : t[l] = c.blobs[j]
    BY <1>2
  <2>2. PICK i \in 1..n : c.blobs[j] = b.blobs[i]
    BY <1>5
  <2>3. PICK k \in 1..n : b.blobs[i] = s[k]
    BY <1>1
  <2>. QED
    BY <2>1, <2>2, <2>3
<1>8. s = t
  <2>1. Increasing(s, n) /\ Increasing(t, m)
    BY <1>1, <1>2
  <2>2. /\ \A k \in 1..n : \E l \in 1..m : s[k] = t[l]
        /\ \A l \in 1..m : \E k \in 1..n : t[l] = s[k]
    BY <1>6, <1>7
  <2>. QED
    BY <2>1, <2>2, OrderUnique
<1>. QED
  BY <1>1, <1>2, <1>8

-----------------------------------------------------------------------------
(* Export *)

\* A good builder places its blobs well, within its estimate.
LEMMA GoodPlaced ==
    ASSUME NEW b, Good(b)
    PROVE  /\ WellPlaced(Placed(b), b, Len(b.blobs))
           /\ Len(b.blobs) \in Nat /\ Reserved(b) \in Nat
           /\ b.currentSize = Reserved(b) + SumSeq(Offsets(b.blobs))
<1>1. b \in Builder /\ Sized(b) /\ Matched(b)
  BY DEF Good
<1>2. Elements(b.blobs, Len(b.blobs)) /\ Reserved(b) \in Nat
  BY <1>1, GoodElements, SizedNat
<1>3. b.currentSize = Reserved(b) + SumSeq(Offsets(b.blobs))
  BY <1>1 DEF Sized
<1>. QED
  BY <1>1, <1>2, <1>3, PlacedWell, PfbTypes

\* The square has a place for every blob a PFB paid for.
LEMMA OwnPlace ==
    ASSUME NEW b, Good(b), NEW p \in DOMAIN b.pfbs, NEW i \in DOMAIN b.pfbs[p].blobs
    PROVE  \E k \in 1..Len(b.blobs) :
              /\ Placed(b)[k].element = NewElement(b.pfbs[p].blobs[i], p, i)
              /\ ShareIndexes(b.pfbs[p], p, Placed(b))[i] = Placed(b)[k].start
<1>1. b \in Builder /\ Matched(b) /\ Stable(b)
  BY DEF Good
<1>2. PICK n, pl : n = Len(b.blobs) /\ n \in Nat /\ pl = Placed(b) /\ WellPlaced(pl, b, n)
  BY GoodPlaced
<1>3. PICK s : /\ s = SortedBlobs(b)
               /\ \A k \in 1..n : \E j \in 1..n : s[k] = b.blobs[j]
               /\ \A j \in 1..n : \E k \in 1..n : b.blobs[j] = s[k]
  <2>1. /\ \A k \in 1..n : \E j \in 1..n : SortedBlobs(b)[k] = b.blobs[j]
        /\ \A j \in 1..n : \E k \in 1..n : b.blobs[j] = SortedBlobs(b)[k]
    BY <1>1, <1>2, SortedIncreasing, Zenon
  <2>. QED
    BY <2>1, Zenon
<1>4. DOMAIN pl = 1..n /\ \A k \in 1..n : pl[k].element = s[k]
  BY <1>2, <1>3 DEF WellPlaced
<1>5. DOMAIN b.blobs = 1..n /\ DOMAIN b.pfbs = 1..Len(b.pfbs) /\ Len(b.pfbs) \in Nat
  BY <1>1, <1>2, PfbTypes
<1>6. b.pfbs[p].blobs \in BlobLists /\ p \in Nat
  BY <1>1, <1>5, PfbTypes
<1>7. PICK l \in 1..n : pl[l].element = NewElement(b.pfbs[p].blobs[i], p, i)
  <2>1. PICK j \in 1..n : b.blobs[j] = NewElement(b.pfbs[p].blobs[i], p, i)
    BY <1>1, <1>5 DEF Matched
  <2>2. PICK k \in 1..n : b.blobs[j] = s[k]
    BY <1>3
  <2>. QED
    BY <1>4, <2>1, <2>2
<1>8. pl[l].element.pfb = p /\ pl[l].element.idx = i
  BY <1>6, <1>7, NewElementGood
<1>9. PICK k \in 1..n : /\ k = CHOOSE x \in DOMAIN pl : pl[x].element.pfb = p /\ pl[x].element.idx = i
                        /\ pl[k].element.pfb = p /\ pl[k].element.idx = i
  BY <1>4, <1>8
<1>10. i \in DOMAIN b.pfbs[p].indexes
  <2>1. Len(b.pfbs[p].indexes) = Len(b.pfbs[p].blobs)
    BY <1>1 DEF Matched
  <2>2. b.pfbs[p].blobs \in Seq([ns : Nat, len : Nat]) /\ b.pfbs[p].indexes \in Seq(Nat)
    BY <1>1, <1>5, <1>6, PfbTypes, SquareAssumption
  <2>3. DOMAIN b.pfbs[p].blobs = 1..Len(b.pfbs[p].blobs)
        /\ DOMAIN b.pfbs[p].indexes = 1..Len(b.pfbs[p].indexes)
    BY <2>2, SeqFacts
  <2>. QED
    BY <2>1, <2>3, Zenon
<1>11. ShareIndexes(b.pfbs[p], p, pl)[i] = pl[k].start
  BY <1>9, <1>10, Zenon DEF ShareIndexes
<1>12. pl[k].element = NewElement(b.pfbs[p].blobs[i], p, i)
  <2>1. PICK j \in 1..n : pl[k].element = b.blobs[j]
    <3>1. pl[k].element = s[k]
      BY <1>4
    <3>2. PICK j \in 1..n : s[k] = b.blobs[j]
      BY <1>3, Zenon
    <3>. QED
      BY <3>1, <3>2, Zenon
  <2>2. PICK q \in DOMAIN b.pfbs : \E r \in DOMAIN b.pfbs[q].blobs :
            b.blobs[j] = NewElement(b.pfbs[q].blobs[r], q, r)
    BY <1>1, <1>5 DEF Matched
  <2>3. PICK r \in DOMAIN b.pfbs[q].blobs : b.blobs[j] = NewElement(b.pfbs[q].blobs[r], q, r)
    BY <2>2
  <2>4. b.pfbs[q].blobs \in BlobLists /\ q \in Nat
    <3>1. q \in 1..Len(b.pfbs) /\ q \in Nat
      BY <1>5
    <3>. QED
      BY <1>1, <3>1, PfbTypes
  <2>5. b.blobs[j].pfb = q /\ b.blobs[j].idx = r
    BY <2>3, <2>4, NewElementGood
  <2>6. q = p /\ r = i
    BY <1>9, <2>1, <2>5, Zenon
  <2>. QED
    BY <2>1, <2>3, <2>6, Zenon
<1>. QED
  BY <1>2, <1>11, <1>12

\* The indexes of the square are no larger than the worst case.
LEMMA IndexesCovered ==
    ASSUME NEW b, Good(b), NEW p \in DOMAIN b.pfbs
    PROVE  LET indexes == ShareIndexes(b.pfbs[p], p, Placed(b))
           IN  /\ indexes \in Seq(Nat) /\ Len(indexes) = Len(b.pfbs[p].indexes)
               /\ WrapperSize(b.pfbs[p].len, indexes) \in Nat
               /\ WrapperSize(b.pfbs[p].len, indexes) <=
                    WrapperSize(b.pfbs[p].len, WorstCaseShareIndexes(Len(b.pfbs[p].indexes)))
<1>1. b \in Builder /\ Matched(b) /\ Sized(b)
  BY DEF Good
<1>2. PICK n, pl : n = Len(b.blobs) /\ n \in Nat /\ pl = Placed(b) /\ WellPlaced(pl, b, n)
  BY GoodPlaced
<1>3. p \in 1..Len(b.pfbs)
  BY <1>1, PfbTypes
<1>4. PICK m \in Nat, len \in Nat :
          /\ m = Len(b.pfbs[p].indexes) /\ len = b.pfbs[p].len
          /\ DOMAIN b.pfbs[p].indexes = 1..m /\ DOMAIN b.pfbs[p].blobs = 1..m
  <2>1. /\ Len(b.pfbs[p].indexes) = Len(b.pfbs[p].blobs) /\ b.pfbs[p].len \in Nat
        /\ b.pfbs[p].blobs \in Seq([ns : Nat, len : Nat]) /\ b.pfbs[p].indexes \in Seq(Nat)
    BY <1>1, <1>3, PfbTypes, SquareAssumption DEF Matched
  <2>2. DOMAIN b.pfbs[p].blobs = 1..Len(b.pfbs[p].blobs)
        /\ DOMAIN b.pfbs[p].indexes = 1..Len(b.pfbs[p].indexes)
        /\ Len(b.pfbs[p].indexes) \in Nat
    BY <2>1, SeqFacts
  <2>. QED
    BY <2>1, <2>2
<1>5. PICK indexes : indexes = ShareIndexes(b.pfbs[p], p, pl)
  OBVIOUS
<1>6. PICK top, upper \in Nat : /\ top = MaxSquareSize * MaxSquareSize
                                /\ upper = SquareSizeUpperBound * SquareSizeUpperBound
                                /\ top <= upper
  <2>1. PICK x, y \in Nat : x = MaxSquareSize /\ y = SquareSizeUpperBound /\ x <= y
    BY PowersPositive, SquareAssumption
  <2>2. x * x <= y * y /\ x * x \in Nat /\ y * y \in Nat
    <3>1. PICK d \in Nat : y = x + d
      <4>1. y - x \in Nat /\ y = x + (y - x)
        BY <2>1
      <4>. QED
        BY <4>1
    <3>2. y * y = x * x + x * d + d * x + d * d
      BY <3>1
    <3>3. x * x \in Nat /\ x * d \in Nat /\ d * x \in Nat /\ d * d \in Nat
      OBVIOUS
    <3>. QED
      BY <3>2, <3>3
  <2>. QED
    BY <2>1, <2>2
<1>7. ASSUME NEW i \in 1..m PROVE indexes[i] \in Nat /\ indexes[i] <= upper
  <2>1. PICK k \in 1..n : indexes[i] = pl[k].start
    <3>1. i \in DOMAIN b.pfbs[p].blobs
      BY <1>4
    <3>. QED
      BY <1>2, <1>5, <3>1, OwnPlace
  <2>2. PICK x, y, z \in Nat : x = pl[k].start /\ y = pl[k].end /\ z = b.currentSize
    BY <1>1, <1>2 DEF WellPlaced, Builder
  <2>3. x <= y /\ y <= z /\ z <= top
    <3>1. x <= y /\ y <= Reserved(b) + SumSeq(Offsets(b.blobs))
      BY <1>2, <2>2 DEF WellPlaced
    <3>2. z = Reserved(b) + SumSeq(Offsets(b.blobs))
      BY <2>2, GoodPlaced
    <3>3. z <= top
      BY <1>1, <1>6, <2>2 DEF Sized
    <3>. QED
      BY <3>1, <3>2, <3>3
  <2>. QED
    BY <1>6, <2>1, <2>2, <2>3
<1>8. indexes = [i \in 1..m |-> indexes[i]]
  BY <1>4, <1>5 DEF ShareIndexes
<1>9. indexes \in [1..m -> Nat]
  BY <1>7, <1>8
<1>10. indexes \in Seq(Nat) /\ Len(indexes) = m
  BY <1>9, FunctionIsSeq
<1>11. PICK worst : worst = WorstCaseShareIndexes(m)
  OBVIOUS
<1>12. worst = [i \in 1..m |-> upper]
  BY <1>6, <1>11 DEF WorstCaseShareIndexes
<1>13. Numbers(indexes, m) /\ Numbers(worst, m) /\ \A i \in 1..m : indexes[i] <= worst[i]
  BY <1>7, <1>9, <1>12 DEF Numbers
<1>14. /\ WrapperSize(len, indexes) \in Nat
       /\ WrapperSize(len, indexes) <= WrapperSize(len, worst)
  BY <1>13, WrapperGrows
<1>. QED
  BY <1>2, <1>4, <1>5, <1>10, <1>11, <1>14

\* The sum of positive numbers is positive.
LEMMA SumSeqPositive ==
    ASSUME NEW f, NEW n, Numbers(f, n), n # 0, \A i \in 1..n : f[i] >= 1
    PROVE  SumSeq(f) >= 1
<1>1. n \in Nat /\ 1 \in 1..n /\ IsFiniteSet(1..n) /\ {1} \in SUBSET (1..n)
  BY RangeFinite DEF Numbers
<1>2. \A i \in 1..n : f[i] \in Nat
  BY DEF Numbers
<1>3. SumFunctionOnSet(f, {1}) <= SumFunctionOnSet(f, 1..n)
  BY <1>1, <1>2, SumSubset
<1>4. SumFunctionOnSet(f, {1}) = f[1] /\ f[1] \in Nat /\ f[1] >= 1
  <2>1. f[1] \in Nat /\ f[1] \in Int /\ f[1] >= 1
    BY <1>1, <1>2
  <2>. QED
    BY <2>1, SumSingleton
<1>5. SumSeq(f) = SumFunctionOnSet(f, 1..n) /\ SumSeq(f) \in Nat
  BY SumSeqNat
<1>. QED
  BY <1>3, <1>4, <1>5

\* Only nothing fits into no shares.
LEMMA NoShares ==
    ASSUME NEW n \in Nat, CompactSharesNeeded(n) = 0
    PROVE  n = 0
<1>1. SUFFICES ASSUME n > 0 PROVE FALSE
  OBVIOUS
<1>2. F \in Nat \ {0} /\ C \in Nat \ {0} /\ CompactSharesNeeded(n) = SharesNeeded(n, F, C)
  BY Capacities DEF CompactSharesNeeded, F, C
<1>3. CASE n <= F
  BY <1>1, <1>2, <1>3 DEF SharesNeeded
<1>4. CASE n > F
  <2>1. PICK a \in Nat : a = n - F + C - 1
    BY <1>2, <1>4
  <2>2. PICK q \in Nat : q = a \div C
    BY <1>2, QuotRem
  <2>3. SharesNeeded(n, F, C) = 1 + q
    BY <1>1, <1>2, <1>4, <2>1, <2>2 DEF SharesNeeded
  <2>. QED
    BY <1>2, <2>3
<1>. QED
  BY <1>2, <1>3, <1>4

\* A builder that has counted nothing has no blobs.
LEMMA EmptyHasNoBlobs ==
    ASSUME NEW b, Good(b), IsEmpty(b)
    PROVE  Len(b.blobs) = 0 /\ Reserved(b) = 0
<1>1. b \in Builder /\ Sized(b) /\ Matched(b)
  BY DEF Good
<1>2. PICK w \in Nat : w = SumSeq(WorstBytes(b.pfbs))
  BY <1>1, SizedNat
<1>3. CompactSharesNeeded(w) = 0
  BY <1>1, <1>2, CounterSizeAt DEF IsEmpty, Sized
<1>4. w = 0
  BY <1>3, NoShares
<1>5. Len(b.pfbs) = 0
  <2>1. SUFFICES ASSUME Len(b.pfbs) # 0 PROVE FALSE
    OBVIOUS
  <2>2. SumSeq(WorstBytes(b.pfbs)) >= 1
    BY <1>1, <2>1, WorstBytesNumbers, SumSeqPositive
  <2>. QED
    BY <1>2, <1>4, <2>2
<1>6. DOMAIN b.pfbs = {}
  <2>1. DOMAIN b.pfbs = 1..Len(b.pfbs)
    BY <1>1, PfbTypes
  <2>. QED
    BY <1>5, <2>1
<1>7. Len(b.blobs) = 0
  <2>1. SUFFICES ASSUME Len(b.blobs) # 0 PROVE FALSE
    OBVIOUS
  <2>2. Len(b.blobs) \in Nat /\ DOMAIN b.blobs = 1..Len(b.blobs)
    BY <1>1, PfbTypes
  <2>3. 1 \in DOMAIN b.blobs
    BY <2>1, <2>2
  <2>. QED
    BY <1>1, <1>6, <2>3 DEF Matched
<1>. QED
  BY <1>7 DEF Reserved, IsEmpty

\* The wrapped PFBs take at most the bytes counted for them.
LEMMA IndexedBytes ==
    ASSUME NEW b, Good(b)
    PROVE  /\ PfbBytes(IndexedPfbs(b, Placed(b))) \in Nat
           /\ PfbBytes(IndexedPfbs(b, Placed(b))) <= SumSeq(WorstBytes(b.pfbs))
<1>1. b \in Builder
  BY DEF Good
<1>2. PICK n \in Nat : n = Len(b.pfbs) /\ DOMAIN b.pfbs = 1..n
  BY <1>1, PfbTypes
<1>. DEFINE indexes(p) == ShareIndexes(b.pfbs[p], p, Placed(b))
            real == [p \in 1..n |-> Delimited(WrapperSize(b.pfbs[p].len, indexes(p)))]
<1>3. PfbBytes(IndexedPfbs(b, Placed(b))) = SumSeq(real)
  <2>1. PICK pfbs : pfbs = IndexedPfbs(b, Placed(b))
    OBVIOUS
  <2>2. DOMAIN pfbs = 1..n
    BY <1>2, <2>1 DEF IndexedPfbs
  <2>3. ASSUME NEW p \in 1..n PROVE pfbs[p].len = b.pfbs[p].len /\ pfbs[p].indexes = indexes(p)
    <3>1. b.pfbs[p] \in Pfb
      BY <1>1, <1>2, PfbTypes
    <3>2. pfbs[p] = [b.pfbs[p] EXCEPT !.indexes = indexes(p)]
      BY <1>2, <2>1 DEF IndexedPfbs
    <3>. QED
      BY <3>1, <3>2 DEF Pfb
  <2>. HIDE DEF indexes
  <2>4. [p \in DOMAIN pfbs |-> Delimited(WrapperSize(pfbs[p].len, pfbs[p].indexes))] = real
    BY <2>2, <2>3
  <2>. HIDE DEF real
  <2>. QED
    BY <2>1, <2>4 DEF PfbBytes
<1>4. ASSUME NEW p \in 1..n
      PROVE  real[p] \in Nat /\ real[p] <= WorstBytes(b.pfbs)[p]
  <2>1. PICK x, y \in Nat :
            /\ x = WrapperSize(b.pfbs[p].len, indexes(p))
            /\ y = WrapperSize(b.pfbs[p].len, WorstCaseShareIndexes(Len(b.pfbs[p].indexes)))
            /\ x <= y
    <3>1. /\ WrapperSize(b.pfbs[p].len, indexes(p)) \in Nat
          /\ WrapperSize(b.pfbs[p].len, indexes(p)) <=
               WrapperSize(b.pfbs[p].len, WorstCaseShareIndexes(Len(b.pfbs[p].indexes)))
      BY <1>2, IndexesCovered
    <3>2. WrapperSize(b.pfbs[p].len, WorstCaseShareIndexes(Len(b.pfbs[p].indexes))) \in Nat
      <4>1. PICK m \in Nat, len \in Nat : m = Len(b.pfbs[p].indexes) /\ len = b.pfbs[p].len
        BY <1>1, <1>2, PfbTypes
      <4>2. SquareSizeUpperBound * SquareSizeUpperBound \in Nat
        <5>1. SquareSizeUpperBound \in Nat
          BY PowersPositive, SquareAssumption
        <5>. QED
          BY <5>1
      <4>3. /\ Numbers(WorstCaseShareIndexes(m), m)
            /\ \A i \in 1..m : WorstCaseShareIndexes(m)[i] <= WorstCaseShareIndexes(m)[i]
        BY <4>2 DEF Numbers, WorstCaseShareIndexes
      <4>4. WrapperSize(len, WorstCaseShareIndexes(m)) \in Nat
        BY <4>3, WrapperGrows
      <4>. QED
        BY <4>1, <4>4
    <3>. HIDE DEF indexes
    <3>. QED
      BY <3>1, <3>2
  <2>2. Delimited(x) \in Nat /\ Delimited(x) <= Delimited(y)
    BY <2>1, DelimitedNat, DelimitedMonotone
  <2>3. WorstBytes(b.pfbs)[p] = Delimited(y) /\ real[p] = Delimited(x)
    BY <1>2, <2>1 DEF WorstBytes
  <2>. QED
    BY <2>2, <2>3
<1>5. Numbers(real, n) /\ Numbers(WorstBytes(b.pfbs), n)
  <2>1. DOMAIN real = 1..n
    OBVIOUS
  <2>. HIDE DEF real
  <2>. QED
    BY <1>1, <1>2, <1>4, <2>1, WorstBytesNumbers DEF Numbers
<1>. HIDE DEF real
<1>6. SumSeq(real) \in Nat /\ SumSeq(real) <= SumSeq(WorstBytes(b.pfbs))
  BY <1>4, <1>5, SumSeqNat, SumSeqMonotone
<1>. QED
  BY <1>3, <1>6

\* None of the checks of Export fails, and the blobs are behind what is written
\* for transactions and PFBs.
LEMMA ExportCovered ==
    ASSUME NEW b, Good(b)
    PROVE  /\ ~ExportFails(b)
           /\ Placed(b) # <<>> =>
                Square(b).txShares + Square(b).pfbShares <= Placed(b)[1].start
<1>1. b \in Builder /\ Sized(b)
  BY DEF Good
<1>2. PICK n, pl : n = Len(b.blobs) /\ n \in Nat /\ pl = Placed(b) /\ WellPlaced(pl, b, n)
  BY GoodPlaced
<1>3. PICK r, size \in Nat : r = Reserved(b) /\ size = b.currentSize
  BY <1>1, SizedNat DEF Builder
<1>4. PICK x, y \in Nat : x = CounterSize(b.txCounter) /\ y = CounterSize(b.pfbCounter) /\ r = x + y
  BY <1>1, <1>3, SizedNat DEF Reserved
<1>5. PICK s : s = SquareWith(b, pl)
  OBVIOUS
<1>6. /\ s.blobs = pl
      /\ s.txShares = CompactSharesNeeded(TxBytes(b.txs))
      /\ s.pfbShares = CompactSharesNeeded(PfbBytes(IndexedPfbs(b, pl)))
      /\ s.size = IF IsEmpty(b) THEN 1 ELSE BlobMinSquareSize(size)
      /\ s.nonReservedStart = IF pl = <<>> THEN r ELSE pl[1].start
      /\ s.end = IF pl = <<>> THEN r ELSE pl[Len(pl)].end
  BY <1>3, <1>5 DEF SquareWith
<1>7. \A k \in DOMAIN s.blobs : ~(s.blobs[k].padding > s.blobs[k].element.maxPadding)
  <2>1. ASSUME NEW k \in 1..n PROVE ~(pl[k].padding > pl[k].element.maxPadding)
    BY <1>2 DEF WellPlaced
  <2>. QED
    BY <1>2, <1>6, <2>1 DEF WellPlaced
<1>8. s.txShares = x
  BY <1>1, <1>4, <1>6, SizedNat, CounterSizeAt DEF Sized
<1>9. s.pfbShares \in Nat /\ s.pfbShares <= y
  <2>1. PICK u, w \in Nat : /\ u = PfbBytes(IndexedPfbs(b, pl))
                            /\ w = SumSeq(WorstBytes(b.pfbs)) /\ u <= w
    BY <1>1, <1>2, IndexedBytes, SizedNat
  <2>2. CompactSharesNeeded(u) \in Nat /\ CompactSharesNeeded(u) <= CompactSharesNeeded(w)
    BY <2>1, CompactMonotone, CounterSizeAt
  <2>3. y = CompactSharesNeeded(w)
    BY <1>1, <1>4, <2>1, CounterSizeAt DEF Sized
  <2>. QED
    BY <1>6, <2>1, <2>2, <2>3
<1>10. n # 0 => 1 \in 1..n /\ n \in 1..n
  BY <1>2
<1>11. pl = <<>> <=> n = 0
  <2>1. Len(pl) = n /\ DOMAIN pl = 1..n
    BY <1>2 DEF WellPlaced
  <2>2. pl = <<>> => n = 0
    BY <2>1
  <2>3. ASSUME n = 0 PROVE pl = <<>>
    <3>1. pl = [k \in 1..n |-> pl[k]]
      BY <1>2 DEF Placed, PlacedWith, WellPlaced
    <3>. QED
      BY <2>3, <3>1, EmptyFunction, Zenon
  <2>. QED
    BY <2>2, <2>3
<1>12. s.nonReservedStart \in Nat /\ r <= s.nonReservedStart
  BY <1>2, <1>3, <1>6, <1>10, <1>11 DEF WellPlaced
<1>13. s.end \in Nat /\ s.end <= size
  <2>1. size = r + SumSeq(Offsets(b.blobs)) /\ SumSeq(Offsets(b.blobs)) \in Nat
    BY <1>1, <1>3, GoodPlaced, SizedNat DEF Sized
  <2>2. CASE n = 0
    BY <1>3, <1>6, <1>11, <2>1, <2>2
  <2>3. CASE n # 0
    BY <1>2, <1>3, <1>6, <1>10, <1>11, <2>1, <2>3 DEF WellPlaced
  <2>. QED
    BY <2>2, <2>3
<1>14. ~(s.size * s.size < s.end)
  <2>1. CASE IsEmpty(b)
    <3>1. n = 0 /\ r = 0
      BY <1>2, <1>3, <2>1, EmptyHasNoBlobs
    <3>2. s.size = 1 /\ s.end = 0
      BY <1>6, <1>11, <2>1, <3>1
    <3>. QED
      BY <3>2
  <2>2. CASE ~IsEmpty(b)
    <3>1. size <= MaxSquareSize * MaxSquareSize
      BY <1>1, <1>3 DEF Sized
    <3>2. PICK w \in Nat : w = BlobMinSquareSize(size) /\ w * w >= size
      BY <3>1, SquareHolds
    <3>3. s.size = w
      BY <1>6, <2>2, <3>2
    <3>4. w * w \in Nat
      OBVIOUS
    <3>. QED
      BY <1>13, <3>2, <3>3, <3>4
  <2>. QED
    BY <2>1, <2>2
<1>15. ~(CounterSize(b.pfbCounter) < s.pfbShares)
  BY <1>4, <1>9
<1>16. ~(s.nonReservedStart < s.txShares + s.pfbShares)
       /\ s.txShares + s.pfbShares <= s.nonReservedStart
  BY <1>4, <1>8, <1>9, <1>12
<1>17. s = Square(b)
  BY <1>2, <1>5 DEF Square
<1>18. ~ExportFails(b)
  BY <1>7, <1>14, <1>15, <1>16, <1>17 DEF ExportFails
<1>19. pl # <<>> => s.txShares + s.pfbShares <= pl[1].start
  BY <1>6, <1>16
<1>. QED
  BY <1>2, <1>17, <1>18, <1>19, Zenon

\* Export sorts the blobs and records their indexes.
LEMMA ExportedGood ==
    ASSUME NEW b, Good(b)
    PROVE  Good(Exported(b))
<1>1. b \in Builder /\ Sized(b) /\ Matched(b) /\ Stable(b)
  BY DEF Good
<1>2. CASE IsEmpty(b)
  BY <1>2 DEF Exported
<1>3. CASE ~IsEmpty(b)
  <2>1. PICK s : s = SortedBlobs(b)
    OBVIOUS
  <2>2. PICK pfbs : pfbs = IndexedPfbs(b, Placed(b))
    OBVIOUS
  <2>3. PICK m \in Nat : m = Len(b.pfbs) /\ DOMAIN b.pfbs = 1..m
    BY <1>1, PfbTypes
  <2>4. PICK n \in Nat : n = Len(b.blobs) /\ DOMAIN b.blobs = 1..n
    BY <1>1, PfbTypes
  <2>5. /\ Increasing(s, n)
        /\ \A k \in 1..n : \E j \in 1..n : s[k] = b.blobs[j]
        /\ \A j \in 1..n : \E k \in 1..n : b.blobs[j] = s[k]
    <3>1. /\ Increasing(SortedBlobs(b), Len(b.blobs))
          /\ \A k \in 1..Len(b.blobs) : \E j \in 1..Len(b.blobs) : SortedBlobs(b)[k] = b.blobs[j]
          /\ \A j \in 1..Len(b.blobs) : \E k \in 1..Len(b.blobs) : b.blobs[j] = SortedBlobs(b)[k]
      BY <1>1, SortedIncreasing
    <3>. QED
      BY <2>1, <2>4, <3>1, Zenon
  <2>6. s \in Seq(Element) /\ DOMAIN s = 1..n
    <3>1. \A j \in 1..n : b.blobs[j] \in Element
      BY <1>1, <2>4, SeqFacts DEF Builder
    <3>2. \A k \in 1..n : s[k] \in Element
      BY <2>5, <3>1
    <3>3. s = [k \in 1..n |-> s[k]]
      BY <2>5 DEF Increasing
    <3>4. s \in [1..n -> Element]
      BY <3>2, <3>3
    <3>. QED
      BY <3>4, FunctionIsSeq
  <2>7. ASSUME NEW p \in 1..m
        PROVE  /\ pfbs[p] \in Pfb
               /\ pfbs[p].len = b.pfbs[p].len /\ pfbs[p].blobs = b.pfbs[p].blobs
               /\ pfbs[p].indexes = ShareIndexes(b.pfbs[p], p, Placed(b))
               /\ Len(pfbs[p].indexes) = Len(b.pfbs[p].indexes)
    <3>1. b.pfbs[p] \in Pfb
      BY <1>1, <2>3, PfbTypes
    <3>2. PICK indexes : indexes = ShareIndexes(b.pfbs[p], p, Placed(b))
      OBVIOUS
    <3>3. indexes \in Seq(Nat) /\ Len(indexes) = Len(b.pfbs[p].indexes)
      BY <2>3, <3>2, IndexesCovered
    <3>4. pfbs[p] = [b.pfbs[p] EXCEPT !.indexes = indexes]
      BY <2>2, <2>3, <3>2 DEF IndexedPfbs
    <3>. QED
      BY <3>1, <3>2, <3>3, <3>4 DEF Pfb
  <2>8. pfbs \in Seq(Pfb) /\ DOMAIN pfbs = 1..m /\ Len(pfbs) = m
    <3>1. pfbs = [p \in 1..m |-> pfbs[p]]
      BY <2>2, <2>3 DEF IndexedPfbs
    <3>2. pfbs \in [1..m -> Pfb]
      BY <2>7, <3>1
    <3>. QED
      BY <3>2, FunctionIsSeq
  <2>9. PICK c : c = [b EXCEPT !.blobs = s, !.done = TRUE, !.pfbs = pfbs]
    OBVIOUS
  <2>10. c = Exported(b)
    BY <1>3, <2>1, <2>2, <2>9 DEF Exported
  <2>11. /\ c \in Builder /\ c.txs = b.txs /\ c.pfbs = pfbs /\ c.blobs = s
         /\ c.txCounter = b.txCounter /\ c.pfbCounter = b.pfbCounter
         /\ c.currentSize = b.currentSize /\ c.done = TRUE
    BY <1>1, <2>6, <2>8, <2>9 DEF Builder
  <2>12. Matched(c)
    <3>1. \A p \in 1..m : Len(pfbs[p].indexes) = Len(pfbs[p].blobs)
      BY <1>1, <2>3, <2>7 DEF Matched
    <3>2. ASSUME NEW k \in 1..n
          PROVE  \E p \in 1..m : \E i \in DOMAIN pfbs[p].blobs :
                    s[k] = NewElement(pfbs[p].blobs[i], p, i)
      <4>1. PICK j \in 1..n : s[k] = b.blobs[j]
        BY <2>5
      <4>2. PICK p \in 1..m : \E i \in DOMAIN b.pfbs[p].blobs :
                b.blobs[j] = NewElement(b.pfbs[p].blobs[i], p, i)
        BY <1>1, <2>3, <2>4 DEF Matched
      <4>. QED
        BY <2>7, <4>1, <4>2
    <3>3. ASSUME NEW p \in 1..m, NEW i \in DOMAIN pfbs[p].blobs
          PROVE  \E k \in 1..n : s[k] = NewElement(pfbs[p].blobs[i], p, i)
      <4>1. i \in DOMAIN b.pfbs[p].blobs /\ p \in DOMAIN b.pfbs /\ pfbs[p].blobs = b.pfbs[p].blobs
        BY <2>3, <2>7
      <4>2. PICK j \in 1..n : b.blobs[j] = NewElement(b.pfbs[p].blobs[i], p, i)
        BY <1>1, <2>4, <4>1 DEF Matched
      <4>3. PICK k \in 1..n : b.blobs[j] = s[k]
        BY <2>5
      <4>. QED
        BY <4>1, <4>2, <4>3
    <3>4. /\ DOMAIN c.pfbs = 1..m /\ DOMAIN c.blobs = 1..n
          /\ c.pfbs = pfbs /\ c.blobs = s
      BY <2>6, <2>8, <2>11
    <3>5. /\ \A k \in DOMAIN s : \E p \in DOMAIN pfbs : \E i \in DOMAIN pfbs[p].blobs :
                s[k] = NewElement(pfbs[p].blobs[i], p, i)
          /\ \A p \in DOMAIN pfbs : \A i \in DOMAIN pfbs[p].blobs : \E k \in DOMAIN s :
                s[k] = NewElement(pfbs[p].blobs[i], p, i)
      <4>1. DOMAIN s = 1..n /\ DOMAIN pfbs = 1..m
        BY <3>4, Zenon
      <4>2. ASSUME NEW k \in DOMAIN s
            PROVE  \E p \in DOMAIN pfbs : \E i \in DOMAIN pfbs[p].blobs :
                      s[k] = NewElement(pfbs[p].blobs[i], p, i)
        <5>1. k \in 1..n
          BY <4>1, Zenon
        <5>2. PICK p \in 1..m : \E i \in DOMAIN pfbs[p].blobs :
                  s[k] = NewElement(pfbs[p].blobs[i], p, i)
          BY <3>2, <5>1, Zenon
        <5>3. p \in DOMAIN pfbs
          BY <4>1, Zenon
        <5>. QED
          BY <5>2, <5>3, Zenon
      <4>3. ASSUME NEW p \in DOMAIN pfbs, NEW i \in DOMAIN pfbs[p].blobs
            PROVE  \E k \in DOMAIN s : s[k] = NewElement(pfbs[p].blobs[i], p, i)
        <5>1. p \in 1..m
          BY <4>1, Zenon
        <5>2. PICK k \in 1..n : s[k] = NewElement(pfbs[p].blobs[i], p, i)
          BY <3>3, <5>1, Zenon
        <5>3. k \in DOMAIN s
          BY <4>1, Zenon
        <5>. QED
          BY <5>2, <5>3, Zenon
      <4>. QED
        BY <4>2, <4>3, Zenon
    <3>6. \A p \in DOMAIN c.pfbs : Len(c.pfbs[p].indexes) = Len(c.pfbs[p].blobs)
      BY <3>1, <3>4
    <3>7. \A k \in DOMAIN c.blobs : \E p \in DOMAIN c.pfbs : \E i \in DOMAIN c.pfbs[p].blobs :
             c.blobs[k] = NewElement(c.pfbs[p].blobs[i], p, i)
      BY <3>4, <3>5, Zenon
    <3>8. \A p \in DOMAIN c.pfbs : \A i \in DOMAIN c.pfbs[p].blobs : \E k \in DOMAIN c.blobs :
             c.blobs[k] = NewElement(c.pfbs[p].blobs[i], p, i)
      BY <3>4, <3>5, Zenon
    <3>. QED
      BY <3>6, <3>7, <3>8, Zenon DEF Matched
  <2>13. Stable(c)
    <3>1. ASSUME NEW j \in 1..n, NEW k \in 1..n, j < k, s[j].ns = s[k].ns
          PROVE  Earlier(s[j], s[k])
      <4>1. Less(s[j], s[k]) /\ s[j].ns \in Nat /\ s[k].ns \in Nat
        BY <2>5, <3>1 DEF Increasing
      <4>2. ~(s[j].ns < s[k].ns)
        BY <3>1, <4>1
      <4>. QED
        BY <4>1, <4>2, Zenon DEF Less
    <3>. QED
      BY <2>6, <2>11, <3>1 DEF Stable
  <2>14. WorstBytes(c.pfbs) = WorstBytes(b.pfbs) /\ SetAside(c.pfbs) = SetAside(b.pfbs)
    BY <2>3, <2>7, <2>8, <2>11 DEF WorstBytes, SetAside
  <2>15. SumSeq(Offsets(s)) = SumSeq(Offsets(b.blobs))
    BY <1>1, <2>1, GoodElements, SortedElements
  <2>16. Reserved(c) = Reserved(b)
    BY <2>11 DEF Reserved
  <2>17. Sized(c)
    BY <1>1, <2>11, <2>14, <2>15, <2>16 DEF Sized
  <2>18. SortedBlobs(c) = SortedBlobs(b)
    <3>1. DOMAIN c.pfbs = DOMAIN b.pfbs /\ \A p \in DOMAIN c.pfbs : c.pfbs[p].blobs = b.pfbs[p].blobs
      BY <2>3, <2>7, <2>8, <2>11
    <3>. QED
      BY <1>1, <2>11, <2>12, <2>13, <3>1, SortedSame
  <2>19. Placed(c) = Placed(b)
    BY <2>16, <2>18 DEF Placed
  <2>20. Pointed(c)
    <3>1. ASSUME NEW p \in 1..m
          PROVE  pfbs[p].indexes = ShareIndexes(pfbs[p], p, Placed(c))
      <4>1. DOMAIN pfbs[p].indexes = DOMAIN b.pfbs[p].indexes
        BY <2>7 DEF ShareIndexes
      <4>2. ShareIndexes(pfbs[p], p, Placed(b)) = ShareIndexes(b.pfbs[p], p, Placed(b))
        BY <4>1 DEF ShareIndexes
      <4>. QED
        BY <2>7, <2>19, <4>2
    <3>. QED
      BY <2>8, <2>11, <3>1 DEF Pointed
  <2>. QED
    BY <2>10, <2>11, <2>12, <2>13, <2>17, <2>20 DEF Good
<1>. QED
  BY <1>2, <1>3

\* A new builder is good.
LEMMA EmptyGood == Good(EmptyBuilder)
<1>1. PICK b : b = EmptyBuilder
  OBVIOUS
<1>2. /\ b.txs = <<>> /\ b.pfbs = <<>> /\ b.blobs = <<>> /\ b.txCounter = EmptyCounter
      /\ b.pfbCounter = EmptyCounter /\ b.currentSize = 0 /\ b.done = FALSE
  BY <1>1 DEF EmptyBuilder
<1>3. EmptyCounter = CounterAt(0) /\ EmptyCounter \in Counter /\ CounterSize(EmptyCounter) = 0
  <2>1. 0 \in Nat /\ CounterAt(0) \in Counter
    BY CounterAtCounter
  <2>. QED
    BY <2>1, EmptyCounterAt DEF CounterSize, EmptyCounter
<1>4. b \in Builder
  BY <1>1, <1>3 DEF EmptyBuilder, Builder
<1>5. DOMAIN b.pfbs = {} /\ DOMAIN b.blobs = {} /\ DOMAIN b.txs = {}
  BY <1>2
<1>6. ASSUME NEW f, DOMAIN f = {} PROVE SumSeq(f) = 0
  <2>1. Numbers(f, 0)
    BY <1>6 DEF Numbers
  <2>. QED
    BY <2>1, SumSeqEmpty
<1>7. /\ TxBytes(b.txs) = 0 /\ SumSeq(WorstBytes(b.pfbs)) = 0 /\ SumSeq(SetAside(b.pfbs)) = 0
      /\ SumSeq(Offsets(b.blobs)) = 0
  <2>1. DOMAIN UnitBytes(b.txs) = {} /\ TxBytes(b.txs) = SumSeq(UnitBytes(b.txs))
    BY <1>5 DEF UnitBytes, TxBytes
  <2>2. DOMAIN WorstBytes(b.pfbs) = {}
    BY <1>5 DEF WorstBytes
  <2>3. DOMAIN SetAside(b.pfbs) = {}
    BY <1>5 DEF SetAside
  <2>4. DOMAIN Offsets(b.blobs) = {}
    BY <1>5 DEF Offsets
  <2>. QED
    BY <1>6, <2>1, <2>2, <2>3, <2>4
<1>8. 0 <= MaxSquareSize * MaxSquareSize
  <2>1. MaxSquareSize \in Nat
    BY PowersPositive, SquareAssumption
  <2>. QED
    BY <2>1
<1>9. Sized(b)
  <2>1. Reserved(b) = 0
    BY <1>2, <1>3 DEF Reserved
  <2>. QED
    BY <1>2, <1>3, <1>7, <1>8, <2>1 DEF Sized
<1>10. Matched(b) /\ Stable(b) /\ Pointed(b)
  BY <1>2, <1>5 DEF Matched, Stable, Pointed
<1>. QED
  BY <1>1, <1>4, <1>9, <1>10 DEF Good

-----------------------------------------------------------------------------
(* Subtrees of the commitments *)

\* a is a multiple of d.
Multiple(a, d) == \E q \in Nat : a = d * q

\* The smaller of two powers of two divides the larger.
LEMMA PowersDivide ==
    ASSUME NEW p \in Powers, NEW q \in Powers, p <= q
    PROVE  Multiple(q, p)
<1>1. PICK i \in 0..MaxPower : p = PowerOfTwo[i]
  BY DEF Powers
<1>2. PICK j \in 0..MaxPower : q = PowerOfTwo[j]
  BY DEF Powers
<1>3. MaxPower \in Nat /\ p \in Nat \ {0} /\ q \in Nat \ {0}
  BY <1>1, <1>2, PowerSteps
<1>4. ASSUME NEW a \in 0..MaxPower, NEW b \in 0..MaxPower, a <= b
      PROVE  Multiple(PowerOfTwo[b], PowerOfTwo[a])
  <2>. DEFINE G == {k \in 0..MaxPower : k >= a => Multiple(PowerOfTwo[k], PowerOfTwo[a])}
  <2>1. Multiple(PowerOfTwo[a], PowerOfTwo[a])
    <3>1. PowerOfTwo[a] = PowerOfTwo[a] * 1 /\ 1 \in Nat
      BY PowerSteps
    <3>. QED
      BY <3>1, Zenon DEF Multiple
  <2>2. 0 \in G
    <3>1. 0 >= a => a = 0
      BY <1>3
    <3>2. 0 \in 0..MaxPower
      BY <1>3
    <3>. QED
      BY <2>1, <3>1, <3>2
  <2>3. ASSUME NEW k \in 1..MaxPower, k - 1 \in G PROVE k \in G
    <3>1. k \in 0..MaxPower
      BY <1>3
    <3>2. CASE k < a
      BY <3>1, <3>2
    <3>3. CASE k = a
      BY <2>1, <3>1, <3>3
    <3>4. CASE k > a
      <4>1. k - 1 \in 0..MaxPower /\ k - 1 >= a
        BY <1>3, <3>4
      <4>2. PICK d \in Nat : PowerOfTwo[k - 1] = PowerOfTwo[a] * d
        BY <2>3, <4>1 DEF Multiple
      <4>3. PICK x, y \in Nat : x = PowerOfTwo[a] /\ y = PowerOfTwo[k - 1] /\ y = x * d
        BY <4>1, <4>2, PowerSteps
      <4>4. 2 * y = x * (2 * d) /\ 2 * d \in Nat
        BY <4>3
      <4>5. PowerOfTwo[k] = 2 * y
        BY <4>3, PowerSteps
      <4>6. Multiple(PowerOfTwo[k], PowerOfTwo[a])
        BY <4>3, <4>4, <4>5, Zenon DEF Multiple
      <4>. QED
        BY <3>1, <4>6
    <3>. QED
      BY <1>3, <3>1, <3>2, <3>3, <3>4
  <2>4. \A k \in 0..MaxPower : k \in G
    <3>. HIDE DEF G
    <3>. QED
      BY <1>3, <2>2, <2>3, RangeInduction
  <2>. QED
    BY <1>4, <2>4
<1>5. CASE i <= j
  BY <1>1, <1>2, <1>4, <1>5
<1>6. CASE j < i
  <2>1. PICK d \in Nat : p = q * d
    BY <1>1, <1>2, <1>3, <1>4, <1>6 DEF Multiple
  <2>2. d # 0
    BY <1>3, <2>1
  <2>3. q * d >= q
    BY <1>3, <2>2
  <2>4. q = p * 1 /\ 1 \in Nat
    BY <1>3, <2>1, <2>3
  <2>. QED
    BY <2>4, Zenon DEF Multiple
<1>. QED
  BY <1>3, <1>5, <1>6

\* The last power is the largest.
LEMMA PowersTop == \A k \in 0..MaxPower : PowerOfTwo[k] <= PowerOfTwo[MaxPower]
<1>1. MaxPower \in Nat
  BY PowerSteps
<1>2. ASSUME NEW k \in 1..MaxPower PROVE PowerOfTwo[k - 1] <= PowerOfTwo[k]
  <2>1. k - 1 \in 0..MaxPower
    BY <1>1
  <2>. QED
    BY <2>1, PowerSteps
<1>3. PICK f : f = [k \in 0..MaxPower |-> PowerOfTwo[k]]
  OBVIOUS
<1>4. f \in [0..MaxPower -> Nat] /\ \A k \in 0..MaxPower : f[k] = PowerOfTwo[k]
  BY <1>3, PowerSteps
<1>5. ASSUME NEW k \in 1..MaxPower PROVE f[k - 1] <= f[k]
  <2>1. k \in 0..MaxPower /\ k - 1 \in 0..MaxPower
    BY <1>1
  <2>2. f[k] = PowerOfTwo[k] /\ f[k - 1] = PowerOfTwo[k - 1]
    BY <1>4, <2>1, Zenon
  <2>. QED
    BY <1>2, <2>2
<1>6. \A k \in 0..MaxPower : \A j \in 0..k : f[j] <= f[k]
  BY <1>1, <1>4, <1>5, StepsMonotone
<1>. QED
  BY <1>1, <1>4, <1>6

\* Sums of multiples are multiples.
LEMMA MultipleSum ==
    ASSUME NEW a, NEW b, NEW d \in Nat, Multiple(a, d), Multiple(b, d)
    PROVE  Multiple(a + b, d)
<1>1. PICK x \in Nat : a = d * x
  BY DEF Multiple
<1>2. PICK y \in Nat : b = d * y
  BY DEF Multiple
<1>3. a + b = d * (x + y) /\ x + y \in Nat
  BY <1>1, <1>2
<1>. QED
  BY <1>3, Zenon DEF Multiple

\* Multiples of multiples are multiples.
LEMMA MultipleTrans ==
    ASSUME NEW a, NEW b, NEW d \in Nat, Multiple(a, b), Multiple(b, d)
    PROVE  Multiple(a, d)
<1>1. PICK x \in Nat : a = b * x
  BY DEF Multiple
<1>2. PICK y \in Nat : b = d * y
  BY DEF Multiple
<1>3. a = d * (y * x) /\ y * x \in Nat
  BY <1>1, <1>2
<1>. QED
  BY <1>3, Zenon DEF Multiple

\* Multiples leave no remainder, and only they.
LEMMA MultipleRem ==
    ASSUME NEW a \in Nat, NEW d \in Nat \ {0}
    PROVE  Multiple(a, d) <=> a % d = 0
<1>1. ASSUME Multiple(a, d) PROVE a % d = 0
  <2>1. PICK q \in Nat : a = d * q
    BY <1>1 DEF Multiple
  <2>2. 0 \in 0..(d - 1) /\ a = d * q + 0
    BY <2>1
  <2>. QED
    BY <2>2, QuotUnique
<1>2. ASSUME a % d = 0 PROVE Multiple(a, d)
  <2>1. PICK q \in Nat, r \in 0..(d - 1) : r = a % d /\ a = d * q + r
    BY QuotRem
  <2>2. a = d * q
    BY <1>2, <2>1
  <2>. QED
    BY <2>2, Zenon DEF Multiple
<1>. QED
  BY <1>1, <1>2

\* A subtree that starts at a multiple of its size lies in one row, if the rows
\* have a multiple of its size too.
LEMMA OneRow ==
    ASSUME NEW a \in Nat, NEW size \in Nat \ {0}, NEW width \in Nat \ {0},
           Multiple(a, size), Multiple(width, size)
    PROVE  a % size = 0 /\ a \div width = (a + size - 1) \div width
<1>1. PICK q \in Nat : a = size * q
  BY DEF Multiple
<1>2. PICK e \in Nat : width = size * e
  BY DEF Multiple
<1>3. e # 0
  BY <1>2
<1>4. PICK x \in Nat, y \in 0..(e - 1) : q = e * x + y
  <2>1. /\ q \div e \in Nat /\ q % e \in 0..(e - 1)
        /\ q = e * (q \div e) + (q % e)
    BY <1>3
  <2>. QED
    BY <2>1, Zenon
<1>5. PICK r \in Nat : r = size * y
  BY <1>4
<1>6. a = width * x + r
  <2>1. size * (e * x + y) = (size * e) * x + size * y
    OBVIOUS
  <2>. QED
    BY <1>1, <1>2, <1>4, <1>5, <2>1
<1>7. r + size <= width
  <2>1. PICK z \in Nat : e = y + 1 + z
    <3>1. e - y - 1 \in Nat /\ e = y + 1 + (e - y - 1)
      BY <1>3
    <3>. QED
      BY <3>1
  <2>2. size * e = size * y + size + size * z /\ size * z \in Nat
    BY <2>1
  <2>. QED
    BY <1>2, <1>5, <2>2
<1>8. r \in 0..(width - 1) /\ r + size - 1 \in 0..(width - 1)
  BY <1>5, <1>7
<1>9. a \div width = x
  BY <1>6, <1>8, QuotUnique
<1>10. (a + size - 1) \div width = x
  <2>1. PICK b \in Nat, t \in 0..(width - 1) : b = a + size - 1 /\ t = r + size - 1
    BY <1>8
  <2>2. width * x \in Nat
    OBVIOUS
  <2>3. b = width * x + t
    BY <1>6, <2>1, <2>2
  <2>. QED
    BY <2>1, <2>3, QuotUnique
<1>. QED
  BY <1>9, <1>10, MultipleRem

\* The leaves under a tree.
Under(t) == t.offset..(t.offset + t.size - 1)

\* Trees cover the leaves from lo to hi, each once.
Tiles(trees, lo, hi) ==
    /\ lo \in Nat /\ hi \in Nat /\ lo <= hi
    /\ \A t \in trees : t.offset \in Nat /\ t.size \in Nat
    /\ \A t \in trees : \A x \in Under(t) : lo <= x /\ x < hi
    /\ \A x \in lo..(hi - 1) : \E t \in trees : x \in Under(t)
    /\ \A t, u \in trees : t # u => Under(t) \cap Under(u) = {}

\* No trees cover no leaves.
LEMMA TilesNone == ASSUME NEW a \in Nat PROVE Tiles({}, a, a)
<1>1. a..(a - 1) = {}
  OBVIOUS
<1>. QED
  BY <1>1 DEF Tiles

\* One tree covers its own leaves.
LEMMA TilesOne ==
    ASSUME NEW a \in Nat, NEW size \in Nat, NEW c, c = a + size
    PROVE  Tiles({[offset |-> a, size |-> size]}, a, c)
<1>1. PICK t : t = [offset |-> a, size |-> size]
  OBVIOUS
<1>2. t.offset = a /\ t.size = size /\ Under(t) = a..(a + size - 1)
  BY <1>1 DEF Under
<1>3. c \in Nat /\ a <= c
  OBVIOUS
<1>4. \A x \in Under(t) : a <= x /\ x < c
  BY <1>2
<1>5. \A x \in a..(c - 1) : x \in Under(t)
  BY <1>2
<1>. QED
  BY <1>1, <1>2, <1>3, <1>4, <1>5 DEF Tiles

\* Trees over adjacent ranges cover both.
LEMMA TilesJoin ==
    ASSUME NEW T, NEW U, NEW lo, NEW mid, NEW hi, Tiles(T, lo, mid), Tiles(U, mid, hi)
    PROVE  Tiles(T \cup U, lo, hi)
<1>1. lo \in Nat /\ mid \in Nat /\ hi \in Nat /\ lo <= mid /\ mid <= hi
  BY DEF Tiles
<1>2. \A t \in T \cup U : t.offset \in Nat /\ t.size \in Nat
  BY DEF Tiles
<1>3. ASSUME NEW t \in T \cup U, NEW x \in Under(t) PROVE lo <= x /\ x < hi
  <2>1. x \in Int
    BY <1>2 DEF Under
  <2>2. CASE t \in T
    <3>1. lo <= x /\ x < mid
      BY <2>2 DEF Tiles
    <3>. QED
      BY <1>1, <2>1, <3>1
  <2>3. CASE t \in U
    <3>1. mid <= x /\ x < hi
      BY <2>3 DEF Tiles
    <3>. QED
      BY <1>1, <2>1, <3>1
  <2>. QED
    BY <2>2, <2>3
<1>4. ASSUME NEW x \in lo..(hi - 1) PROVE \E t \in T \cup U : x \in Under(t)
  <2>1. CASE x < mid
    <3>1. x \in lo..(mid - 1)
      BY <1>1, <2>1
    <3>. QED
      BY <3>1 DEF Tiles
  <2>2. CASE x >= mid
    <3>1. x \in mid..(hi - 1)
      BY <1>1, <2>2
    <3>. QED
      BY <3>1 DEF Tiles
  <2>. QED
    BY <1>1, <2>1, <2>2
<1>5. ASSUME NEW t \in T, NEW u \in U PROVE Under(t) \cap Under(u) = {}
  <2>1. SUFFICES ASSUME NEW x \in Under(t), x \in Under(u) PROVE FALSE
    OBVIOUS
  <2>2. x \in Int
    BY <1>2 DEF Under
  <2>3. x < mid
    BY DEF Tiles
  <2>4. mid <= x
    BY <2>1 DEF Tiles
  <2>. QED
    BY <1>1, <2>2, <2>3, <2>4
<1>6. ASSUME NEW t \in T \cup U, NEW u \in T \cup U, t # u
      PROVE  Under(t) \cap Under(u) = {}
  <2>1. CASE t \in T /\ u \in T
    BY <1>6, <2>1 DEF Tiles
  <2>2. CASE t \in U /\ u \in U
    BY <1>6, <2>2 DEF Tiles
  <2>3. CASE t \in T /\ u \in U
    BY <1>5, <2>3
  <2>4. CASE t \in U /\ u \in T
    <3>1. Under(u) \cap Under(t) = {}
      BY <1>5, <2>4
    <3>. QED
      BY <3>1
  <2>. QED
    BY <2>1, <2>2, <2>3, <2>4
<1>. QED
  BY <1>1, <1>2, <1>3, <1>4, <1>6 DEF Tiles

\* As many trees of width w as fit.
WholeTrees(m, w) == {[offset |-> i * w, size |-> w] : i \in 0..(m - 1)}

\* Whole trees one after the other cover a multiple of their width.
LEMMA WholeTreesTile ==
    ASSUME NEW m \in Nat, NEW w \in Nat
    PROVE  Tiles(WholeTrees(m, w), 0, m * w)
<1>. DEFINE G == {k \in 0..m : Tiles(WholeTrees(k, w), 0, k * w)}
<1>1. 0 \in G
  <2>1. WholeTrees(0, w) = {}
    BY DEF WholeTrees
  <2>2. 0 * w = 0 /\ 0 \in 0..m
    OBVIOUS
  <2>. QED
    BY <2>1, <2>2, TilesNone
<1>2. ASSUME NEW k \in 1..m, k - 1 \in G PROVE k \in G
  <2>1. PICK j \in Nat : j = k - 1 /\ k = j + 1 /\ k \in 0..m
    OBVIOUS
  <2>2. PICK a, c \in Nat : a = j * w /\ c = k * w /\ c = a + w
    BY <2>1
  <2>3. Tiles({[offset |-> a, size |-> w]}, a, c)
    BY <2>2, TilesOne
  <2>4. Tiles(WholeTrees(j, w), 0, a)
    BY <1>2, <2>1, <2>2
  <2>5. WholeTrees(k, w) = WholeTrees(j, w) \cup {[offset |-> a, size |-> w]}
    <3>1. 0..(k - 1) = 0..(j - 1) \cup {j}
      BY <2>1
    <3>. QED
      BY <2>2, <3>1, Zenon DEF WholeTrees
  <2>6. Tiles(WholeTrees(k, w), 0, c)
    BY <2>3, <2>4, <2>5, TilesJoin
  <2>. QED
    BY <2>1, <2>2, <2>6
<1>3. \A k \in 0..m : k \in G
  <2>. HIDE DEF G
  <2>. QED
    BY <1>1, <1>2, RangeInduction
<1>4. m \in 0..m
  OBVIOUS
<1>. QED
  BY <1>3, <1>4

\* What rest has above its lower digits.
Above(rest, p) == (rest \div p) * p

\* One more digit of rest: what is above it, and its tree in between.
LEMMA DigitAbove ==
    ASSUME NEW rest \in Nat, NEW p \in Nat \ {0}
    PROVE  /\ Above(rest, p) \in Nat /\ Above(rest, 2 * p) \in Nat
           /\ Above(rest, p) <= rest
           /\ (rest \div p) % 2 = 1 => Above(rest, p) = Above(rest, 2 * p) + p
           /\ (rest \div p) % 2 # 1 => Above(rest, p) = Above(rest, 2 * p)
<1>1. PICK a \in Nat, r \in 0..(p - 1) : a = rest \div p /\ rest = p * a + r
  BY QuotRem
<1>2. PICK c \in Nat, d \in 0..1 : d = a % 2 /\ a = 2 * c + d
  BY QuotRem
<1>3. rest \div (2 * p) = c
  <2>1. PICK t \in Nat : t = p * d + r
    BY <1>1, <1>2
  <2>2. t \in 0..(2 * p - 1)
    BY <1>1, <1>2, <2>1
  <2>3. rest = (2 * p) * c + t
    <3>1. PICK x, y, z \in Nat : x = p * a /\ y = (2 * p) * c /\ z = p * d
      BY <1>2
    <3>2. x = y + z
      BY <1>2, <3>1
    <3>. QED
      BY <1>1, <2>1, <3>1, <3>2
  <2>4. 2 * p \in Nat \ {0}
    OBVIOUS
  <2>. QED
    BY <2>2, <2>3, <2>4, QuotUnique
<1>4. Above(rest, p) = a * p /\ Above(rest, 2 * p) = c * (2 * p)
  BY <1>1, <1>3 DEF Above
<1>5. a * p = c * (2 * p) + d * p
  BY <1>2
<1>6. a * p \in Nat /\ c * (2 * p) \in Nat /\ a * p <= rest
  <2>1. a * p = p * a /\ p * a \in Nat
    OBVIOUS
  <2>2. c * (2 * p) \in Nat
    OBVIOUS
  <2>. QED
    BY <1>1, <2>1, <2>2
<1>7. d = 1 => d * p = p
  OBVIOUS
<1>8. d # 1 => d * p = 0
  OBVIOUS
<1>. QED
  BY <1>1, <1>2, <1>4, <1>5, <1>6, <1>7, <1>8

\* The tree of one digit of rest, and those of its lowest k digits.
DigitTree(n, rest, p) == [offset |-> n - rest + (rest \div (2 * p)) * (2 * p), size |-> p]
DigitTrees(n, rest, k) ==
    {DigitTree(n, rest, PowerOfTwo[j]) : j \in {i \in 0..(k - 1) : (rest \div PowerOfTwo[i]) % 2 = 1}}

\* The trees of the lowest digits cover what those digits are worth.
LEMMA DigitTreesTile ==
    ASSUME NEW n \in Nat, NEW rest \in Nat, rest <= n, NEW m \in 0..MaxPower
    PROVE  Tiles(DigitTrees(n, rest, m), n - rest + Above(rest, PowerOfTwo[m]), n)
<1>. DEFINE G == {k \in 0..MaxPower :
                    Tiles(DigitTrees(n, rest, k), n - rest + Above(rest, PowerOfTwo[k]), n)}
<1>0. MaxPower \in Nat
  BY PowerSteps
<1>1. 0 \in G
  <2>1. DigitTrees(n, rest, 0) = {}
    BY DEF DigitTrees
  <2>2. Above(rest, PowerOfTwo[0]) = rest
    <3>1. 0 \in 0..(1 - 1) /\ rest = 1 * rest + 0
      OBVIOUS
    <3>2. rest \div 1 = rest
      BY <3>1, QuotUnique
    <3>. QED
      BY <3>2, PowerSteps DEF Above
  <2>3. n - rest + rest = n /\ 0 \in 0..MaxPower
    BY <1>0
  <2>. QED
    BY <2>1, <2>2, <2>3, TilesNone
<1>2. ASSUME NEW k \in 1..MaxPower, k - 1 \in G PROVE k \in G
  <2>1. PICK j \in Nat : j = k - 1 /\ k = j + 1 /\ k \in 0..MaxPower /\ j \in 0..MaxPower
    BY <1>0
  <2>2. PICK p \in Nat \ {0} : p = PowerOfTwo[j] /\ PowerOfTwo[k] = 2 * p
    BY <2>1, PowerSteps
  <2>3. PICK x, y \in Nat : /\ x = Above(rest, p) /\ y = Above(rest, 2 * p) /\ x <= rest
                            /\ (rest \div p) % 2 = 1 => x = y + p
                            /\ (rest \div p) % 2 # 1 => x = y
    BY DigitAbove
  <2>4. PICK l, h \in Nat : l = n - rest + y /\ h = n - rest + x
    OBVIOUS
  <2>5. Tiles(DigitTrees(n, rest, j), h, n)
    BY <1>2, <2>1, <2>2, <2>3, <2>4
  <2>6. 0..(k - 1) = 0..(j - 1) \cup {j}
    BY <2>1
  <2>7. CASE (rest \div p) % 2 = 1
    <3>1. Tiles({[offset |-> l, size |-> p]}, l, h)
      BY <2>3, <2>4, <2>7, TilesOne
    <3>2. DigitTree(n, rest, p) = [offset |-> l, size |-> p]
      BY <2>3, <2>4 DEF DigitTree, Above
    <3>3. DigitTrees(n, rest, k) = {[offset |-> l, size |-> p]} \cup DigitTrees(n, rest, j)
      <4>1. {i \in 0..(k - 1) : (rest \div PowerOfTwo[i]) % 2 = 1}
              = {j} \cup {i \in 0..(j - 1) : (rest \div PowerOfTwo[i]) % 2 = 1}
        BY <2>2, <2>6, <2>7, Zenon
      <4>. QED
        BY <2>2, <3>2, <4>1, Zenon DEF DigitTrees
    <3>4. Tiles(DigitTrees(n, rest, k), l, n)
      BY <2>5, <3>1, <3>3, TilesJoin
    <3>. QED
      BY <2>1, <2>2, <2>3, <2>4, <3>4
  <2>8. CASE (rest \div p) % 2 # 1
    <3>1. DigitTrees(n, rest, k) = DigitTrees(n, rest, j)
      <4>1. {i \in 0..(k - 1) : (rest \div PowerOfTwo[i]) % 2 = 1}
              = {i \in 0..(j - 1) : (rest \div PowerOfTwo[i]) % 2 = 1}
        BY <2>2, <2>6, <2>8, Zenon
      <4>. QED
        BY <4>1, Zenon DEF DigitTrees
    <3>2. l = h
      BY <2>3, <2>4, <2>8
    <3>. QED
      BY <2>1, <2>2, <2>3, <2>4, <2>5, <3>1, <3>2
  <2>. QED
    BY <2>7, <2>8
<1>3. \A k \in 0..MaxPower : k \in G
  <2>. HIDE DEF G
  <2>. QED
    BY <1>0, <1>1, <1>2, RangeInduction
<1>. QED
  BY <1>3

\* The trees of a mountain range, and what they cover.
LEMMA RangeSizes ==
    ASSUME NEW n \in Nat, NEW w \in Powers
    PROVE  \E m \in Nat, rest \in Nat :
             /\ n = w * m + rest /\ rest < w
             /\ MerkleMountainRangeSizes(n, w) = WholeTrees(m, w) \cup DigitTrees(n, rest, MaxPower)
             /\ Tiles(MerkleMountainRangeSizes(n, w), 0, n)
<1>1. w \in Nat \ {0} /\ MaxPower \in Nat /\ MaxPower \in 0..MaxPower
  BY PowersPositive, PowerSteps
<1>2. PICK m \in Nat, rest \in 0..(w - 1) : m = n \div w /\ rest = n % w /\ n = w * m + rest
  BY <1>1, QuotRem
<1>3. rest \in Nat /\ rest < w
  BY <1>1, <1>2
<1>4. PICK top \in Nat \ {0} : top = PowerOfTwo[MaxPower] /\ w <= top
  <2>1. PICK i \in 0..MaxPower : w = PowerOfTwo[i]
    BY DEF Powers
  <2>2. \A k \in 0..MaxPower : PowerOfTwo[k] <= PowerOfTwo[MaxPower]
    BY PowersTop
  <2>. QED
    BY <1>1, <2>1, <2>2, PowerSteps
<1>5. rest \div top = 0
  <2>1. rest \in 0..(top - 1) /\ rest = top * 0 + rest
    BY <1>3, <1>4, <1>1
  <2>. QED
    BY <1>3, <2>1, QuotUnique
<1>6. MerkleMountainRangeSizes(n, w) = WholeTrees(m, w) \cup DigitTrees(n, rest, MaxPower)
  <2>. DEFINE ones == {q \in Powers : (rest \div q) % 2 = 1}
              low == {i \in 0..(MaxPower - 1) : (rest \div PowerOfTwo[i]) % 2 = 1}
  <2>1. MerkleMountainRangeSizes(n, w)
          = WholeTrees(m, w) \cup {DigitTree(n, rest, p) : p \in ones}
    BY <1>2, Zenon DEF MerkleMountainRangeSizes, WholeTrees, DigitTree
  <2>2. ASSUME NEW p \in ones PROVE \E j \in low : p = PowerOfTwo[j]
    <3>1. PICK j \in 0..MaxPower : p = PowerOfTwo[j]
      BY DEF Powers
    <3>2. j # MaxPower
      <4>1. SUFFICES ASSUME j = MaxPower PROVE FALSE
        OBVIOUS
      <4>2. (rest \div top) % 2 = 1
        BY <1>4, <3>1, <4>1
      <4>3. 0 % 2 = 0
        OBVIOUS
      <4>. QED
        BY <1>5, <4>2, <4>3
    <3>3. j \in 0..(MaxPower - 1)
      BY <1>1, <3>2
    <3>. QED
      BY <3>1, <3>3
  <2>3. ASSUME NEW j \in low PROVE PowerOfTwo[j] \in ones
    <3>1. j \in 0..MaxPower
      BY <1>1
    <3>. QED
      BY <3>1 DEF Powers
  <2>. HIDE DEF ones, low
  <2>4. {DigitTree(n, rest, p) : p \in ones} = {DigitTree(n, rest, PowerOfTwo[j]) : j \in low}
    BY <2>2, <2>3
  <2>. QED
    BY <2>1, <2>4, Zenon DEF DigitTrees, low
<1>7. Tiles(WholeTrees(m, w), 0, m * w)
  BY <1>1, WholeTreesTile
<1>8. n - rest + Above(rest, top) = m * w
  <2>1. Above(rest, top) = 0
    BY <1>4, <1>5 DEF Above
  <2>2. PICK x \in Nat : x = w * m /\ x = m * w
    BY <1>1
  <2>. QED
    BY <1>2, <2>1, <2>2
<1>9. rest <= n
  <2>1. w * m \in Nat
    BY <1>1
  <2>. QED
    BY <1>2, <2>1
<1>10. Tiles(DigitTrees(n, rest, MaxPower), m * w, n)
  BY <1>1, <1>3, <1>4, <1>8, <1>9, DigitTreesTile
<1>11. Tiles(MerkleMountainRangeSizes(n, w), 0, n)
  BY <1>6, <1>7, <1>10, TilesJoin
<1>. QED
  BY <1>2, <1>3, <1>6, <1>11

\* The width before it is limited by the square is a number.
LEMMA RoundedNat ==
    ASSUME NEW n \in Nat, n <= PowerOfTwo[MaxPower]
    PROVE  RoundUpPowerOfTwo((n + SubtreeRootThreshold - 1) \div SubtreeRootThreshold) \in Nat
<1>. DEFINE T == SubtreeRootThreshold
            m == (n + T - 1) \div T
            A == {p \in Powers : p >= m}
<1>1. Powers \subseteq Nat \ {0} /\ PowerOfTwo[MaxPower] \in Powers
  BY PowersPositive
<1>2. m \in Nat /\ m <= n
  BY QuotientBelow, SquareAssumption
<1>3. A \subseteq Nat /\ A # {}
  <2>1. PICK top \in Nat : top = PowerOfTwo[MaxPower] /\ top \in Powers /\ n <= top
    BY <1>1
  <2>. HIDE DEF m
  <2>2. top >= m
    BY <1>2, <2>1
  <2>. QED
    BY <1>1, <2>1, <2>2
<1>4. Min(A) \in A
  <2>. HIDE DEF A
  <2>. QED
    BY <1>3, LeastMin
<1>. QED
  BY <1>3, <1>4 DEF RoundUpPowerOfTwo

\* The width of a blob's subtrees divides the side of a square that holds it.
LEMMA WidthInSquare ==
    ASSUME NEW n \in Nat, NEW m \in Nat, n <= m, n <= PowerOfTwo[MaxPower],
           m <= MaxSquareSize * MaxSquareSize
    PROVE  /\ BlobMinSquareSize(m) \in Nat \ {0}
           /\ Multiple(BlobMinSquareSize(m), SubTreeWidth(n))
<1>. DEFINE B(k) == {p \in Powers : p * p >= k}
            S == {RoundUpPowerOfTwo((n + SubtreeRootThreshold - 1) \div SubtreeRootThreshold),
                  BlobMinSquareSize(n)}
<1>1. Powers \subseteq Nat \ {0} /\ MaxSquareSize \in Powers
  BY PowersPositive, SquareAssumption
<1>2. MaxSquareSize * MaxSquareSize >= m
  <2>1. MaxSquareSize \in Nat
    BY <1>1
  <2>. QED
    BY <2>1
<1>3. B(m) \subseteq Nat /\ B(m) # {} /\ B(m) \subseteq Powers
  BY <1>1, <1>2
<1>4. BlobMinSquareSize(m) \in B(m)
  <2>. HIDE DEF B
  <2>1. Min(B(m)) \in B(m)
    BY <1>3, LeastMin
  <2>. QED
    BY <2>1 DEF B, BlobMinSquareSize
<1>5. PICK v \in Nat \ {0} : v = BlobMinSquareSize(m) /\ v \in Powers /\ v * v >= m
  BY <1>1, <1>4
<1>6. v \in B(n)
  <2>1. v * v \in Nat
    OBVIOUS
  <2>. QED
    BY <1>5, <2>1
<1>7. B(n) \subseteq Nat /\ B(n) # {}
  BY <1>1, <1>6
<1>8. BlobMinSquareSize(n) \in Nat /\ BlobMinSquareSize(n) <= v
  <2>. HIDE DEF B
  <2>1. Min(B(n)) \in B(n) /\ Min(B(n)) <= v
    BY <1>6, <1>7, LeastMin
  <2>. QED
    BY <1>7, <2>1 DEF B, BlobMinSquareSize
<1>9. SubTreeWidth(n) \in Powers
  BY WidthType
<1>10. SubTreeWidth(n) <= BlobMinSquareSize(n)
  <2>1. S \subseteq Nat /\ S # {}
    BY <1>8, RoundedNat
  <2>2. Min(S) <= BlobMinSquareSize(n)
    <3>1. BlobMinSquareSize(n) \in S
      OBVIOUS
    <3>. HIDE DEF S
    <3>. QED
      BY <2>1, <3>1, LeastMin
  <2>. QED
    BY <2>2 DEF SubTreeWidth, S
<1>11. SubTreeWidth(n) <= v
  <2>1. PICK x, y \in Nat : x = SubTreeWidth(n) /\ y = BlobMinSquareSize(n)
    BY <1>1, <1>8, <1>9
  <2>. QED
    BY <1>8, <1>10, <2>1
<1>. QED
  BY <1>5, <1>9, <1>11, PowersDivide

\* A blob of a good builder has no more shares than the largest power of two.
LEMMA ElementShares ==
    ASSUME NEW b, Good(b), NEW k \in 1..Len(b.blobs)
    PROVE  /\ b.blobs[k].numShares \in Nat
           /\ b.blobs[k].numShares <= PowerOfTwo[MaxPower]
<1>1. b \in Builder /\ Matched(b)
  BY DEF Good
<1>2. k \in DOMAIN b.blobs
  BY <1>1, PfbTypes
<1>3. PICK p \in DOMAIN b.pfbs : \E i \in DOMAIN b.pfbs[p].blobs :
          b.blobs[k] = NewElement(b.pfbs[p].blobs[i], p, i)
  BY <1>1, <1>2, Zenon DEF Matched
<1>4. PICK i \in DOMAIN b.pfbs[p].blobs : b.blobs[k] = NewElement(b.pfbs[p].blobs[i], p, i)
  BY <1>3
<1>5. b.pfbs[p].blobs \in BlobLists /\ p \in Nat
  <2>1. DOMAIN b.pfbs = 1..Len(b.pfbs) /\ Len(b.pfbs) \in Nat
    BY <1>1, PfbTypes
  <2>2. p \in 1..Len(b.pfbs) /\ p \in Nat
    BY <2>1
  <2>. QED
    BY <1>1, <2>2, PfbTypes
<1>6. PICK blobs \in BlobLists : blobs = b.pfbs[p].blobs /\ i \in DOMAIN blobs
  BY <1>5
<1>7. /\ NewElement(blobs[i], p, i).numShares = SparseSharesNeeded(blobs[i].len)
      /\ NewElement(blobs[i], p, i).numShares \in Nat
  BY <1>5, <1>6, NewElementGood
<1>8. SparseSharesNeeded(blobs[i].len) <= PowerOfTwo[MaxPower]
  BY <1>6, SquareAssumption
<1>. QED
  BY <1>4, <1>6, <1>7, <1>8

\* Every subtree of the commitment to a blob that starts at a multiple of its
\* width starts at a multiple of its own size, which divides the side.
LEMMA SubtreeAligned ==
    ASSUME NEW n \in Nat, n <= PowerOfTwo[MaxPower], NEW start \in Nat, NEW side \in Nat \ {0},
           start % SubTreeWidth(n) = 0, Multiple(side, SubTreeWidth(n)),
           NEW t \in CommitmentSubtrees(n)
    PROVE  /\ start + t.offset \in Nat /\ t.size \in Nat \ {0}
           /\ Multiple(start + t.offset, t.size) /\ Multiple(side, t.size)
<1>1. PICK w \in Nat \ {0} : w = SubTreeWidth(n) /\ w \in Powers
  BY WidthType
<1>2. PICK m \in Nat, rest \in Nat :
          /\ n = w * m + rest /\ rest < w
          /\ MerkleMountainRangeSizes(n, w) = WholeTrees(m, w) \cup DigitTrees(n, rest, MaxPower)
          /\ Tiles(MerkleMountainRangeSizes(n, w), 0, n)
  BY <1>1, RangeSizes, Zenon
<1>3. t \in WholeTrees(m, w) \/ t \in DigitTrees(n, rest, MaxPower)
  BY <1>1, <1>2 DEF CommitmentSubtrees
<1>4. Multiple(start, w) /\ Multiple(side, w)
  BY <1>1, MultipleRem
<1>5. CASE t \in WholeTrees(m, w)
  <2>1. PICK i \in 0..(m - 1) : t = [offset |-> i * w, size |-> w]
    BY <1>5 DEF WholeTrees
  <2>2. PICK x \in Nat : x = i * w /\ x = w * i /\ i \in Nat
    BY <2>1
  <2>3. t.offset = x /\ t.size = w
    BY <2>1, <2>2
  <2>4. Multiple(x, w)
    BY <2>2, Zenon DEF Multiple
  <2>5. Multiple(start + x, w)
    BY <1>4, <2>4, MultipleSum
  <2>. QED
    BY <1>4, <2>3, <2>5
<1>6. CASE t \in DigitTrees(n, rest, MaxPower)
  <2>1. PICK j \in {i \in 0..(MaxPower - 1) : (rest \div PowerOfTwo[i]) % 2 = 1} :
            t = DigitTree(n, rest, PowerOfTwo[j])
    BY <1>6 DEF DigitTrees
  <2>2. j \in 0..MaxPower
    BY <2>1, PowerSteps
  <2>3. PICK p \in Nat \ {0} : p = PowerOfTwo[j] /\ p \in Powers
    BY <2>2, PowerSteps DEF Powers
  <2>4. (rest \div p) % 2 = 1
    BY <2>1, <2>3
  <2>5. PICK a, y \in Nat : a = Above(rest, p) /\ y = Above(rest, 2 * p) /\ a <= rest /\ a = y + p
    <3>1. /\ Above(rest, p) \in Nat /\ Above(rest, 2 * p) \in Nat /\ Above(rest, p) <= rest
          /\ (rest \div p) % 2 = 1 => Above(rest, p) = Above(rest, 2 * p) + p
      BY DigitAbove, Zenon
    <3>. QED
      BY <2>4, <3>1, Zenon
  <2>6. p <= w
    BY <1>2, <2>5
  <2>7. Multiple(w, p)
    BY <1>1, <2>3, <2>6, PowersDivide
  <2>8. Multiple(y, p)
    <3>1. 2 * p \in Nat \ {0}
      OBVIOUS
    <3>2. PICK c \in Nat : c = rest \div (2 * p)
      BY <3>1, QuotRem
    <3>3. y = p * (2 * c) /\ 2 * c \in Nat
      BY <2>5, <3>2 DEF Above
    <3>. QED
      BY <3>3, Zenon DEF Multiple
  <2>9. PICK z \in Nat : z = w * m /\ z = n - rest
    <3>1. w * m \in Nat
      OBVIOUS
    <3>. QED
      BY <1>2, <3>1
  <2>10. Multiple(z, p)
    <3>1. Multiple(z, w)
      BY <2>9, Zenon DEF Multiple
    <3>. QED
      BY <2>7, <3>1, MultipleTrans
  <2>11. t.offset = z + y /\ t.size = p
    BY <2>1, <2>3, <2>5, <2>9 DEF DigitTree, Above
  <2>12. Multiple(start, p) /\ Multiple(side, p)
    BY <1>4, <2>7, MultipleTrans
  <2>13. PICK u \in Nat : u = z + y
    OBVIOUS
  <2>14. Multiple(u, p)
    BY <2>8, <2>10, <2>13, MultipleSum
  <2>15. Multiple(start + u, p)
    BY <2>12, <2>14, MultipleSum
  <2>. QED
    BY <2>11, <2>12, <2>13, <2>15
<1>. QED
  BY <1>3, <1>5, <1>6

\* Tiles, as a union of the leaves under each tree.
LEMMA TilesCover ==
    ASSUME NEW T, NEW n \in Nat, Tiles(T, 0, n)
    PROVE  /\ UNION {Under(t) : t \in T} = 0..(n - 1)
           /\ \A t, u \in T : t # u => Under(t) \cap Under(u) = {}
<1>1. ASSUME NEW t \in T, NEW x \in Under(t) PROVE x \in 0..(n - 1)
  <2>1. x \in Int
    BY DEF Tiles, Under
  <2>2. 0 <= x /\ x < n
    BY DEF Tiles
  <2>. QED
    BY <2>1, <2>2
<1>2. ASSUME NEW x \in 0..(n - 1) PROVE \E t \in T : x \in Under(t)
  BY DEF Tiles
<1>3. \A t, u \in T : t # u => Under(t) \cap Under(u) = {}
  BY DEF Tiles
<1>. QED
  BY <1>1, <1>2, <1>3

-----------------------------------------------------------------------------
(* The share ranges of transactions *)

\* The bytes of the first k units.
BytesTo(lens, k) == SumSeq([l \in 1..k |-> Delimited(lens[l])])

\* The bytes up to a unit, one unit after the other.
LEMMA BytesStep ==
    ASSUME NEW lens, NEW n, Numbers(lens, n)
    PROVE  /\ BytesTo(lens, 0) = 0
           /\ \A k \in 0..n : BytesTo(lens, k) \in Nat
           /\ \A k \in 1..n : BytesTo(lens, k) = BytesTo(lens, k - 1) + Delimited(lens[k])
<1>. DEFINE f(k) == [l \in 1..k |-> Delimited(lens[l])]
<1>1. n \in Nat /\ \A l \in 1..n : Delimited(lens[l]) \in Nat
  BY DelimitedNat DEF Numbers
<1>2. \A k \in 0..n : Numbers(f(k), k)
  BY <1>1 DEF Numbers
<1>3. BytesTo(lens, 0) = 0
  <2>1. Numbers(f(0), 0)
    <3>1. 0 \in 0..n
      BY <1>1
    <3>. QED
      BY <1>2, <3>1, Zenon
  <2>2. SumSeq(f(0)) = 0
    <3>. HIDE DEF f
    <3>. QED
      BY <2>1, SumSeqEmpty
  <2>. QED
    BY <2>2 DEF BytesTo
<1>4. ASSUME NEW k \in 0..n PROVE BytesTo(lens, k) \in Nat
  <2>1. SumSeq(f(k)) \in Nat
    <3>. HIDE DEF f
    <3>. QED
      BY <1>2, SumSeqNat
  <2>. QED
    BY <2>1 DEF BytesTo
<1>5. ASSUME NEW k \in 1..n PROVE BytesTo(lens, k) = BytesTo(lens, k - 1) + Delimited(lens[k])
  <2>1. k - 1 \in 0..n /\ k \in 0..n /\ (k - 1) + 1 = k
    BY <1>1
  <2>2. /\ \A l \in 1..(k - 1) : f(k)[l] = f(k - 1)[l]
        /\ f(k)[k] = Delimited(lens[k])
    BY <1>1
  <2>3. Numbers(f(k - 1), k - 1) /\ Numbers(f(k), (k - 1) + 1)
    BY <1>2, <2>1
  <2>4. SumSeq(f(k)) = SumSeq(f(k - 1)) + Delimited(lens[k])
    <3>. HIDE DEF f
    <3>1. SumSeq(f(k)) = SumSeq(f(k - 1)) + f(k)[(k - 1) + 1]
      BY <2>2, <2>3, SumSeqAppend
    <3>. QED
      BY <2>1, <2>2, <3>1
  <2>. QED
    BY <2>4 DEF BytesTo
<1>. QED
  BY <1>3, <1>4, <1>5

\* The counters that FindTxShareRange runs over the units.
LEMMA CountersAt ==
    ASSUME NEW lens, NEW n, Numbers(lens, n), Len(lens) = n
    PROVE  \A k \in 0..n : Counters(lens)[k] = CounterAt(BytesTo(lens, k))
<1>. DEFINE R(h) == [k \in 0..n |-> IF k = 0 THEN EmptyCounter ELSE CounterAdd(h[k - 1], lens[k])]
            f == [k \in 0..n |-> CounterAt(BytesTo(lens, k))]
            c == Counters(lens)
            G == {k \in 0..n : c[k] = f[k]}
<1>1. n \in Nat
  BY DEF Numbers
<1>2. f[0] = EmptyCounter
  BY <1>1, BytesStep, EmptyCounterAt
<1>3. ASSUME NEW k \in 1..n PROVE f[k] = CounterAdd(f[k - 1], lens[k])
  <2>1. k \in 0..n /\ k - 1 \in 0..n /\ lens[k] \in Nat
    BY <1>1 DEF Numbers
  <2>2. PICK x \in Nat : x = BytesTo(lens, k - 1)
    BY <2>1, BytesStep
  <2>3. CounterAdd(CounterAt(x), lens[k]) = CounterAt(x + Delimited(lens[k]))
    BY <2>1, AddAt
  <2>4. BytesTo(lens, k) = x + Delimited(lens[k])
    BY <2>2, BytesStep
  <2>5. f[k] = CounterAt(BytesTo(lens, k)) /\ f[k - 1] = CounterAt(x)
    BY <2>1, <2>2
  <2>. QED
    BY <2>3, <2>4, <2>5
<1>4. f = R(f)
  <2>1. DOMAIN f = 0..n /\ f = [k \in 0..n |-> f[k]]
    OBVIOUS
  <2>. HIDE DEF f
  <2>2. ASSUME NEW k \in 0..n PROVE f[k] = R(f)[k]
    <3>1. k = 0 \/ k \in 1..n
      BY <1>1
    <3>. QED
      BY <1>2, <1>3, <3>1
  <2>3. R(f) = [k \in 0..n |-> R(f)[k]]
    OBVIOUS
  <2>. HIDE DEF R
  <2>. QED
    BY <2>1, <2>2, <2>3
<1>5. c = CHOOSE h : h = R(h)
  BY DEF Counters
<1>6. c = R(c)
  <2>. HIDE DEF R, f, c
  <2>. QED
    BY <1>4, <1>5
<1>. HIDE DEF c, f
<1>7. 0 \in G
  BY <1>1, <1>2, <1>6
<1>8. ASSUME NEW k \in 1..n, k - 1 \in G PROVE k \in G
  <2>1. c[k] = CounterAdd(c[k - 1], lens[k])
    BY <1>1, <1>6
  <2>2. c[k - 1] = f[k - 1]
    BY <1>8
  <2>3. k \in 0..n
    BY <1>1
  <2>. QED
    BY <1>3, <2>1, <2>2, <2>3
<1>9. \A k \in 0..n : k \in G
  <2>. HIDE DEF G
  <2>. QED
    BY <1>1, <1>7, <1>8, RangeInduction
<1>. QED
  BY <1>9 DEF f, c

\* The share that holds the byte after n others.
ShareOf(n) == IF n < F THEN 0 ELSE 1 + (n - F) \div C

\* Start and end of a range by the counters, and by the bytes.
LEMMA RangeEdges ==
    ASSUME NEW n \in Nat
    PROVE  /\ RangeStart(CounterAt(n)) = ShareOf(n)
           /\ n > 0 => CounterSize(CounterAt(n)) = ShareOf(n - 1) + 1
<1>0. F \in Nat \ {0} /\ C \in Nat \ {0}
  BY Capacities
<1>1. RangeStart(CounterAt(n)) = CounterAt(n).shares
  <2>1. CounterAt(n).shares \in Nat
    BY CounterAtType
  <2>. QED
    BY <2>1 DEF RangeStart, CounterSize
<1>2. CounterAt(n).shares = ShareOf(n)
  BY DEF CounterAt, ShareOf
<1>3. ASSUME n > 0 PROVE CompactSharesNeeded(n) = ShareOf(n - 1) + 1
  <2>1. CompactSharesNeeded(n) = SharesNeeded(n, F, C)
    BY DEF CompactSharesNeeded, F, C
  <2>2. CASE n <= F
    BY <1>0, <1>3, <2>1, <2>2 DEF SharesNeeded, ShareOf
  <2>3. CASE n > F
    <3>1. PICK a \in Nat : a = n - 1 - F
      BY <1>0, <2>3
    <3>2. PICK q \in Nat, r \in 0..(C - 1) : q = a \div C /\ a = C * q + r
      BY <1>0, QuotRem
    <3>3. PICK p \in Nat : p = q + 1
      OBVIOUS
    <3>4. PICK d \in Nat : d = a + C
      BY <1>0
    <3>5. d = C * p + r
      <4>1. C * p = C * q + C /\ C * q \in Nat
        BY <1>0, <3>3
      <4>. QED
        BY <1>0, <3>2, <3>4, <4>1
    <3>6. d \div C = p
      BY <1>0, <3>5, QuotUnique
    <3>7. n - F + C - 1 = d
      BY <1>0, <3>1, <3>4
    <3>8. SharesNeeded(n, F, C) = 1 + p
      BY <1>0, <1>3, <2>3, <3>6, <3>7 DEF SharesNeeded
    <3>9. ShareOf(n - 1) = 1 + q
      BY <1>0, <2>3, <3>1, <3>2 DEF ShareOf
    <3>. QED
      BY <2>1, <3>3, <3>8, <3>9
  <2>. QED
    BY <1>0, <2>2, <2>3
<1>. QED
  BY <1>1, <1>2, <1>3, CounterSizeAt

-----------------------------------------------------------------------------
(* The square the validators build *)

\* c has been built from the first transactions of b.
Prefix(c, b) ==
    /\ Len(c.txs) <= Len(b.txs)
    /\ \A i \in 1..Len(c.txs) : c.txs[i] = b.txs[i]
    /\ Len(c.pfbs) <= Len(b.pfbs)
    /\ \A p \in 1..Len(c.pfbs) : /\ c.pfbs[p].len = b.pfbs[p].len
                                 /\ c.pfbs[p].blobs = b.pfbs[p].blobs
                                 /\ Len(c.pfbs[p].indexes) = Len(b.pfbs[p].indexes)

\* The estimate, from the transactions alone.
Estimate(b) ==
    CompactSharesNeeded(TxBytes(b.txs)) + CompactSharesNeeded(SumSeq(WorstBytes(b.pfbs)))
      + SumSeq(SetAside(b.pfbs))

\* The sum of a prefix is no larger than that of the whole.
LEMMA SumSeqPrefix ==
    ASSUME NEW f, NEW k, NEW g, NEW n, Numbers(f, k), Numbers(g, n), k <= n,
           \A i \in 1..k : f[i] = g[i]
    PROVE  SumSeq(f) <= SumSeq(g)
<1>1. k \in Nat /\ n \in Nat /\ IsFiniteSet(1..k) /\ IsFiniteSet(1..n) /\ 1..k \in SUBSET (1..n)
  BY RangeFinite DEF Numbers
<1>2. \A i \in 1..n : g[i] \in Nat
  BY DEF Numbers
<1>3. \A i \in 1..k : g[i] \in Int
  BY <1>1, <1>2
<1>4. SumFunctionOnSet(f, 1..k) = SumFunctionOnSet(g, 1..k)
  BY <1>1, <1>3, SumEqual
<1>5. SumFunctionOnSet(g, 1..k) <= SumFunctionOnSet(g, 1..n)
  BY <1>1, <1>2, SumSubset
<1>. QED
  BY <1>4, <1>5, SumSeqNat

\* A builder's estimate in terms of its transactions and PFBs.
LEMMA EstimateGood ==
    ASSUME NEW b, Good(b)
    PROVE  b.currentSize = Estimate(b)
<1>1. b \in Builder /\ Sized(b)
  BY DEF Good
<1>2. /\ CounterSize(b.txCounter) = CompactSharesNeeded(TxBytes(b.txs))
      /\ CounterSize(b.pfbCounter) = CompactSharesNeeded(SumSeq(WorstBytes(b.pfbs)))
  BY <1>1, SizedNat, CounterSizeAt DEF Sized
<1>. QED
  BY <1>1, <1>2 DEF Sized, Reserved, Estimate

\* A part of what fits fits.
LEMMA PrefixFits ==
    ASSUME NEW b, Good(b), NEW c \in Builder, Prefix(c, b)
    PROVE  Estimate(c) <= MaxSquareSize * MaxSquareSize
<1>1. b \in Builder /\ Sized(b)
  BY DEF Good
<1>2. PICK n, m, k, j \in Nat : /\ n = Len(b.txs) /\ m = Len(b.pfbs)
                                /\ k = Len(c.txs) /\ j = Len(c.pfbs)
                                /\ k <= n /\ j <= m
  BY <1>1, PfbTypes DEF Prefix
<1>3. /\ DOMAIN b.txs = 1..n /\ DOMAIN b.pfbs = 1..m
      /\ DOMAIN c.txs = 1..k /\ DOMAIN c.pfbs = 1..j
  BY <1>1, <1>2, PfbTypes
<1>4. /\ \A i \in 1..k : c.txs[i] = b.txs[i] /\ i \in 1..n
      /\ \A p \in 1..j : /\ c.pfbs[p].len = b.pfbs[p].len /\ c.pfbs[p].blobs = b.pfbs[p].blobs
                         /\ Len(c.pfbs[p].indexes) = Len(b.pfbs[p].indexes) /\ p \in 1..m
  BY <1>2 DEF Prefix
<1>5. TxBytes(c.txs) \in Nat /\ TxBytes(b.txs) \in Nat /\ TxBytes(c.txs) <= TxBytes(b.txs)
  <2>1. Numbers(c.txs, k) /\ Numbers(b.txs, n)
    BY <1>1, <1>2, <1>3, PfbTypes DEF Numbers
  <2>2. PICK f, g : f = UnitBytes(c.txs) /\ g = UnitBytes(b.txs)
    OBVIOUS
  <2>3. Numbers(f, k) /\ Numbers(g, n)
    BY <2>1, <2>2, UnitBytesNumbers
  <2>4. \A i \in 1..k : f[i] = g[i]
    BY <1>3, <1>4, <2>2 DEF UnitBytes
  <2>5. SumSeq(f) <= SumSeq(g) /\ SumSeq(f) \in Nat /\ SumSeq(g) \in Nat
    BY <1>2, <2>3, <2>4, SumSeqPrefix, SumSeqNat
  <2>. QED
    BY <2>2, <2>5 DEF TxBytes, UnitBytes
<1>6. /\ SumSeq(WorstBytes(c.pfbs)) \in Nat /\ SumSeq(WorstBytes(b.pfbs)) \in Nat
      /\ SumSeq(WorstBytes(c.pfbs)) <= SumSeq(WorstBytes(b.pfbs))
  <2>1. PICK f, g : f = WorstBytes(c.pfbs) /\ g = WorstBytes(b.pfbs)
    OBVIOUS
  <2>2. Numbers(f, j) /\ Numbers(g, m)
    BY <1>1, <1>2, <2>1, WorstBytesNumbers
  <2>3. \A p \in 1..j : f[p] = g[p]
    BY <1>3, <1>4, <2>1 DEF WorstBytes
  <2>4. SumSeq(f) <= SumSeq(g) /\ SumSeq(f) \in Nat /\ SumSeq(g) \in Nat
    BY <1>2, <2>2, <2>3, SumSeqPrefix, SumSeqNat
  <2>. QED
    BY <2>1, <2>4
<1>7. /\ SumSeq(SetAside(c.pfbs)) \in Nat /\ SumSeq(SetAside(b.pfbs)) \in Nat
      /\ SumSeq(SetAside(c.pfbs)) <= SumSeq(SetAside(b.pfbs))
  <2>1. PICK f, g : f = SetAside(c.pfbs) /\ g = SetAside(b.pfbs)
    OBVIOUS
  <2>2. Numbers(f, j) /\ Numbers(g, m)
    BY <1>1, <1>2, <2>1, SetAsideNumbers
  <2>3. \A p \in 1..j : f[p] = g[p]
    BY <1>3, <1>4, <2>1 DEF SetAside
  <2>4. SumSeq(f) <= SumSeq(g) /\ SumSeq(f) \in Nat /\ SumSeq(g) \in Nat
    BY <1>2, <2>2, <2>3, SumSeqPrefix, SumSeqNat
  <2>. QED
    BY <2>1, <2>4
<1>8. PICK x1, x2, y1, y2, z1, z2 \in Nat :
          /\ x1 = CompactSharesNeeded(TxBytes(c.txs))
          /\ x2 = CompactSharesNeeded(TxBytes(b.txs))
          /\ y1 = CompactSharesNeeded(SumSeq(WorstBytes(c.pfbs)))
          /\ y2 = CompactSharesNeeded(SumSeq(WorstBytes(b.pfbs)))
          /\ z1 = SumSeq(SetAside(c.pfbs)) /\ z2 = SumSeq(SetAside(b.pfbs))
  BY <1>5, <1>6, <1>7, CounterSizeAt
<1>9. x1 <= x2 /\ y1 <= y2 /\ z1 <= z2
  BY <1>5, <1>6, <1>7, <1>8, CompactMonotone
<1>10. Estimate(c) = x1 + y1 + z1 /\ Estimate(b) = x2 + y2 + z2
  BY <1>8 DEF Estimate
<1>11. PICK top \in Nat : top = MaxSquareSize * MaxSquareSize
  <2>1. MaxSquareSize \in Nat
    BY PowersPositive, SquareAssumption
  <2>. QED
    BY <2>1
<1>12. x2 + y2 + z2 <= top
  BY <1>1, <1>10, <1>11, EstimateGood DEF Sized
<1>. QED
  BY <1>9, <1>10, <1>11, <1>12

\* The validators' builder accepts one transaction after the other.
LEMMA TxAccepted ==
    ASSUME NEW b, Good(b), NEW x, Good(x), Prefix(x, b), NEW k \in 1..Len(b.txs),
           Len(x.txs) = k - 1
    PROVE  LET d == WithTx(x, b.txs[k])
           IN  Good(d) /\ Prefix(d, b) /\ Len(d.txs) = k /\ d.pfbs = x.pfbs
<1>1. b \in Builder /\ x \in Builder /\ Sized(x)
  BY DEF Good
<1>2. PICK len \in TxLens : len = b.txs[k]
  BY <1>1, PfbTypes
<1>3. PICK c : c = TxAdded(x, len, CounterAdd(x.txCounter, len))
  OBVIOUS
<1>4. /\ c.txs = Append(x.txs, len) /\ c.pfbs = x.pfbs /\ c \in Builder
      /\ c.currentSize = CompactSharesNeeded(TxBytes(Append(x.txs, len)))
                           + CounterSize(x.pfbCounter) + SumSeq(SetAside(x.pfbs))
      /\ c.currentSize <= MaxSquareSize * MaxSquareSize => Good(c)
      /\ WithTx(x, len) = IF c.currentSize <= MaxSquareSize * MaxSquareSize THEN c ELSE x
  BY <1>2, <1>3, TxAddedGood
<1>5. k \in Nat /\ (k - 1) + 1 = k /\ Len(b.txs) \in Nat
  BY <1>1, PfbTypes
<1>6. /\ Len(c.txs) = k /\ c.txs[k] = len
      /\ \A i \in 1..(k - 1) : c.txs[i] = x.txs[i]
  <2>1. x.txs \in Seq(TxLens)
    BY <1>1 DEF Builder
  <2>2. /\ Len(Append(x.txs, len)) = Len(x.txs) + 1
        /\ \A i \in 1..Len(x.txs) : Append(x.txs, len)[i] = x.txs[i]
        /\ Append(x.txs, len)[Len(x.txs) + 1] = len
    BY <2>1, AppendFacts
  <2>. QED
    BY <1>4, <1>5, <2>2
<1>7. Prefix(c, b)
  <2>1. ASSUME NEW i \in 1..k PROVE c.txs[i] = b.txs[i]
    <3>1. i \in 1..(k - 1) \/ i = k
      BY <1>5
    <3>2. CASE i \in 1..(k - 1)
      BY <1>6, <3>2 DEF Prefix
    <3>3. CASE i = k
      BY <1>2, <1>6, <3>3
    <3>. QED
      BY <3>1, <3>2, <3>3
  <2>2. k <= Len(b.txs)
    BY <1>5
  <2>. QED
    BY <1>4, <1>6, <2>1, <2>2 DEF Prefix
<1>8. c.currentSize = Estimate(c)
  <2>1. CounterSize(x.pfbCounter) = CompactSharesNeeded(SumSeq(WorstBytes(x.pfbs)))
    BY <1>1, SizedNat, CounterSizeAt DEF Sized
  <2>. QED
    BY <1>4, <2>1 DEF Estimate
<1>9. c.currentSize <= MaxSquareSize * MaxSquareSize
  BY <1>4, <1>7, <1>8, PrefixFits
<1>. QED
  BY <1>2, <1>4, <1>6, <1>7, <1>9

\* The same for a PFB, after all normal transactions.
LEMMA PfbAccepted ==
    ASSUME NEW b, Good(b), NEW x, Good(x), Prefix(x, b), NEW k \in 1..Len(b.pfbs),
           Len(x.pfbs) = k - 1
    PROVE  LET d == WithBlobTx(x, b.pfbs[k].len, b.pfbs[k].blobs)
           IN  Good(d) /\ Prefix(d, b) /\ Len(d.pfbs) = k /\ d.txs = x.txs
<1>1. b \in Builder /\ x \in Builder /\ Sized(x) /\ Matched(b)
  BY DEF Good
<1>2. PICK len \in PfbLens, blobs \in BlobLists : len = b.pfbs[k].len /\ blobs = b.pfbs[k].blobs
  <2>1. b.pfbs[k] \in Pfb
    BY <1>1, PfbTypes
  <2>. QED
    BY <2>1 DEF Pfb
<1>3. PICK c : /\ c.txs = x.txs /\ c.pfbs = Append(x.pfbs, NewPfb(len, blobs)) /\ c \in Builder
               /\ c.currentSize = CounterSize(x.txCounter)
                                    + CompactSharesNeeded(SumSeq(WorstBytes(c.pfbs)))
                                    + SumSeq(SetAside(c.pfbs))
               /\ c.currentSize <= MaxSquareSize * MaxSquareSize => Good(c)
               /\ WithBlobTx(x, len, blobs) =
                    IF c.currentSize <= MaxSquareSize * MaxSquareSize THEN c ELSE x
  BY PfbAddedGood
<1>4. k \in Nat /\ (k - 1) + 1 = k /\ Len(b.pfbs) \in Nat
  BY <1>1, PfbTypes
<1>5. PICK pfb \in Pfb : /\ pfb = NewPfb(len, blobs) /\ pfb.len = len /\ pfb.blobs = blobs
                         /\ Len(pfb.indexes) = Len(blobs)
  BY NewPfbGood DEF NewPfb
<1>6. /\ Len(c.pfbs) = k /\ c.pfbs[k] = pfb
      /\ \A p \in 1..(k - 1) : c.pfbs[p] = x.pfbs[p]
  <2>1. x.pfbs \in Seq(Pfb)
    BY <1>1 DEF Builder
  <2>2. /\ Len(Append(x.pfbs, pfb)) = Len(x.pfbs) + 1
        /\ \A p \in 1..Len(x.pfbs) : Append(x.pfbs, pfb)[p] = x.pfbs[p]
        /\ Append(x.pfbs, pfb)[Len(x.pfbs) + 1] = pfb
    BY <2>1, AppendFacts
  <2>. QED
    BY <1>3, <1>4, <1>5, <2>2
<1>7. Prefix(c, b)
  <2>1. ASSUME NEW p \in 1..k
        PROVE  /\ c.pfbs[p].len = b.pfbs[p].len /\ c.pfbs[p].blobs = b.pfbs[p].blobs
               /\ Len(c.pfbs[p].indexes) = Len(b.pfbs[p].indexes)
    <3>1. p \in 1..(k - 1) \/ p = k
      BY <1>4
    <3>2. CASE p \in 1..(k - 1)
      BY <1>6, <3>2 DEF Prefix
    <3>3. CASE p = k
      <4>1. Len(b.pfbs[k].indexes) = Len(b.pfbs[k].blobs)
        BY <1>1, PfbTypes DEF Matched
      <4>. QED
        BY <1>2, <1>5, <1>6, <3>3, <4>1
    <3>. QED
      BY <3>1, <3>2, <3>3
  <2>2. k <= Len(b.pfbs)
    BY <1>4
  <2>. QED
    BY <1>3, <1>6, <2>1, <2>2 DEF Prefix
<1>8. c.currentSize = Estimate(c)
  <2>1. CounterSize(x.txCounter) = CompactSharesNeeded(TxBytes(x.txs))
    BY <1>1, SizedNat, CounterSizeAt DEF Sized
  <2>. QED
    BY <1>3, <2>1 DEF Estimate
<1>9. c.currentSize <= MaxSquareSize * MaxSquareSize
  BY <1>3, <1>7, <1>8, PrefixFits
<1>. QED
  BY <1>2, <1>3, <1>6, <1>7, <1>9

\* AppendTx of a good builder gives a good builder.
LEMMA WithTxGood ==
    ASSUME NEW b, Good(b), NEW len \in TxLens
    PROVE  Good(WithTx(b, len))
BY TxAddedGood

\* AppendBlobTx of a good builder gives a good builder.
LEMMA WithBlobTxGood ==
    ASSUME NEW b, Good(b), NEW len \in PfbLens, NEW blobs \in BlobLists
    PROVE  Good(WithBlobTx(b, len, blobs))
<1>1. PICK c : /\ c.currentSize <= MaxSquareSize * MaxSquareSize => Good(c)
               /\ WithBlobTx(b, len, blobs) =
                    IF c.currentSize <= MaxSquareSize * MaxSquareSize THEN c ELSE b
  BY PfbAddedGood
<1>. QED
  BY <1>1

\* The loops of Construct, over the first n transactions and m PFBs.
TxLoop(b, n) ==
    CHOOSE f : f = [k \in 0..n |-> IF k = 0 THEN EmptyBuilder ELSE WithTx(f[k - 1], b.txs[k])]

PfbLoop(b, m, start) ==
    CHOOSE f : f = [k \in 0..m |->
                      IF k = 0 THEN start
                      ELSE WithBlobTx(f[k - 1], b.pfbs[k].len, b.pfbs[k].blobs)]

\* The validators' builder after each normal transaction.
LEMMA TxsConstructed ==
    ASSUME NEW b, Good(b), NEW n, n = Len(b.txs), NEW h, h = TxLoop(b, n)
    PROVE  Good(h[n]) /\ Prefix(h[n], b) /\ Len(h[n].txs) = n /\ Len(h[n].pfbs) = 0
<1>. DEFINE D == {x \in Builder : Good(x)}
            g == [t \in D \X (1..n) |-> WithTx(t[1], b.txs[t[2]])]
            R(f) == [k \in 0..n |-> IF k = 0 THEN EmptyBuilder ELSE WithTx(f[k - 1], b.txs[k])]
            Built(x, k) == Good(x) /\ Prefix(x, b) /\ Len(x.txs) = k /\ Len(x.pfbs) = 0
            G == {k \in 0..n : Built(h[k], k)}
<1>1. b \in Builder /\ n \in Nat /\ \A k \in 1..n : b.txs[k] \in TxLens
  BY PfbTypes DEF Good
<1>2. EmptyBuilder \in D
  BY EmptyGood DEF Good
<1>3. g \in [D \X (1..n) -> D]
  <2>1. ASSUME NEW x \in D, NEW k \in 1..n PROVE WithTx(x, b.txs[k]) \in D
    BY <1>1, WithTxGood DEF Good
  <2>. HIDE DEF D
  <2>. QED
    BY <2>1
<1>4. PICK f \in [0..n -> D] : Recursive(f, n, EmptyBuilder, g)
  <2>. HIDE DEF D, g
  <2>. QED
    BY <1>1, <1>2, <1>3, RecursionExists
<1>5. f = R(f)
  <2>. HIDE DEF D
  <2>1. ASSUME NEW k \in 1..n PROVE f[k] = WithTx(f[k - 1], b.txs[k])
    <3>1. <<f[k - 1], k>> \in D \X (1..n)
      BY <1>1
    <3>2. f[k] = g[<<f[k - 1], k>>]
      BY <1>4 DEF Recursive
    <3>. QED
      BY <3>1, <3>2
  <2>2. f[0] = EmptyBuilder /\ DOMAIN f = 0..n
    BY <1>4 DEF Recursive
  <2>3. ASSUME NEW k \in 0..n PROVE f[k] = R(f)[k]
    BY <1>1, <2>1, <2>2
  <2>. QED
    BY <2>2, <2>3
<1>6. h = R(h)
  <2>1. h = CHOOSE q : q = R(q)
    BY DEF TxLoop
  <2>. HIDE DEF R
  <2>. QED
    BY <1>5, <2>1
<1>7. h[0] = EmptyBuilder /\ \A k \in 1..n : h[k] = WithTx(h[k - 1], b.txs[k])
  <2>1. ASSUME NEW k \in 0..n
        PROVE  h[k] = IF k = 0 THEN EmptyBuilder ELSE WithTx(h[k - 1], b.txs[k])
    BY <1>6, <2>1, Zenon
  <2>2. 0 \in 0..n /\ \A k \in 1..n : k \in 0..n /\ k # 0
    BY <1>1
  <2>. QED
    BY <2>1, <2>2, Zenon
<1>. HIDE DEF R
<1>8. 0 \in G
  <2>1. Len(EmptyBuilder.txs) = 0 /\ Len(EmptyBuilder.pfbs) = 0
    BY DEF EmptyBuilder
  <2>2. Prefix(EmptyBuilder, b)
    BY <1>1, <2>1, PfbTypes DEF Prefix
  <2>. QED
    BY <1>1, <1>7, <2>1, <2>2, EmptyGood
<1>9. ASSUME NEW k \in 1..n, k - 1 \in G PROVE k \in G
  <2>1. PICK x : x = h[k - 1] /\ Built(x, k - 1)
    BY <1>9
  <2>2. PICK d : d = WithTx(x, b.txs[k]) /\ d = h[k]
    BY <1>7, <2>1
  <2>3. Good(d) /\ Prefix(d, b) /\ Len(d.txs) = k /\ d.pfbs = x.pfbs
    <3>1. Good(x) /\ Prefix(x, b) /\ Len(x.txs) = k - 1 /\ k \in 1..Len(b.txs)
      BY <2>1
    <3>2. LET e == WithTx(x, b.txs[k])
          IN  Good(e) /\ Prefix(e, b) /\ Len(e.txs) = k /\ e.pfbs = x.pfbs
      BY <3>1, TxAccepted
    <3>. QED
      BY <2>2, <3>2
  <2>4. Built(d, k) /\ k \in 0..n
    BY <1>1, <2>1, <2>3
  <2>. QED
    BY <2>2, <2>4
<1>10. \A k \in 0..n : k \in G
  <2>. HIDE DEF G
  <2>. QED
    BY <1>1, <1>8, <1>9, RangeInduction
<1>11. n \in G
  <2>. HIDE DEF G
  <2>1. n \in 0..n
    BY <1>1
  <2>. QED
    BY <1>10, <2>1
<1>. QED
  BY <1>11

\* The validators' builder after each PFB.
LEMMA PfbsConstructed ==
    ASSUME NEW b, Good(b), NEW m, m = Len(b.pfbs),
           NEW start, Good(start), Prefix(start, b), Len(start.pfbs) = 0,
           NEW h, h = PfbLoop(b, m, start)
    PROVE  Good(h[m]) /\ Prefix(h[m], b) /\ Len(h[m].pfbs) = m /\ h[m].txs = start.txs
<1>. DEFINE D == {x \in Builder : Good(x)}
            step(x, k) == WithBlobTx(x, b.pfbs[k].len, b.pfbs[k].blobs)
            g == [t \in D \X (1..m) |-> step(t[1], t[2])]
            R(f) == [k \in 0..m |-> IF k = 0 THEN start ELSE step(f[k - 1], k)]
            Built(x, k) == Good(x) /\ Prefix(x, b) /\ Len(x.pfbs) = k /\ x.txs = start.txs
            G == {k \in 0..m : Built(h[k], k)}
<1>1. b \in Builder /\ m \in Nat
  BY PfbTypes DEF Good
<1>2. start \in D
  BY DEF Good
<1>3. ASSUME NEW x \in D, NEW k \in 1..m PROVE step(x, k) \in D
  <2>1. b.pfbs[k] \in Pfb
    BY <1>1, PfbTypes
  <2>2. b.pfbs[k].len \in PfbLens /\ b.pfbs[k].blobs \in BlobLists
    BY <2>1 DEF Pfb
  <2>. QED
    BY <2>2, WithBlobTxGood DEF Good
<1>4. h = CHOOSE f : f = R(f)
  BY DEF PfbLoop
<1>. HIDE DEF step
<1>5. g \in [D \X (1..m) -> D]
  <2>. HIDE DEF D
  <2>. QED
    BY <1>3
<1>6. PICK f \in [0..m -> D] : Recursive(f, m, start, g)
  <2>. HIDE DEF D, g
  <2>. QED
    BY <1>1, <1>2, <1>5, RecursionExists
<1>7. f = R(f)
  <2>. HIDE DEF D
  <2>1. ASSUME NEW k \in 1..m PROVE f[k] = step(f[k - 1], k)
    <3>1. <<f[k - 1], k>> \in D \X (1..m)
      BY <1>1
    <3>2. f[k] = g[<<f[k - 1], k>>]
      BY <1>6 DEF Recursive
    <3>. QED
      BY <3>1, <3>2
  <2>2. f[0] = start /\ DOMAIN f = 0..m
    BY <1>6 DEF Recursive
  <2>3. ASSUME NEW k \in 0..m PROVE f[k] = R(f)[k]
    BY <1>1, <2>1, <2>2
  <2>. QED
    BY <2>2, <2>3
<1>8. h = R(h)
  <2>. HIDE DEF R
  <2>. QED
    BY <1>4, <1>7
<1>9. h[0] = start /\ \A k \in 1..m : h[k] = step(h[k - 1], k)
  BY <1>1, <1>8
<1>. HIDE DEF R
<1>10. 0 \in G
  BY <1>1, <1>9
<1>11. ASSUME NEW k \in 1..m, k - 1 \in G PROVE k \in G
  <2>1. PICK x : x = h[k - 1] /\ Built(x, k - 1)
    BY <1>11
  <2>2. PICK d : d = WithBlobTx(x, b.pfbs[k].len, b.pfbs[k].blobs) /\ d = h[k]
    BY <1>9, <2>1 DEF step
  <2>3. Good(d) /\ Prefix(d, b) /\ Len(d.pfbs) = k /\ d.txs = x.txs
    <3>1. Good(x) /\ Prefix(x, b) /\ Len(x.pfbs) = k - 1 /\ k \in 1..Len(b.pfbs)
      BY <2>1
    <3>2. LET e == WithBlobTx(x, b.pfbs[k].len, b.pfbs[k].blobs)
          IN  Good(e) /\ Prefix(e, b) /\ Len(e.pfbs) = k /\ e.txs = x.txs
      BY <3>1, PfbAccepted
    <3>. QED
      BY <2>2, <3>2
  <2>4. Built(d, k) /\ k \in 0..m
    BY <1>1, <2>1, <2>3
  <2>. QED
    BY <2>2, <2>4
<1>12. \A k \in 0..m : k \in G
  <2>. HIDE DEF G
  <2>. QED
    BY <1>1, <1>10, <1>11, RangeInduction
<1>13. m \in G
  <2>. HIDE DEF G
  <2>1. m \in 0..m
    BY <1>1
  <2>. QED
    BY <1>12, <2>1
<1>. QED
  BY <1>13

\* Builders of the same transactions export the same square.
LEMMA SameSquare ==
    ASSUME NEW b, Good(b), NEW c, Good(c), Prefix(c, b),
           Len(c.txs) = Len(b.txs), Len(c.pfbs) = Len(b.pfbs)
    PROVE  c.currentSize = b.currentSize /\ Square(c) = Square(b)
<1>1. /\ b \in Builder /\ Sized(b) /\ Matched(b) /\ Stable(b)
      /\ c \in Builder /\ Sized(c) /\ Matched(c) /\ Stable(c)
  BY DEF Good
<1>2. PICK n, m \in Nat : n = Len(b.txs) /\ m = Len(b.pfbs)
  BY <1>1, PfbTypes
<1>3. /\ DOMAIN b.txs = 1..n /\ DOMAIN b.pfbs = 1..m
      /\ DOMAIN c.txs = 1..n /\ DOMAIN c.pfbs = 1..m
  BY <1>1, <1>2, PfbTypes
<1>4. /\ \A i \in 1..n : c.txs[i] = b.txs[i]
      /\ \A p \in 1..m : /\ c.pfbs[p].len = b.pfbs[p].len /\ c.pfbs[p].blobs = b.pfbs[p].blobs
                         /\ Len(c.pfbs[p].indexes) = Len(b.pfbs[p].indexes)
  BY <1>2 DEF Prefix
<1>5. TxBytes(c.txs) = TxBytes(b.txs)
  <2>1. [i \in DOMAIN c.txs |-> Delimited(c.txs[i])] = [i \in DOMAIN b.txs |-> Delimited(b.txs[i])]
    BY <1>3, <1>4
  <2>. QED
    BY <2>1 DEF TxBytes
<1>6. WorstBytes(c.pfbs) = WorstBytes(b.pfbs) /\ SetAside(c.pfbs) = SetAside(b.pfbs)
  BY <1>3, <1>4 DEF WorstBytes, SetAside
<1>7. c.txCounter = b.txCounter /\ c.pfbCounter = b.pfbCounter
  BY <1>1, <1>5, <1>6 DEF Sized
<1>8. Reserved(c) = Reserved(b) /\ c.currentSize = b.currentSize /\ (IsEmpty(c) <=> IsEmpty(b))
  BY <1>1, <1>6, <1>7 DEF Sized, Reserved, IsEmpty
<1>9. SortedBlobs(c) = SortedBlobs(b)
  BY <1>1, <1>3, <1>4, SortedSame
<1>10. PICK pl : pl = Placed(c) /\ pl = Placed(b)
  BY <1>8, <1>9 DEF Placed
<1>11. IndexedPfbs(c, pl) = IndexedPfbs(b, pl)
  <2>1. ASSUME NEW p \in 1..m
        PROVE  [c.pfbs[p] EXCEPT !.indexes = ShareIndexes(c.pfbs[p], p, pl)]
                 = [b.pfbs[p] EXCEPT !.indexes = ShareIndexes(b.pfbs[p], p, pl)]
    <3>1. PICK x, y \in Pfb : x = c.pfbs[p] /\ y = b.pfbs[p]
      BY <1>1, <1>2, PfbTypes
    <3>2. x.len = y.len /\ x.blobs = y.blobs /\ Len(x.indexes) = Len(y.indexes)
      BY <1>4, <3>1
    <3>3. x.indexes \in Seq(Nat) /\ y.indexes \in Seq(Nat)
      BY DEF Pfb
    <3>4. DOMAIN x.indexes = DOMAIN y.indexes
      BY <3>2, <3>3
    <3>5. ShareIndexes(x, p, pl) = ShareIndexes(y, p, pl)
      BY <3>4 DEF ShareIndexes
    <3>6. PICK z : z = ShareIndexes(x, p, pl)
      OBVIOUS
    <3>7. [x EXCEPT !.indexes = z] = [y EXCEPT !.indexes = z]
      BY <3>2 DEF Pfb
    <3>. QED
      BY <3>1, <3>5, <3>6, <3>7
  <2>. QED
    BY <1>3, <2>1 DEF IndexedPfbs
<1>12. SquareWith(c, pl) = SquareWith(b, pl)
  BY <1>5, <1>8, <1>11 DEF SquareWith
<1>. QED
  BY <1>8, <1>10, <1>12 DEF Square

=============================================================================
