----------------------------- MODULE SumTheorems -----------------------------
(***************************************************************************)
(* Sums over finite sets, as the modules write them with SumFunctionOnSet. *)
(* The provers cannot instantiate an induction principle that takes an     *)
(* operator, so induction is stated with sets of sets here and every other *)
(* fact is derived from it.                                                *)
(***************************************************************************)
EXTENDS Functions, FiniteSetTheorems, NaturalsInduction, TLAPS

-----------------------------------------------------------------------------
(***************************************************************************)
(* Induction                                                               *)
(***************************************************************************)
\* A set of naturals that is not empty has a least element.
LEMMA LeastNatural ==
    ASSUME NEW S, S \subseteq Nat, S # {}
    PROVE  \E x \in S : \A y \in S : x <= y
<1>1. PICK x \in S : \A y \in S : ~(<<y, x>> \in OpToRel(<, Nat))
  BY NatLessThanWellFounded, WFMin
<1>2. \A y \in S : ~(y < x)
  BY <1>1, Zenon DEF OpToRel
<1>. QED
  BY <1>2

\* Induction over the finite subsets of a set: what holds of the empty set and
\* is kept by one more element holds of the whole.
LEMMA SubsetInduction ==
    ASSUME NEW S, IsFiniteSet(S), NEW Good,
           {} \in Good,
           \A T \in SUBSET S : \A x \in S \ T : T \in Good => T \cup {x} \in Good
    PROVE  S \in Good
<1>1. SUFFICES ASSUME S \notin Good PROVE FALSE
  OBVIOUS
<1>. DEFINE Bad == {T \in SUBSET S : T \notin Good}
            N == {n \in Nat : \E T \in Bad : Cardinality(T) = n}
<1>2. \A T \in SUBSET S : IsFiniteSet(T) /\ Cardinality(T) \in Nat
  BY FS_Subset, FS_CardinalityType
<1>3. N # {}
  BY <1>1, <1>2
<1>4. PICK n \in N : \A m \in N : n <= m
  <2>. HIDE DEF N
  <2>1. N \subseteq Nat
    BY DEF N
  <2>. QED
    BY <1>3, <2>1, LeastNatural
<1>5. PICK T \in Bad : Cardinality(T) = n
  OBVIOUS
<1>6. T # {}
  OBVIOUS
<1>7. PICK x \in T : TRUE
  BY <1>6
<1>8. T \ {x} \in SUBSET S /\ Cardinality(T \ {x}) = n - 1
  BY <1>2, <1>5, <1>7, FS_RemoveElement
<1>9. T \ {x} \in Good
  <2>1. SUFFICES ASSUME T \ {x} \notin Good PROVE FALSE
    OBVIOUS
  <2>2. n - 1 \in N
    BY <1>2, <1>8, <2>1
  <2>. QED
    BY <2>2, <1>4
<1>10. (T \ {x}) \cup {x} = T /\ x \in S \ (T \ {x})
  BY <1>7
<1>. QED
  BY <1>8, <1>9, <1>10

\* The same with every smaller subset as the hypothesis.
LEMMA StrongSubsetInduction ==
    ASSUME NEW S, IsFiniteSet(S), NEW Good,
           \A T \in SUBSET S : (\A U \in SUBSET T : U # T => U \in Good) => T \in Good
    PROVE  S \in Good
<1>1. SUFFICES ASSUME S \notin Good PROVE FALSE
  OBVIOUS
<1>. DEFINE Bad == {T \in SUBSET S : T \notin Good}
            N == {n \in Nat : \E T \in Bad : Cardinality(T) = n}
<1>2. \A T \in SUBSET S : IsFiniteSet(T) /\ Cardinality(T) \in Nat
  BY FS_Subset, FS_CardinalityType
<1>3. N # {}
  BY <1>1, <1>2
<1>4. PICK n \in N : \A m \in N : n <= m
  <2>. HIDE DEF N
  <2>1. N \subseteq Nat
    BY DEF N
  <2>. QED
    BY <1>3, <2>1, LeastNatural
<1>5. PICK T \in Bad : Cardinality(T) = n
  OBVIOUS
<1>6. ASSUME NEW U \in SUBSET T, U # T PROVE U \in Good
  <2>1. U \in SUBSET S /\ Cardinality(U) < Cardinality(T)
    BY <1>2, <1>6, FS_Subset
  <2>. QED
    BY <1>2, <1>4, <1>5, <2>1
<1>. QED
  BY <1>5, <1>6

-----------------------------------------------------------------------------
(***************************************************************************)
(* The recursion behind SumFunctionOnSet has one solution                  *)
(***************************************************************************)
Pick(s) == CHOOSE x \in s : TRUE

\* One step of the recursion, and the functions that satisfy it on a set.
SumStep(f, g, s) == IF s = {} THEN 0 ELSE f[Pick(s)] + g[s \ {Pick(s)}]
IsSum(f, g, T) == g = [s \in SUBSET T |-> SumStep(f, g, s)]

\* What a solution of the recursion is on one set.
LEMMA IsSumAt ==
    ASSUME NEW f, NEW g, NEW T, IsSum(f, g, T), NEW s \in SUBSET T
    PROVE  /\ s = {} => g[s] = 0
           /\ s # {} => /\ Pick(s) \in s
                        /\ s \ {Pick(s)} \in SUBSET T
                        /\ g[s] = f[Pick(s)] + g[s \ {Pick(s)}]
<1>1. s # {} => Pick(s) \in s
  BY DEF Pick
<1>2. g[s] = SumStep(f, g, s)
  BY DEF IsSum
<1>. QED
  BY <1>1, <1>2 DEF SumStep

\* Two solutions agree where both are defined.
LEMMA IsSumUnique ==
    ASSUME NEW f, NEW g, NEW T, IsSum(f, g, T), NEW h, NEW U, IsSum(f, h, U),
           NEW s, s \subseteq T, s \subseteq U, IsFiniteSet(s)
    PROVE  g[s] = h[s]
<1>1. SUFFICES ASSUME g[s] # h[s] PROVE FALSE
  OBVIOUS
<1>. DEFINE N == {n \in Nat : \E r \in SUBSET s : Cardinality(r) = n /\ g[r] # h[r]}
<1>2. \A r \in SUBSET s : IsFiniteSet(r) /\ Cardinality(r) \in Nat
  BY FS_Subset, FS_CardinalityType
<1>3. N # {}
  BY <1>1, <1>2
<1>4. PICK n \in N : \A m \in N : n <= m
  <2>. HIDE DEF N
  <2>1. N \subseteq Nat
    BY DEF N
  <2>. QED
    BY <1>3, <2>1, LeastNatural
<1>5. PICK r \in SUBSET s : Cardinality(r) = n /\ g[r] # h[r]
  OBVIOUS
<1>6. r \in SUBSET T /\ r \in SUBSET U
  OBVIOUS
<1>7. r # {}
  BY <1>5, <1>6, IsSumAt
<1>. DEFINE x == Pick(r)
<1>8. /\ x \in r
      /\ g[r] = f[x] + g[r \ {x}]
      /\ h[r] = f[x] + h[r \ {x}]
  BY <1>6, <1>7, IsSumAt
<1>9. g[r \ {x}] # h[r \ {x}]
  BY <1>5, <1>8
<1>10. r \ {x} \in SUBSET s /\ Cardinality(r \ {x}) = n - 1 /\ n - 1 \in Nat
  <2>1. x \in r
    BY <1>8
  <2>2. Cardinality(r \ {x}) = n - 1 /\ r \ {x} \in SUBSET s
    BY <2>1, <1>2, <1>5, FS_RemoveElement
  <2>. QED
    BY <2>2, <1>2
<1>11. n - 1 \in N
  BY <1>9, <1>10
<1>. QED
  BY <1>11, <1>4

\* The recursion has a solution on every finite set.
LEMMA IsSumExists ==
    ASSUME NEW f, NEW S, IsFiniteSet(S)
    PROVE  \E g : IsSum(f, g, S)
<1>1. SUFFICES ASSUME ~ \E g : IsSum(f, g, S) PROVE FALSE
  OBVIOUS
<1>. DEFINE Bad(T) == ~ \E g : IsSum(f, g, T)
            N == {n \in Nat : \E T \in SUBSET S : Cardinality(T) = n /\ Bad(T)}
<1>2. \A T \in SUBSET S : IsFiniteSet(T) /\ Cardinality(T) \in Nat
  BY FS_Subset, FS_CardinalityType
<1>3. N # {}
  BY <1>1, <1>2
<1>4. PICK n \in N : \A m \in N : n <= m
  <2>. HIDE DEF N
  <2>1. N \subseteq Nat
    BY DEF N
  <2>. QED
    BY <1>3, <2>1, LeastNatural
<1>5. PICK T \in SUBSET S : Cardinality(T) = n /\ Bad(T)
  OBVIOUS
<1>. DEFINE Sol(r) == CHOOSE h : IsSum(f, h, r)
            g == [s \in SUBSET T |-> IF s = {} THEN 0
                     ELSE f[Pick(s)] + Sol(s \ {Pick(s)})[s \ {Pick(s)}]]
<1>6. ASSUME NEW s \in SUBSET T, s # {}
      PROVE  LET r == s \ {Pick(s)}
             IN  Pick(s) \in s /\ r \in SUBSET T /\ IsFiniteSet(r) /\ IsSum(f, Sol(r), r)
  <2>. DEFINE r == s \ {Pick(s)}
  <2>1. Pick(s) \in s
    BY <1>6 DEF Pick
  <2>2. IsFiniteSet(s) /\ Cardinality(s) <= n /\ s \in SUBSET S /\ Cardinality(s) \in Nat
    BY <1>2, <1>5, FS_Subset
  <2>3. IsFiniteSet(r) /\ Cardinality(r) = Cardinality(s) - 1 /\ r \in SUBSET S
    BY <2>1, <2>2, FS_RemoveElement
  <2>4. Cardinality(r) \in Nat /\ Cardinality(r) < n
    BY <2>2, <2>3, <1>2
  <2>5. ~Bad(r)
    <3>1. Cardinality(r) \notin N
      BY <2>4, <1>4
    <3>. QED
      BY <3>1, <2>3, <2>4
  <2>6. IsSum(f, Sol(r), r)
    BY <2>5
  <2>. QED
    BY <2>1, <2>3, <2>6
<1>7. ASSUME NEW s \in SUBSET T, s # {}
      PROVE  g[s] = f[Pick(s)] + g[s \ {Pick(s)}]
  <2>. DEFINE r == s \ {Pick(s)}
  <2>1. Pick(s) \in s /\ r \in SUBSET T /\ IsFiniteSet(r) /\ IsSum(f, Sol(r), r)
    BY <1>6, <1>7
  <2>2. g[s] = f[Pick(s)] + Sol(r)[r]
    BY <1>7
  <2>3. Sol(r)[r] = g[r]
    <3>1. CASE r = {}
      <4>1. Sol(r)[r] = 0
        BY <2>1, <3>1, IsSumAt
      <4>2. g[r] = 0
        BY <3>1, <2>1
      <4>. QED
        BY <4>1, <4>2
    <3>2. CASE r # {}
      <4>. DEFINE q == r \ {Pick(r)}
      <4>1. Pick(r) \in r /\ q \in SUBSET T /\ IsFiniteSet(q) /\ IsSum(f, Sol(q), q)
        BY <1>6, <2>1, <3>2
      <4>2. g[r] = f[Pick(r)] + Sol(q)[q]
        BY <2>1, <3>2
      <4>3. ASSUME NEW h, IsSum(f, h, r), NEW k, IsSum(f, k, q)
            PROVE  h[r] = f[Pick(r)] + h[q] /\ h[q] = k[q]
        <5>1. h[r] = f[Pick(r)] + h[q]
          <6>. HIDE DEF r
          <6>. QED
            BY <3>2, <4>3, IsSumAt
        <5>2. q \subseteq r /\ q \subseteq q
          OBVIOUS
        <5>. HIDE DEF q, r
        <5>. QED
          BY <4>1, <4>3, <5>1, <5>2, IsSumUnique
      <4>4. Sol(r)[r] = f[Pick(r)] + Sol(q)[q]
        <5>. HIDE DEF Sol, q, r
        <5>. QED
          BY <2>1, <4>1, <4>3
      <4>. QED
        BY <4>2, <4>4
    <3>. QED
      BY <3>1, <3>2
  <2>. QED
    BY <2>2, <2>3
<1>8. IsSum(f, g, T)
  <2>1. \A s \in SUBSET T : g[s] = SumStep(f, g, s)
    <3>1. SUFFICES ASSUME NEW s \in SUBSET T PROVE g[s] = SumStep(f, g, s)
      OBVIOUS
    <3>2. CASE s = {}
      BY <3>2 DEF SumStep
    <3>3. CASE s # {}
      <4>. HIDE DEF g
      <4>. QED
        BY <3>3, <1>7 DEF SumStep
    <3>. QED
      BY <3>2, <3>3
  <2>2. DOMAIN g = SUBSET T /\ g = [s \in DOMAIN g |-> g[s]]
    OBVIOUS
  <2>. HIDE DEF g
  <2>. QED
    BY <2>1, <2>2 DEF IsSum
<1>. QED
  BY <1>5, <1>8

\* The sum of no terms, and of the terms of a set with one singled out.
LEMMA SumUnfold ==
    ASSUME NEW f, NEW S, IsFiniteSet(S)
    PROVE  /\ S = {} => SumFunctionOnSet(f, S) = 0
           /\ S # {} => /\ Pick(S) \in S
                        /\ SumFunctionOnSet(f, S) =
                             f[Pick(S)] + SumFunctionOnSet(f, S \ {Pick(S)})
<1>. DEFINE Sol(T) == CHOOSE g : IsSum(f, g, T)
<1>1. \A T : SumFunctionOnSet(f, T) = Sol(T)[T]
  BY Zenon DEF SumFunctionOnSet, FoldFunctionOnSet, MapThenFoldSet, IsSum, SumStep, Pick
<1>2. \A T : IsFiniteSet(T) => IsSum(f, Sol(T), T)
  BY IsSumExists, Zenon
<1>. HIDE DEF Sol
<1>3. CASE S = {}
  BY <1>1, <1>2, <1>3, IsSumAt
<1>4. CASE S # {}
  <2>. DEFINE r == S \ {Pick(S)}
  <2>1. /\ Pick(S) \in S /\ r \in SUBSET S
        /\ Sol(S)[S] = f[Pick(S)] + Sol(S)[r]
    BY <1>2, <1>4, IsSumAt
  <2>2. IsFiniteSet(r)
    BY FS_RemoveElement
  <2>3. Sol(S)[r] = Sol(r)[r]
    <3>1. IsSum(f, Sol(S), S) /\ IsSum(f, Sol(r), r)
      BY <1>2, <2>2
    <3>2. r \subseteq S /\ r \subseteq r
      OBVIOUS
    <3>. HIDE DEF r
    <3>. QED
      BY <2>2, <3>1, <3>2, IsSumUnique
  <2>. QED
    BY <1>1, <1>4, <2>1, <2>3
<1>. QED
  BY <1>3, <1>4

-----------------------------------------------------------------------------
(***************************************************************************)
(* Sums of integers                                                        *)
(***************************************************************************)
\* The sum over no terms.
LEMMA SumEmpty == \A f : SumFunctionOnSet(f, {}) = 0
BY SumUnfold, FS_EmptySet

\* Any element may be singled out, not only the one the recursion picks.
LEMMA SumRemove ==
    ASSUME NEW S, IsFiniteSet(S), NEW f, \A y \in S : f[y] \in Int
    PROVE  /\ SumFunctionOnSet(f, S) \in Int
           /\ \A x \in S : SumFunctionOnSet(f, S) = f[x] + SumFunctionOnSet(f, S \ {x})
<1>. DEFINE Sum(T) == SumFunctionOnSet(f, T)
            Good == {T \in SUBSET S : /\ Sum(T) \in Int
                                      /\ \A x \in T : Sum(T) = f[x] + Sum(T \ {x})}
<1>1. ASSUME NEW T \in SUBSET S, \A U \in SUBSET T : U # T => U \in Good
      PROVE  T \in Good
  <2>1. IsFiniteSet(T)
    BY FS_Subset
  <2>2. CASE T = {}
    BY <2>2, SumEmpty
  <2>3. CASE T # {}
    <3>. DEFINE c == Pick(T)
    <3>1. c \in T /\ Sum(T) = f[c] + Sum(T \ {c})
      BY <2>1, <2>3, SumUnfold
    <3>2. T \ {c} \in Good
      BY <1>1, <3>1
    <3>3. Sum(T) \in Int
      BY <3>1, <3>2
    <3>4. ASSUME NEW x \in T, x # c PROVE Sum(T) = f[x] + Sum(T \ {x})
      <4>1. T \ {x} \in Good
        BY <1>1
      <4>2. Sum(T \ {c}) = f[x] + Sum((T \ {c}) \ {x})
        BY <3>2, <3>4
      <4>3. (T \ {x}) \ {c} = (T \ {c}) \ {x}
        OBVIOUS
      <4>4. Sum(T \ {x}) = f[c] + Sum((T \ {c}) \ {x})
        <5>1. Sum(T \ {x}) = f[c] + Sum((T \ {x}) \ {c})
          BY <3>1, <3>4, <4>1
        <5>. QED
          BY <5>1, <4>3, Zenon
      <4>5. (T \ {c}) \ {x} \in Good
        BY <1>1, <3>1
      <4>6. f[x] \in Int /\ f[c] \in Int /\ Sum((T \ {c}) \ {x}) \in Int
        BY <3>1, <4>5
      <4>. HIDE DEF c, Sum
      <4>. QED
        BY <3>1, <4>2, <4>4, <4>6
    <3>5. \A x \in T : Sum(T) = f[x] + Sum(T \ {x})
      BY <3>1, <3>4
    <3>. QED
      BY <3>3, <3>5
  <2>. QED
    BY <2>2, <2>3
<1>2. S \in Good
  <2>. HIDE DEF Good
  <2>. QED
    BY <1>1, StrongSubsetInduction
<1>. QED
  BY <1>2

\* The sum over a set with one more element.
LEMMA SumAdd ==
    ASSUME NEW S, IsFiniteSet(S), NEW x, x \notin S,
           NEW f, \A y \in S \cup {x} : f[y] \in Int
    PROVE  SumFunctionOnSet(f, S \cup {x}) = f[x] + SumFunctionOnSet(f, S)
<1>1. IsFiniteSet(S \cup {x}) /\ (S \cup {x}) \ {x} = S
  BY FS_AddElement
<1>2. \A y \in S \cup {x} :
        SumFunctionOnSet(f, S \cup {x}) = f[y] + SumFunctionOnSet(f, (S \cup {x}) \ {y})
  BY <1>1, SumRemove
<1>. QED
  BY <1>1, <1>2

\* A sum of one term.
LEMMA SumSingleton ==
    ASSUME NEW x, NEW f, f[x] \in Int
    PROVE  SumFunctionOnSet(f, {x}) = f[x]
<1>1. IsFiniteSet({}) /\ x \notin {} /\ {} \cup {x} = {x} /\ \A y \in {} \cup {x} : f[y] \in Int
  BY FS_EmptySet
<1>2. SumFunctionOnSet(f, {} \cup {x}) = f[x] + SumFunctionOnSet(f, {})
  BY <1>1, SumAdd
<1>3. SumFunctionOnSet(f, {x}) = f[x] + 0
  BY <1>1, <1>2, SumEmpty
<1> QED
  BY <1>3

\* A sum depends on the terms only.
LEMMA SumEqual ==
    ASSUME NEW S, IsFiniteSet(S), NEW f, \A y \in S : f[y] \in Int,
           NEW g, \A y \in S : g[y] = f[y]
    PROVE  SumFunctionOnSet(g, S) = SumFunctionOnSet(f, S)
<1>. DEFINE Good == {T \in SUBSET S : SumFunctionOnSet(g, T) = SumFunctionOnSet(f, T)}
<1>1. {} \in Good
  BY SumEmpty
<1>2. ASSUME NEW T \in SUBSET S, NEW x \in S \ T, T \in Good PROVE T \cup {x} \in Good
  <2>1. IsFiniteSet(T) /\ T \cup {x} \in SUBSET S /\ x \notin T
    BY FS_Subset
  <2>2. \A y \in T \cup {x} : f[y] \in Int /\ g[y] \in Int
    OBVIOUS
  <2>3. SumFunctionOnSet(g, T \cup {x}) = g[x] + SumFunctionOnSet(g, T)
    BY <2>1, <2>2, SumAdd
  <2>4. SumFunctionOnSet(f, T \cup {x}) = f[x] + SumFunctionOnSet(f, T)
    BY <2>1, <2>2, SumAdd
  <2>. QED
    BY <1>2, <2>1, <2>3, <2>4
<1>. HIDE DEF Good
<1>3. S \in Good
  BY <1>1, <1>2, SubsetInduction
<1>. QED
  BY <1>3 DEF Good

\* Sums of naturals are naturals.
LEMMA SumNat ==
    ASSUME NEW S, IsFiniteSet(S), NEW f, \A y \in S : f[y] \in Nat
    PROVE  SumFunctionOnSet(f, S) \in Nat
<1>. DEFINE Good == {T \in SUBSET S : SumFunctionOnSet(f, T) \in Nat}
<1>1. {} \in Good
  BY SumEmpty
<1>2. ASSUME NEW T \in SUBSET S, NEW x \in S \ T, T \in Good PROVE T \cup {x} \in Good
  <2>1. IsFiniteSet(T) /\ T \cup {x} \in SUBSET S /\ x \notin T
    BY FS_Subset
  <2>2. \A y \in T \cup {x} : f[y] \in Int
    OBVIOUS
  <2>3. SumFunctionOnSet(f, T \cup {x}) = f[x] + SumFunctionOnSet(f, T)
    BY <2>1, <2>2, SumAdd
  <2>. QED
    BY <1>2, <2>1, <2>3
<1>. HIDE DEF Good
<1>3. S \in Good
  BY <1>1, <1>2, SubsetInduction
<1>. QED
  BY <1>3 DEF Good

\* Larger terms have a larger sum.
LEMMA SumMonotone ==
    ASSUME NEW S, IsFiniteSet(S), NEW f, NEW g,
           \A y \in S : f[y] \in Int /\ g[y] \in Int /\ f[y] <= g[y]
    PROVE  SumFunctionOnSet(f, S) <= SumFunctionOnSet(g, S)
<1>. DEFINE Good == {T \in SUBSET S : SumFunctionOnSet(f, T) <= SumFunctionOnSet(g, T)}
<1>1. {} \in Good
  BY SumEmpty
<1>2. ASSUME NEW T \in SUBSET S, NEW x \in S \ T, T \in Good PROVE T \cup {x} \in Good
  <2>1. IsFiniteSet(T) /\ T \cup {x} \in SUBSET S /\ x \notin T
    BY FS_Subset
  <2>2. \A y \in T \cup {x} : f[y] \in Int /\ g[y] \in Int
    OBVIOUS
  <2>3. SumFunctionOnSet(g, T \cup {x}) = g[x] + SumFunctionOnSet(g, T)
    BY <2>1, <2>2, SumAdd
  <2>4. SumFunctionOnSet(f, T \cup {x}) = f[x] + SumFunctionOnSet(f, T)
    BY <2>1, <2>2, SumAdd
  <2>5. SumFunctionOnSet(f, T) \in Int /\ SumFunctionOnSet(g, T) \in Int
    BY <2>1, <2>2, SumRemove
  <2>. QED
    BY <1>2, <2>1, <2>2, <2>3, <2>4, <2>5
<1>. HIDE DEF Good
<1>3. S \in Good
  BY <1>1, <1>2, SubsetInduction
<1>. QED
  BY <1>3 DEF Good

\* Sums over disjoint sets add up.
LEMMA SumUnion ==
    ASSUME NEW S, IsFiniteSet(S), NEW R, IsFiniteSet(R), R \cap S = {},
           NEW f, \A y \in R \cup S : f[y] \in Int
    PROVE  SumFunctionOnSet(f, R \cup S) = SumFunctionOnSet(f, R) + SumFunctionOnSet(f, S)
<1>. DEFINE Sum(T) == SumFunctionOnSet(f, T)
            Good == {T \in SUBSET S : Sum(R \cup T) = Sum(R) + Sum(T)}
<1>1. {} \in Good
  <2>1. Sum(R) \in Int
    BY SumRemove
  <2>. QED
    BY <2>1, SumEmpty
<1>2. ASSUME NEW T \in SUBSET S, NEW x \in S \ T, T \in Good PROVE T \cup {x} \in Good
  <2>1. IsFiniteSet(T) /\ T \cup {x} \in SUBSET S /\ x \notin T
    BY FS_Subset
  <2>2. IsFiniteSet(R \cup T) /\ x \notin R \cup T /\ R \cup (T \cup {x}) = (R \cup T) \cup {x}
    BY <2>1, FS_Union
  <2>3. Sum((R \cup T) \cup {x}) = f[x] + Sum(R \cup T)
    <3>1. \A y \in (R \cup T) \cup {x} : f[y] \in Int
      OBVIOUS
    <3>. QED
      BY <2>2, <3>1, SumAdd
  <2>4. Sum(T \cup {x}) = f[x] + Sum(T)
    <3>1. \A y \in T \cup {x} : f[y] \in Int
      OBVIOUS
    <3>. QED
      BY <2>1, <3>1, SumAdd
  <2>5. Sum(T) \in Int /\ Sum(R) \in Int /\ f[x] \in Int
    BY <2>1, SumRemove
  <2>6. Sum(R \cup (T \cup {x})) = Sum((R \cup T) \cup {x})
    BY <2>2, Zenon
  <2>7. Sum(R \cup T) = Sum(R) + Sum(T)
    BY <1>2
  <2>8. Sum(R \cup (T \cup {x})) = Sum(R) + Sum(T \cup {x})
    <3>. HIDE DEF Sum
    <3>. QED
      BY <2>3, <2>4, <2>5, <2>6, <2>7
  <2>. QED
    BY <2>1, <2>8
<1>. HIDE DEF Good
<1>3. S \in Good
  BY <1>1, <1>2, SubsetInduction
<1>. QED
  BY <1>3 DEF Good

\* The sum of the sums of two terms.
LEMMA SumPlus ==
    ASSUME NEW S, IsFiniteSet(S), NEW f, NEW g, NEW h,
           \A y \in S : f[y] \in Int /\ g[y] \in Int /\ h[y] = f[y] + g[y]
    PROVE  SumFunctionOnSet(h, S) = SumFunctionOnSet(f, S) + SumFunctionOnSet(g, S)
<1>. DEFINE Good == {T \in SUBSET S : SumFunctionOnSet(h, T) =
                                        SumFunctionOnSet(f, T) + SumFunctionOnSet(g, T)}
<1>1. {} \in Good
  BY SumEmpty
<1>2. ASSUME NEW T \in SUBSET S, NEW x \in S \ T, T \in Good PROVE T \cup {x} \in Good
  <2>1. IsFiniteSet(T) /\ T \cup {x} \in SUBSET S /\ x \notin T
    BY FS_Subset
  <2>2. \A y \in T \cup {x} : f[y] \in Int /\ g[y] \in Int /\ h[y] \in Int
    OBVIOUS
  <2>3. /\ SumFunctionOnSet(f, T \cup {x}) = f[x] + SumFunctionOnSet(f, T)
        /\ SumFunctionOnSet(g, T \cup {x}) = g[x] + SumFunctionOnSet(g, T)
        /\ SumFunctionOnSet(h, T \cup {x}) = h[x] + SumFunctionOnSet(h, T)
    BY <2>1, <2>2, SumAdd
  <2>4. SumFunctionOnSet(f, T) \in Int /\ SumFunctionOnSet(g, T) \in Int
    BY <2>1, <2>2, SumRemove
  <2>. QED
    BY <1>2, <2>1, <2>2, <2>3, <2>4
<1>. HIDE DEF Good
<1>3. S \in Good
  BY <1>1, <1>2, SubsetInduction
<1>. QED
  BY <1>3 DEF Good

\* Terms that are zero have the sum zero.
LEMMA SumZero ==
    ASSUME NEW S, IsFiniteSet(S), NEW f, \A y \in S : f[y] = 0
    PROVE  SumFunctionOnSet(f, S) = 0
<1>. DEFINE Good == {T \in SUBSET S : SumFunctionOnSet(f, T) = 0}
<1>1. {} \in Good
  BY SumEmpty
<1>2. ASSUME NEW T \in SUBSET S, NEW x \in S \ T, T \in Good PROVE T \cup {x} \in Good
  <2>1. IsFiniteSet(T) /\ T \cup {x} \in SUBSET S /\ x \notin T
    BY FS_Subset
  <2>2. SumFunctionOnSet(f, T \cup {x}) = f[x] + SumFunctionOnSet(f, T)
    <3>1. \A y \in T \cup {x} : f[y] \in Int
      OBVIOUS
    <3>. QED
      BY <2>1, <3>1, SumAdd
  <2>. QED
    BY <1>2, <2>1, <2>2
<1>. HIDE DEF Good
<1>3. S \in Good
  BY <1>1, <1>2, SubsetInduction
<1>. QED
  BY <1>3 DEF Good

\* Leaving out natural terms makes a sum no larger.
LEMMA SumSubset ==
    ASSUME NEW S, IsFiniteSet(S), NEW T \in SUBSET S, NEW f, \A y \in S : f[y] \in Nat
    PROVE  SumFunctionOnSet(f, T) <= SumFunctionOnSet(f, S)
<1>1. IsFiniteSet(T) /\ IsFiniteSet(S \ T) /\ T \cap (S \ T) = {} /\ T \cup (S \ T) = S
  BY FS_Subset, FS_Difference
<1>2. SumFunctionOnSet(f, S) = SumFunctionOnSet(f, T) + SumFunctionOnSet(f, S \ T)
  <2>1. SumFunctionOnSet(f, T \cup (S \ T)) =
          SumFunctionOnSet(f, T) + SumFunctionOnSet(f, S \ T)
    BY <1>1, SumUnion
  <2>. QED
    BY <1>1, <2>1, Zenon
<1>3. SumFunctionOnSet(f, T) \in Nat /\ SumFunctionOnSet(f, S \ T) \in Nat
  BY <1>1, SumNat
<1>. QED
  BY <1>1, <1>2, <1>3

\* A factor may be taken out of a sum.
LEMMA SumTimes ==
    ASSUME NEW S, IsFiniteSet(S), NEW f, NEW g, NEW c \in Int,
           \A y \in S : f[y] \in Int /\ g[y] = c * f[y]
    PROVE  SumFunctionOnSet(g, S) = c * SumFunctionOnSet(f, S)
<1>. DEFINE Good == {T \in SUBSET S : SumFunctionOnSet(g, T) = c * SumFunctionOnSet(f, T)}
<1>1. {} \in Good
  BY SumEmpty
<1>2. ASSUME NEW T \in SUBSET S, NEW x \in S \ T, T \in Good PROVE T \cup {x} \in Good
  <2>1. IsFiniteSet(T) /\ T \cup {x} \in SUBSET S /\ x \notin T
    BY FS_Subset
  <2>2. \A y \in T \cup {x} : f[y] \in Int /\ g[y] \in Int
    OBVIOUS
  <2>3. /\ SumFunctionOnSet(f, T \cup {x}) = f[x] + SumFunctionOnSet(f, T)
        /\ SumFunctionOnSet(g, T \cup {x}) = g[x] + SumFunctionOnSet(g, T)
    BY <2>1, <2>2, SumAdd
  <2>4. SumFunctionOnSet(f, T) \in Int /\ f[x] \in Int
    BY <2>1, <2>2, SumRemove
  <2>5. c * (f[x] + SumFunctionOnSet(f, T)) = c * f[x] + c * SumFunctionOnSet(f, T)
    BY <2>4
  <2>. QED
    BY <1>2, <2>1, <2>3, <2>5
<1>. HIDE DEF Good
<1>3. S \in Good
  BY <1>1, <1>2, SubsetInduction
<1>. QED
  BY <1>3 DEF Good

\* Equal terms have the sum of a multiplication.
LEMMA SumConstant ==
    ASSUME NEW S, IsFiniteSet(S), NEW c \in Int, NEW f, \A y \in S : f[y] = c
    PROVE  SumFunctionOnSet(f, S) = c * Cardinality(S)
<1>. DEFINE Good == {T \in SUBSET S : SumFunctionOnSet(f, T) = c * Cardinality(T)}
<1>1. {} \in Good
  BY SumEmpty, FS_EmptySet
<1>2. ASSUME NEW T \in SUBSET S, NEW x \in S \ T, T \in Good PROVE T \cup {x} \in Good
  <2>1. IsFiniteSet(T) /\ T \cup {x} \in SUBSET S /\ x \notin T
    BY FS_Subset
  <2>2. SumFunctionOnSet(f, T \cup {x}) = f[x] + SumFunctionOnSet(f, T)
    <3>1. \A y \in T \cup {x} : f[y] \in Int
      OBVIOUS
    <3>. QED
      BY <2>1, <3>1, SumAdd
  <2>3. Cardinality(T \cup {x}) = Cardinality(T) + 1 /\ Cardinality(T) \in Nat
    BY <2>1, FS_AddElement, FS_CardinalityType
  <2>4. f[x] = c /\ SumFunctionOnSet(f, T) = c * Cardinality(T)
    BY <1>2
  <2>. DEFINE n == Cardinality(T)
              N == Cardinality(T \cup {x})
              s == SumFunctionOnSet(f, T \cup {x})
  <2>5. n \in Nat /\ N = n + 1 /\ s = c + c * n
    BY <2>2, <2>3, <2>4
  <2>. HIDE DEF n, N, s
  <2>6. s = c * N
    BY <2>5
  <2>. QED
    BY <2>1, <2>6 DEF n, N, s
<1>. HIDE DEF Good
<1>3. S \in Good
  BY <1>1, <1>2, SubsetInduction
<1>. QED
  BY <1>3 DEF Good

\* Terms that are zero may be left out.
LEMMA SumPad ==
    ASSUME NEW S, IsFiniteSet(S), NEW T \in SUBSET S,
           NEW f, \A y \in T : f[y] \in Int, \A y \in S \ T : f[y] = 0
    PROVE  SumFunctionOnSet(f, S) = SumFunctionOnSet(f, T)
<1>1. IsFiniteSet(T) /\ IsFiniteSet(S \ T) /\ T \cap (S \ T) = {} /\ T \cup (S \ T) = S
  BY FS_Subset, FS_Difference
<1>2. SumFunctionOnSet(f, T \cup (S \ T)) = SumFunctionOnSet(f, T) + SumFunctionOnSet(f, S \ T)
  <2>1. \A y \in T \cup (S \ T) : f[y] \in Int
    OBVIOUS
  <2>. QED
    BY <1>1, <2>1, SumUnion
<1>3. SumFunctionOnSet(f, S \ T) = 0 /\ SumFunctionOnSet(f, T) \in Int
  BY <1>1, SumZero, SumRemove
<1>4. SumFunctionOnSet(f, S) = SumFunctionOnSet(f, T) + SumFunctionOnSet(f, S \ T)
  BY <1>1, <1>2, Zenon
<1>. QED
  BY <1>3, <1>4

\* A finite table of integers, given by its rows R and by its columns C, with
\* the sums of the rows and of the columns.
Table(S, T, R, C, rows, cols) ==
    /\ IsFiniteSet(S) /\ IsFiniteSet(T)
    /\ \A x \in S : \A y \in T : R[x][y] \in Int
    /\ \A x \in S : \A y \in T : C[y][x] = R[x][y]
    /\ \A x \in S : rows[x] = SumFunctionOnSet(R[x], T)
    /\ \A y \in T : cols[y] = SumFunctionOnSet(C[y], S)

\* The terms of a table add up to the same by rows and by columns.
LEMMA SumSwap ==
    ASSUME NEW S, NEW T, NEW R, NEW C, NEW rows, NEW cols, Table(S, T, R, C, rows, cols)
    PROVE  SumFunctionOnSet(rows, S) = SumFunctionOnSet(cols, T)
<1>. USE DEF Table
<1>. DEFINE part(U) == [y \in T |-> SumFunctionOnSet(C[y], U)]
            Good == {U \in SUBSET S : SumFunctionOnSet(rows, U) = SumFunctionOnSet(part(U), T)}
<1>1. {} \in Good
  <2>1. \A y \in T : part({})[y] = 0
    BY SumEmpty
  <2>2. SumFunctionOnSet(part({}), T) = 0
    <3>. DEFINE z == part({})
    <3>. HIDE DEF z
    <3>1. \A y \in T : z[y] = 0
      BY <2>1 DEF z
    <3>2. SumFunctionOnSet(z, T) = 0
      BY <3>1, SumZero
    <3>. QED
      BY <3>2 DEF z
  <2>. QED
    BY <2>2, SumEmpty
<1>2. ASSUME NEW U \in SUBSET S, NEW x \in S \ U, U \in Good PROVE U \cup {x} \in Good
  <2>1. IsFiniteSet(U) /\ U \cup {x} \in SUBSET S /\ x \notin U
    BY FS_Subset
  <2>. DEFINE before == part(U)
              after == part(U \cup {x})
  <2>2. \A y \in T : before[y] = SumFunctionOnSet(C[y], U) /\ after[y] = SumFunctionOnSet(C[y], U \cup {x})
    OBVIOUS
  <2>3. ASSUME NEW y \in T
        PROVE  R[x][y] \in Int /\ before[y] \in Int /\ after[y] = R[x][y] + before[y]
    <3>1. \A z \in U \cup {x} : C[y][z] \in Int
      OBVIOUS
    <3>2. /\ SumFunctionOnSet(C[y], U \cup {x}) = C[y][x] + SumFunctionOnSet(C[y], U)
          /\ SumFunctionOnSet(C[y], U) \in Int
      BY <2>1, <3>1, SumAdd, SumRemove
    <3>3. C[y][x] = R[x][y] /\ R[x][y] \in Int
      OBVIOUS
    <3>. HIDE DEF before, after
    <3>. QED
      BY <2>2, <3>2, <3>3
  <2>. HIDE DEF before, after
  <2>4. SumFunctionOnSet(after, T) = SumFunctionOnSet(R[x], T) + SumFunctionOnSet(before, T)
    BY <2>3, SumPlus
  <2>5. \A z \in U \cup {x} : rows[z] \in Int
    <3>. TAKE z \in U \cup {x}
    <3>1. \A y \in T : R[z][y] \in Int
      OBVIOUS
    <3>2. SumFunctionOnSet(R[z], T) \in Int
      BY <3>1, SumRemove
    <3>. QED
      BY <3>2
  <2>6. SumFunctionOnSet(rows, U \cup {x}) = rows[x] + SumFunctionOnSet(rows, U)
    BY <2>1, <2>5, SumAdd
  <2>7. SumFunctionOnSet(rows, U) = SumFunctionOnSet(before, T)
    BY <1>2 DEF before
  <2>8. SumFunctionOnSet(rows, U \cup {x}) = SumFunctionOnSet(after, T)
    BY <2>4, <2>6, <2>7
  <2>. QED
    BY <2>1, <2>8 DEF after
<1>3. S \in Good
  <2>. HIDE DEF Good
  <2>. QED
    BY <1>1, <1>2, SubsetInduction
<1>4. SumFunctionOnSet(part(S), T) = SumFunctionOnSet(cols, T)
  <2>. DEFINE p == part(S)
  <2>1. \A y \in T : p[y] = cols[y] /\ cols[y] \in Int
    <3>. TAKE y \in T
    <3>1. \A x \in S : C[y][x] \in Int
      OBVIOUS
    <3>2. SumFunctionOnSet(C[y], S) \in Int
      BY <3>1, SumRemove
    <3>. QED
      BY <3>2
  <2>. HIDE DEF p
  <2>2. SumFunctionOnSet(p, T) = SumFunctionOnSet(cols, T)
    BY <2>1, SumEqual
  <2>. QED
    BY <2>2 DEF p
<1>. QED
  BY <1>3, <1>4

\* g[v] is the sum of the terms with key v.
Grouped(S, f, V, key, g) ==
    /\ IsFiniteSet(S) /\ IsFiniteSet(V)
    /\ \A y \in S : f[y] \in Int /\ key[y] \in V
    /\ \A v \in V : g[v] = SumFunctionOnSet(f, {y \in S : key[y] = v})

\* The terms may be grouped by a key.
LEMMA SumByKey ==
    ASSUME NEW S, NEW f, NEW V, NEW key, NEW g, Grouped(S, f, V, key, g)
    PROVE  SumFunctionOnSet(f, S) = SumFunctionOnSet(g, V)
<1>. USE DEF Grouped
<1>. DEFINE Of(W) == {y \in S : key[y] \in W}
            Good == {W \in SUBSET V : SumFunctionOnSet(f, Of(W)) = SumFunctionOnSet(g, W)}
<1>1. {} \in Good
  <2>1. Of({}) = {}
    OBVIOUS
  <2>2. SumFunctionOnSet(f, Of({})) = 0
    BY <2>1, SumEmpty, Zenon
  <2>. QED
    BY <2>2, SumEmpty
<1>2. ASSUME NEW W \in SUBSET V, NEW v \in V \ W, W \in Good PROVE W \cup {v} \in Good
  <2>. DEFINE A == {y \in S : key[y] = v}
              B == Of(W)
  <2>1. /\ IsFiniteSet(A) /\ IsFiniteSet(B) /\ IsFiniteSet(W)
        /\ A \cap B = {} /\ A \cup B = Of(W \cup {v}) /\ A \subseteq S /\ B \subseteq S
    <3>1. A \subseteq S /\ B \subseteq S
      OBVIOUS
    <3>2. IsFiniteSet(A) /\ IsFiniteSet(B) /\ IsFiniteSet(W)
      BY <3>1, FS_Subset
    <3>. QED
      BY <3>1, <3>2
  <2>2. g[v] = SumFunctionOnSet(f, A) /\ SumFunctionOnSet(f, B) = SumFunctionOnSet(g, W)
    BY <1>2
  <2>3. SumFunctionOnSet(f, Of(W \cup {v})) = SumFunctionOnSet(f, A \cup B)
    BY <2>1, Zenon
  <2>4. \A w \in W \cup {v} : g[w] \in Int
    <3>. TAKE w \in W \cup {v}
    <3>. DEFINE P == {y \in S : key[y] = w}
    <3>1. P \subseteq S
      OBVIOUS
    <3>2. g[w] = SumFunctionOnSet(f, P)
      OBVIOUS
    <3>3. \A y \in P : f[y] \in Int
      OBVIOUS
    <3>. HIDE DEF P
    <3>4. SumFunctionOnSet(f, P) \in Int
      BY <3>1, <3>3, FS_Subset, SumRemove
    <3>. QED
      BY <3>2, <3>4
  <2>. HIDE DEF A, B, Of
  <2>5. SumFunctionOnSet(f, A \cup B) = SumFunctionOnSet(f, A) + SumFunctionOnSet(f, B)
    <3>1. \A y \in A \cup B : f[y] \in Int
      BY <2>1
    <3>. QED
      BY <2>1, <3>1, SumUnion
  <2>6. SumFunctionOnSet(g, W \cup {v}) = g[v] + SumFunctionOnSet(g, W)
    BY <2>1, <2>4, SumAdd
  <2>. QED
    BY <2>2, <2>3, <2>5, <2>6
<1>3. V \in Good
  <2>. HIDE DEF Good
  <2>. QED
    BY <1>1, <1>2, SubsetInduction
<1>4. Of(V) = S
  OBVIOUS
<1>. QED
  BY <1>3, <1>4, Zenon

\* On S, g is f with v as the second argument.
Slice(S, v, f, g) == \A x \in S : g[x] \in Int /\ f[<<x, v>>] = g[x]

\* A sum over pairs with the same second part is one over the first parts.
LEMMA SumPairs ==
    ASSUME NEW S, IsFiniteSet(S), NEW v, NEW f, NEW g, Slice(S, v, f, g)
    PROVE  /\ IsFiniteSet(S \X {v}) /\ Cardinality(S \X {v}) = Cardinality(S)
           /\ SumFunctionOnSet(f, S \X {v}) = SumFunctionOnSet(g, S)
<1>. USE DEF Slice
<1>0. IsFiniteSet(S \X {v}) /\ Cardinality(S \X {v}) = Cardinality(S)
  <2>1. IsFiniteSet({v}) /\ Cardinality({v}) = 1 /\ Cardinality(S) \in Nat
    BY FS_Singleton, FS_CardinalityType
  <2>2. IsFiniteSet(S \X {v}) /\ Cardinality(S \X {v}) = Cardinality(S) * Cardinality({v})
    BY <2>1, FS_Product
  <2>. QED
    BY <2>1, <2>2
<1>. DEFINE Good == {T \in SUBSET S : SumFunctionOnSet(f, T \X {v}) = SumFunctionOnSet(g, T)}
<1>1. {} \in Good
  <2>1. {} \X {v} = {}
    OBVIOUS
  <2>2. SumFunctionOnSet(f, {} \X {v}) = 0
    BY <2>1, SumEmpty, Zenon
  <2>. QED
    BY <2>2, SumEmpty
<1>2. ASSUME NEW T \in SUBSET S, NEW x \in S \ T, T \in Good PROVE T \cup {x} \in Good
  <2>. DEFINE P == T \X {v}
              c == <<x, v>>
  <2>1. IsFiniteSet(T) /\ T \cup {x} \in SUBSET S /\ x \notin T
    BY FS_Subset
  <2>2. (T \cup {x}) \X {v} = P \cup {c} /\ c \notin P /\ f[c] = g[x]
    OBVIOUS
  <2>3. IsFiniteSet(P)
    <3>1. P \subseteq S \X {v}
      OBVIOUS
    <3>. QED
      BY <1>0, <3>1, FS_Subset
  <2>4. \A y \in P \cup {c} : f[y] \in Int
    OBVIOUS
  <2>5. SumFunctionOnSet(f, P) = SumFunctionOnSet(g, T)
    BY <1>2
  <2>6. SumFunctionOnSet(f, (T \cup {x}) \X {v}) = SumFunctionOnSet(f, P \cup {c})
    BY <2>2, Zenon
  <2>7. \A y \in T \cup {x} : g[y] \in Int
    OBVIOUS
  <2>. HIDE DEF P, c
  <2>8. SumFunctionOnSet(f, P \cup {c}) = f[c] + SumFunctionOnSet(f, P)
    BY <2>2, <2>3, <2>4, SumAdd
  <2>9. SumFunctionOnSet(g, T \cup {x}) = g[x] + SumFunctionOnSet(g, T)
    BY <2>1, <2>7, SumAdd
  <2>. QED
    BY <2>1, <2>2, <2>5, <2>6, <2>8, <2>9
<1>3. S \in Good
  <2>. HIDE DEF Good
  <2>. QED
    BY <1>1, <1>2, SubsetInduction
<1>. QED
  BY <1>0, <1>3

\* A table with gaps: row x has entries in N[x] only, and the columns F[y] are
\* summed where they have an entry.
SparseTable(S, T, R, N, F, rows, cols) ==
    /\ IsFiniteSet(S) /\ IsFiniteSet(T)
    /\ \A x \in S : \A y \in T : R[x][y] \in Int
    /\ \A x \in S : \A y \in T : y \notin N[x] => R[x][y] = 0
    /\ \A x \in S : rows[x] = SumFunctionOnSet(R[x], T)
    /\ \A y \in T : \A x : x \in DOMAIN F[y] <=> x \in S /\ y \in N[x]
    /\ \A y \in T : \A x \in DOMAIN F[y] : F[y][x] = R[x][y]
    /\ \A y \in T : cols[y] = SumFunction(F[y])

LEMMA SumSparse ==
    ASSUME NEW S, NEW T, NEW R, NEW N, NEW F, NEW rows, NEW cols,
           SparseTable(S, T, R, N, F, rows, cols)
    PROVE  SumFunctionOnSet(rows, S) = SumFunctionOnSet(cols, T)
<1>. USE DEF SparseTable
<1>. DEFINE C == [y \in T |-> [x \in S |-> R[x][y]]]
<1>1. \A x \in S : \A y \in T : C[y][x] = R[x][y]
  OBVIOUS
<1>. HIDE DEF C
<1>2. ASSUME NEW y \in T PROVE cols[y] = SumFunctionOnSet(C[y], S)
  <2>. DEFINE U == {z \in S : y \in N[z]}
              f == F[y]
              g == C[y]
  <2>1. U \subseteq S /\ DOMAIN f = U /\ cols[y] = SumFunction(f)
    OBVIOUS
  <2>2. \A x \in U : f[x] = g[x] /\ g[x] \in Int
    BY <1>1
  <2>3. \A x \in S \ U : g[x] = 0
    BY <1>1
  <2>. HIDE DEF U, f, g
  <2>4. SumFunction(f) = SumFunctionOnSet(f, U)
    BY <2>1, Zenon DEF SumFunction
  <2>5. SumFunctionOnSet(f, U) = SumFunctionOnSet(g, U)
    BY <2>1, <2>2, FS_Subset, SumEqual
  <2>6. SumFunctionOnSet(g, S) = SumFunctionOnSet(g, U)
    BY <2>1, <2>2, <2>3, SumPad
  <2>. QED
    BY <2>1, <2>4, <2>5, <2>6 DEF g
<1>3. Table(S, T, R, C, rows, cols)
  BY <1>1, <1>2 DEF Table
<1>. QED
  BY <1>3, SumSwap
=============================================================================
