-------------------------- MODULE IncentivesProofs --------------------------
(***************************************************************************)
(* Proofs about the epochs of x/liquidityincentive and the maximum supply  *)
(* of x/tokenconverter, for every number of pools, voters and validators,  *)
(* every length of an epoch and every mixture of transactions.             *)
(***************************************************************************)
EXTENDS Incentives, SumTheorems

-----------------------------------------------------------------------------
(***************************************************************************)
(* The maximum supply                                                      *)
(***************************************************************************)

\* Supplies are numbers: what the two parts of the proof of CapRespected need.
SupplyNumbers ==
    /\ supply \in [Denoms -> Int]
    /\ maxSupplyFee \in Int

\* Keeper.Burn burns a non-negative amount.
LEMMA BurnAmountNat ==
    ASSUME NEW d, NEW n \in Nat
    PROVE  BurnAmount(d, n) \in Nat
<1>1. BurnNum \in Nat /\ BurnDen \in Nat /\ BurnDen > 0
  BY FeeSupplyAssumption
<1>2. n * BurnNum \in Nat
  BY <1>1
<1>3. \A x \in Nat, y \in Nat : y > 0 => x \div y \in Nat
  OBVIOUS
<1> QED
  BY <1>1, <1>2, <1>3 DEF BurnAmount

\* Every step keeps the supplies numbers, and creates fee tokens only up to
\* the maximum.
LEMMA SupplyStep ==
    ASSUME SupplyNumbers, [Next]_vars
    PROVE  /\ SupplyNumbers'
           /\ supply'[FeeDenom] > supply[FeeDenom] => supply'[FeeDenom] <= maxSupplyFee
<1> USE FeeSupplyAssumption
<1>0. /\ FeeDenom \in Denoms /\ BondDenom \in Denoms
      /\ supply[FeeDenom] \in Int /\ supply[BondDenom] \in Int
  BY DEF Denoms, SupplyNumbers
<1>1. CASE supply' = supply /\ maxSupplyFee' \in Int
  BY <1>0, <1>1 DEF SupplyNumbers
<1>2. ASSUME NEW d \in Denoms, NEW n \in FeeAmounts, DeductFees(d, n)
      PROVE  /\ SupplyNumbers'
             /\ supply'[FeeDenom] > supply[FeeDenom] => supply'[FeeDenom] <= maxSupplyFee
  <2>1. BurnAmount(d, n) \in Nat
    BY BurnAmountNat
  <2>2. supply' = [supply EXCEPT ![d] = @ - BurnAmount(d, n)] /\ maxSupplyFee' = maxSupplyFee
    BY <1>2 DEF DeductFees
  <2>3. supply' \in [Denoms -> Int] /\ supply'[FeeDenom] <= supply[FeeDenom]
    BY <1>0, <2>1, <2>2 DEF SupplyNumbers
  <2> QED
    BY <1>0, <2>2, <2>3 DEF SupplyNumbers
<1>3. ASSUME NEW lo, NEW hi \in ConvertAmounts, Convert(lo, hi)
      PROVE  /\ SupplyNumbers'
             /\ supply'[FeeDenom] > supply[FeeDenom] => supply'[FeeDenom] <= maxSupplyFee
  <2> DEFINE a == ConversionAmount(hi)
  <2>1. a \in Int /\ a <= maxSupplyFee - supply[FeeDenom]
    BY <1>0 DEF ConversionAmount, Space, SupplyNumbers
  <2>2. /\ supply' = [supply EXCEPT ![BondDenom] = @ - a, ![FeeDenom] = @ + a]
        /\ maxSupplyFee' = maxSupplyFee
    BY <1>3 DEF Convert
  <2> HIDE DEF a
  <2>3. supply' \in [Denoms -> Int] /\ supply'[FeeDenom] = supply[FeeDenom] + a
    BY <1>0, <2>1, <2>2 DEF SupplyNumbers
  <2> QED
    BY <1>0, <2>1, <2>2, <2>3 DEF SupplyNumbers
<1>4. ASSUME NEW m \in MaxSupplies, UpdateMaxSupply(m)
      PROVE  /\ SupplyNumbers'
             /\ supply'[FeeDenom] > supply[FeeDenom] => supply'[FeeDenom] <= maxSupplyFee
  BY <1>1, <1>4 DEF UpdateMaxSupply
<1>5. ASSUME BeginBlock
      PROVE  /\ SupplyNumbers'
             /\ supply'[FeeDenom] > supply[FeeDenom] => supply'[FeeDenom] <= maxSupplyFee
  <2>1. maxSupplyFee' = maxSupplyFee
    BY <1>5 DEF BeginBlock
  <2>2. supply' = supply \/ supply' = [supply EXCEPT ![BondDenom] = @ + Reward]
    BY <1>5 DEF BeginBlock
  <2>3. Reward \in Int
    BY IncentivesAssumption DEF Reward
  <2>4. CASE supply' = [supply EXCEPT ![BondDenom] = @ + Reward]
    <3>1. supply' \in [Denoms -> Int] /\ supply'[FeeDenom] = supply[FeeDenom]
      BY <1>0, <2>3, <2>4 DEF SupplyNumbers
    <3> QED
      BY <1>0, <2>1, <3>1 DEF SupplyNumbers
  <2> QED
    BY <1>1, <2>1, <2>2, <2>4 DEF SupplyNumbers
<1>6. ASSUME \/ EndBlock \/ Environment \/ UNCHANGED vars
             \/ \E v \in Accounts, b \in Ballots : VoteGauge(v, b)
      PROVE  /\ SupplyNumbers'
             /\ supply'[FeeDenom] > supply[FeeDenom] => supply'[FeeDenom] <= maxSupplyFee
  <2>1. supply' = supply /\ maxSupplyFee' = maxSupplyFee
    BY <1>6 DEF EndBlock, Environment, VoteGauge, vars, bankVars
  <2> QED
    BY <1>1, <2>1 DEF SupplyNumbers
<1> QED
  BY <1>2, <1>3, <1>4, <1>5, <1>6 DEF Next, Block, BankTx, NextBank

\* The maximum supply binds every step that creates fee tokens, whatever the
\* order of fees, burns, conversions, block rewards and changes of the maximum.
THEOREM SupplyCapped == Spec => CapRespected
<1>1. Init => SupplyNumbers
  BY FeeSupplyAssumption DEF Init, InitBank, SupplyNumbers
<1>2. SupplyNumbers /\ [Next]_vars => SupplyNumbers'
  BY SupplyStep
<1>3. SupplyNumbers /\ [Next]_vars =>
        [supply'[FeeDenom] > supply[FeeDenom] => supply'[FeeDenom] <= maxSupplyFee]_bankVars
  BY SupplyStep
<1> QED
  BY <1>1, <1>2, <1>3, PTL DEF Spec, CapRespected

-----------------------------------------------------------------------------
(***************************************************************************)
(* The ledger of fees and conversions                                      *)
(***************************************************************************)

\* Keeper.Burn burns no more than the fee.
LEMMA BurnAtMostFee ==
    ASSUME NEW d, NEW n \in Nat
    PROVE  BurnAmount(d, n) <= n
<1>1. BurnNum \in Nat /\ BurnDen \in Nat /\ BurnDen > 0 /\ BurnNum < BurnDen
  BY FeeSupplyAssumption
<1>2. n * BurnNum \in Nat /\ n * BurnNum <= n * BurnDen
  BY <1>1
<1>3. (n * BurnNum) \div BurnDen \in Nat
      /\ BurnDen * ((n * BurnNum) \div BurnDen) <= n * BurnNum
  BY <1>1, <1>2
<1> DEFINE q == (n * BurnNum) \div BurnDen
<1>4. q \in Nat /\ BurnDen * q <= n * BurnDen
  BY <1>1, <1>2, <1>3
<1> HIDE DEF q
<1>5. q <= n
  BY <1>1, <1>4
<1> QED
  BY <1>5 DEF BurnAmount, q

\* The transactions of x/fee and x/tokenconverter overdraw nobody and keep the
\* supply what everybody holds.
LEMMA LedgerStep ==
    ASSUME BankTypeOK, SupplyHeld, [NextBank]_bankVars
    PROVE  BankTypeOK' /\ SupplyHeld'
<1> USE FeeSupplyAssumption
<1>0. /\ FeeDenom \in Denoms /\ BondDenom \in Denoms /\ FeeDenom # BondDenom
      /\ "accounts" \in Holders /\ "feeCollector" \in Holders
      /\ "poolFees" \in Holders /\ "distribution" \in Holders
      /\ \A h \in Holders, d \in Denoms : bal[h][d] \in Nat
      /\ \A d \in Denoms : supply[d] \in Nat /\ supply[d] = Held(d)
  BY DEF Denoms, Holders, BankTypeOK, SupplyHeld
<1>1. ASSUME NEW d \in Denoms, NEW n \in FeeAmounts, DeductFees(d, n)
      PROVE  BankTypeOK' /\ SupplyHeld'
  <2> DEFINE b == BurnAmount(d, n)
  <2>1. b \in Nat /\ b <= n /\ n \in Nat /\ bal["accounts"][d] >= n
    BY <1>1, BurnAmountNat, BurnAtMostFee DEF DeductFees, CanSend
  <2>2. /\ supply' = [supply EXCEPT ![d] = @ - b]
        /\ maxSupplyFee' = maxSupplyFee
        /\ bal' = [[bal EXCEPT !["accounts"][d] = @ - n, !["feeCollector"][d] = @ + n]
                     EXCEPT !["feeCollector"][d] = @ - b]
    BY <1>1 DEF DeductFees, Sent
  <2> HIDE DEF b
  <2>3. \A h \in Holders, c \in Denoms :
          bal'[h][c] = IF c # d THEN bal[h][c]
                       ELSE IF h = "accounts" THEN bal[h][c] - n
                       ELSE IF h = "feeCollector" THEN bal[h][c] + n - b
                       ELSE bal[h][c]
    BY <1>0, <2>1, <2>2 DEF BankTypeOK, Holders
  <2>4. bal' \in [Holders -> [Denoms -> Nat]]
    <3>1. \A h \in Holders, c \in Denoms : bal'[h][c] \in Nat
      BY <1>0, <2>1, <2>3
    <3>2. bal' \in [Holders -> [Denoms -> Int]]
      BY <1>0, <2>1, <2>2 DEF BankTypeOK
    <3> QED
      BY <3>1, <3>2
  <2>5. \A c \in Denoms : supply'[c] = IF c = d THEN supply[c] - b ELSE supply[c]
    BY <2>2 DEF BankTypeOK
  <2>6. \A c \in Denoms : supply'[c] = Held(c)'
    BY <1>0, <2>1, <2>3, <2>5 DEF Held
  <2>7. supply' \in [Denoms -> Nat]
    <3>1. \A c \in Denoms : supply'[c] \in Nat
      BY <1>0, <2>4, <2>6 DEF Held
    <3>2. supply' \in [Denoms -> Int]
      BY <2>1, <2>2 DEF BankTypeOK
    <3> QED
      BY <3>1, <3>2
  <2> QED
    BY <2>2, <2>4, <2>6, <2>7 DEF BankTypeOK, SupplyHeld
<1>2. ASSUME NEW lo \in ConvertAmounts \cup {0}, NEW hi \in ConvertAmounts, Convert(lo, hi)
      PROVE  BankTypeOK' /\ SupplyHeld'
  <2> DEFINE a == ConversionAmount(hi)
  <2>1. a \in Nat /\ bal["accounts"][BondDenom] >= a
    <3>1. lo \in Nat /\ hi \in Nat /\ Space \in Int /\ ~(Space < lo)
      BY <1>0, <1>2 DEF Convert, ConversionRefused, Space, BankTypeOK
    <3> QED
      BY <1>2, <3>1 DEF ConversionAmount, Convert, CanSend
  <2>2. /\ supply' = [supply EXCEPT ![BondDenom] = @ - a, ![FeeDenom] = @ + a]
        /\ maxSupplyFee' = maxSupplyFee
        /\ bal' = [bal EXCEPT !["accounts"][BondDenom] = @ - a,
                              !["accounts"][FeeDenom] = @ + a]
    BY <1>2 DEF Convert
  <2> HIDE DEF a
  <2>3. \A h \in Holders, c \in Denoms :
          bal'[h][c] = IF h # "accounts" THEN bal[h][c]
                       ELSE IF c = BondDenom THEN bal[h][c] - a
                       ELSE IF c = FeeDenom THEN bal[h][c] + a
                       ELSE bal[h][c]
    BY <1>0, <2>1, <2>2 DEF BankTypeOK
  <2>4. bal' \in [Holders -> [Denoms -> Nat]]
    <3>1. \A h \in Holders, c \in Denoms : bal'[h][c] \in Nat
      BY <1>0, <2>1, <2>3
    <3>2. bal' \in [Holders -> [Denoms -> Int]]
      BY <1>0, <2>1, <2>2 DEF BankTypeOK
    <3> QED
      BY <3>1, <3>2
  <2>5. \A c \in Denoms : supply'[c] = IF c = BondDenom THEN supply[c] - a
                                       ELSE IF c = FeeDenom THEN supply[c] + a
                                       ELSE supply[c]
    BY <1>0, <2>2 DEF BankTypeOK
  <2>6. \A c \in Denoms : supply'[c] = Held(c)'
    BY <1>0, <2>1, <2>3, <2>5 DEF Held
  <2>7. supply' \in [Denoms -> Nat]
    <3>1. \A c \in Denoms : supply'[c] \in Nat
      BY <1>0, <2>4, <2>6 DEF Held
    <3>2. supply' \in [Denoms -> Int]
      BY <1>0, <2>1, <2>2 DEF BankTypeOK
    <3> QED
      BY <3>1, <3>2
  <2> QED
    BY <2>2, <2>4, <2>6, <2>7 DEF BankTypeOK, SupplyHeld
<1>3. ASSUME NEW m \in MaxSupplies, UpdateMaxSupply(m)
      PROVE  BankTypeOK' /\ SupplyHeld'
  BY <1>3 DEF UpdateMaxSupply, BankTypeOK, SupplyHeld, Held
<1>4. CASE UNCHANGED bankVars
  BY <1>4 DEF bankVars, BankTypeOK, SupplyHeld, Held
<1> QED
  BY <1>1, <1>2, <1>3, <1>4 DEF NextBank

\* Fees, burns, conversions and changes of the maximum keep the books: in
\* FeeSupply on its own, without the block hooks, the supply that the converter
\* reads is what is held, and no balance is negative.
THEOREM LedgerBalanced == SpecBank => []SupplyHeld
<1>1. InitBank => BankTypeOK /\ SupplyHeld
  BY FeeSupplyAssumption DEF InitBank, BankTypeOK, SupplyHeld, Held, Holders
<1>2. BankTypeOK /\ SupplyHeld /\ [NextBank]_bankVars => BankTypeOK' /\ SupplyHeld'
  BY LedgerStep
<1> QED
  BY <1>1, <1>2, PTL DEF SpecBank

-----------------------------------------------------------------------------
(***************************************************************************)
(* The stores of epochs and gauges                                         *)
(***************************************************************************)

\* The gauges G are those of the epochs E, under the number before theirs.
Agree(E, G) ==
    /\ \A k \in DOMAIN G : \E i \in DOMAIN E : k \in {i - 1} \X DOMAIN E[i].gauges
    /\ \A i \in DOMAIN E : \A p \in DOMAIN E[i].gauges :
          <<i - 1, p>> \in DOMAIN G /\ G[i - 1, p] = E[i].gauges[p]

\* At most two epochs, with consecutive numbers.
Consecutive(S) == S = {} \/ \E k \in Nat \ {0} : S = {k} \/ S = {k, k + 1}

Apart(E) == \A i, j \in DOMAIN E : i < j => E[i].end <= E[j].start

\* The inductive invariant: EpochStoresAgree with the numbers spelt out.
EpochInv == Consecutive(DOMAIN epochs) /\ Apart(epochs) /\ Agree(epochs, gauges)

\* Creating an epoch with its gauges keeps the stores together.
LEMMA AgreeAdd ==
    ASSUME NEW E, NEW G, Agree(E, G), DOMAIN E \subseteq Int,
           NEW id \in Int, id \notin DOMAIN E, NEW w, NEW e, e.gauges = w
    PROVE  Agree(Put(E, [i \in {id} |-> e]), Put(G, NewGauges(id - 1, w)))
<1> DEFINE E2 == Put(E, [i \in {id} |-> e])
           G2 == Put(G, NewGauges(id - 1, w))
<1>1. /\ DOMAIN E2 = DOMAIN E \cup {id} /\ E2[id] = e
      /\ \A i \in DOMAIN E : E2[i] = E[i]
  BY DEF Put
<1>2. /\ DOMAIN G2 = DOMAIN G \cup ({id - 1} \X DOMAIN w)
      /\ \A p \in DOMAIN w : G2[id - 1, p] = w[p]
      /\ \A k \in DOMAIN G : k \notin {id - 1} \X DOMAIN w => G2[k] = G[k]
  BY DEF Put, NewGauges
<1> HIDE DEF E2, G2
<1>3. ASSUME NEW k \in DOMAIN G2
      PROVE  \E i \in DOMAIN E2 : k \in {i - 1} \X DOMAIN E2[i].gauges
  <2>1. CASE k \in {id - 1} \X DOMAIN w
    BY <1>1, <2>1
  <2>2. CASE k \in DOMAIN G
    <3>1. PICK i \in DOMAIN E : k \in {i - 1} \X DOMAIN E[i].gauges
      BY <2>2 DEF Agree
    <3> QED
      BY <1>1, <3>1
  <2> QED
    BY <1>2, <1>3, <2>1, <2>2
<1>4. ASSUME NEW i \in DOMAIN E2, NEW p \in DOMAIN E2[i].gauges
      PROVE  <<i - 1, p>> \in DOMAIN G2 /\ G2[i - 1, p] = E2[i].gauges[p]
  <2>1. CASE i = id
    BY <1>1, <1>2, <2>1
  <2>2. CASE i # id
    <3>1. i \in DOMAIN E /\ E2[i] = E[i] /\ i \in Int
      BY <1>1, <2>2
    <3>2. <<i - 1, p>> \in DOMAIN G /\ G[i - 1, p] = E[i].gauges[p]
      BY <3>1 DEF Agree
    <3>3. i - 1 # id - 1
      BY <2>2, <3>1
    <3>4. <<i - 1, p>> \notin {id - 1} \X DOMAIN w
      BY <3>3
    <3> QED
      BY <1>2, <3>1, <3>2, <3>4
  <2> QED
    BY <2>1, <2>2
<1>5. Agree(E2, G2)
  BY <1>3, <1>4 DEF Agree
<1> QED
  BY <1>5 DEF E2, G2

\* Removing an epoch with its gauges keeps the stores together.
LEMMA AgreeDrop ==
    ASSUME NEW E, NEW G, Agree(E, G), DOMAIN E \subseteq Int, NEW o \in DOMAIN E
    PROVE  Agree(Drop(E, {o}), Drop(G, {o - 1} \X DOMAIN E[o].gauges))
<1> DEFINE E2 == Drop(E, {o})
           Gone == {o - 1} \X DOMAIN E[o].gauges
           G2 == Drop(G, Gone)
<1>1. DOMAIN E2 = DOMAIN E \ {o} /\ \A i \in DOMAIN E2 : E2[i] = E[i]
  BY DEF Drop
<1>2. DOMAIN G2 = DOMAIN G \ Gone /\ \A k \in DOMAIN G2 : G2[k] = G[k]
  BY DEF Drop
<1> HIDE DEF E2, G2
<1>3. ASSUME NEW i \in DOMAIN E2, NEW p \in DOMAIN E2[i].gauges
      PROVE  <<i - 1, p>> \in DOMAIN G2 /\ G2[i - 1, p] = E2[i].gauges[p]
  <2>1. i \in DOMAIN E /\ i # o /\ i \in Int /\ o \in Int /\ E2[i] = E[i]
    BY <1>1
  <2>2. <<i - 1, p>> \in DOMAIN G /\ G[i - 1, p] = E[i].gauges[p]
    BY <2>1 DEF Agree
  <2>3. <<i - 1, p>> \notin Gone
    BY <2>1
  <2> QED
    BY <1>2, <2>1, <2>2, <2>3
<1>4. ASSUME NEW k \in DOMAIN G2
      PROVE  \E i \in DOMAIN E2 : k \in {i - 1} \X DOMAIN E2[i].gauges
  <2>1. PICK i \in DOMAIN E : k \in {i - 1} \X DOMAIN E[i].gauges
    BY <1>2, <1>4 DEF Agree
  <2>2. i # o
    BY <1>2, <1>4, <2>1
  <2> QED
    BY <1>1, <2>1, <2>2
<1>5. Agree(E2, G2)
  BY <1>3, <1>4 DEF Agree
<1> QED
  BY <1>5 DEF E2, G2

\* Stores with the same entries agree alike.
LEMMA AgreeSame ==
    ASSUME NEW E, NEW G, NEW E2, NEW G2,
           DOMAIN E2 = DOMAIN E, \A i \in DOMAIN E : E2[i] = E[i],
           DOMAIN G2 = DOMAIN G, \A k \in DOMAIN G : G2[k] = G[k],
           Apart(E), Agree(E, G)
    PROVE  Apart(E2) /\ Agree(E2, G2)
<1>1. Apart(E2)
  BY DEF Apart
<1>2. ASSUME NEW i \in DOMAIN E2, NEW p \in DOMAIN E2[i].gauges
      PROVE  <<i - 1, p>> \in DOMAIN G2 /\ G2[i - 1, p] = E2[i].gauges[p]
  <2>1. i \in DOMAIN E /\ E2[i] = E[i] /\ p \in DOMAIN E[i].gauges
    OBVIOUS
  <2>2. <<i - 1, p>> \in DOMAIN G /\ G[i - 1, p] = E[i].gauges[p]
    BY <2>1 DEF Agree
  <2> QED
    BY <2>1, <2>2
<1>3. \A k \in DOMAIN G2 : \E i \in DOMAIN E2 : k \in {i - 1} \X DOMAIN E2[i].gauges
  BY DEF Agree
<1> QED
  BY <1>1, <1>2, <1>3 DEF Agree

\* The number of the last epoch, and of the first.
LEMMA Extremes ==
    ASSUME NEW k \in Nat
    PROVE  /\ Max({k}) = k /\ Max({k, k + 1}) = k + 1
           /\ Min({k, k + 1, k + 2}) = k
BY DEF Max, Min

\* How many epochs one, two or three numbers are.
LEMMA Counts ==
    ASSUME NEW k \in Nat
    PROVE  /\ Cardinality({k}) = 1 /\ Cardinality({k, k + 1}) = 2
           /\ Cardinality({k, k + 1, k + 2}) = 3
<1>1. IsFiniteSet({k}) /\ Cardinality({k}) = 1
  BY FS_Singleton
<1>2. {k, k + 1} = {k} \cup {k + 1} /\ k + 1 \notin {k}
  OBVIOUS
<1>3. IsFiniteSet({k, k + 1}) /\ Cardinality({k, k + 1}) = 2
  BY <1>1, <1>2, FS_AddElement
<1>4. {k, k + 1, k + 2} = {k, k + 1} \cup {k + 2} /\ k + 2 \notin {k, k + 1}
  OBVIOUS
<1>5. Cardinality({k, k + 1, k + 2}) = 3
  BY <1>3, <1>4, FS_AddElement
<1> QED
  BY <1>1, <1>3, <1>5

\* The first epoch.
LEMMA FirstEpoch ==
    ASSUME EpochInv, ~HasEpoch, NEW w, CreateEpoch(0, 1, w)
    PROVE  EpochInv'
<1>1. CASE w = <<>>
  BY <1>1 DEF CreateEpoch, EpochInv, Consecutive, Apart, Agree
<1>2. CASE w # <<>>
  <2> DEFINE e == NewEpoch(w)
  <2>1. /\ epochs' = Put(epochs, [i \in {1} |-> e])
        /\ gauges' = Put(gauges, NewGauges(1 - 1, w))
    BY <1>2 DEF CreateEpoch
  <2>2. e.gauges = w /\ DOMAIN epochs = {}
    BY DEF NewEpoch, HasEpoch
  <2> HIDE DEF e
  <2>3. Agree(epochs', gauges')
    <3>1. /\ Agree(epochs, gauges) /\ DOMAIN epochs \subseteq Int
          /\ 1 \in Int /\ 1 \notin DOMAIN epochs
      BY <2>2 DEF EpochInv
    <3>2. Agree(Put(epochs, [i \in {1} |-> e]), Put(gauges, NewGauges(1 - 1, w)))
      BY <2>2, <3>1, AgreeAdd
    <3> QED
      BY <2>1, <3>2, Zenon
  <2>4. DOMAIN epochs' = {1}
    BY <2>1, <2>2 DEF Put
  <2>5. Consecutive(DOMAIN epochs') /\ Apart(epochs')
    BY <2>4 DEF Consecutive, Apart
  <2> QED
    BY <2>3, <2>5 DEF EpochInv
<1> QED
  BY <1>1, <1>2

\* A later epoch, and the removal of the oldest one.
LEMMA LaterEpoch ==
    ASSUME EpochInv, Ended, NEW w, CreateAndPrune(w)
    PROVE  EpochInv'
<1> DEFINE id == LastId + 1
           e == NewEpoch(w)
           all == Put(epochs, IF w = <<>> THEN <<>> ELSE [i \in {id} |-> e])
           kept == Put(gauges, NewGauges(LastId, w))
           oldest == Min(DOMAIN all)
<1>1. IF Cardinality(DOMAIN all) > 2
      THEN /\ epochs' = Drop(all, {oldest})
           /\ gauges' = Drop(kept, {oldest - 1} \X DOMAIN all[oldest].gauges)
      ELSE epochs' = all /\ gauges' = kept
  BY DEF CreateAndPrune
<1>2. PICK k \in Nat \ {0} : DOMAIN epochs = {k} \/ DOMAIN epochs = {k, k + 1}
  BY DEF EpochInv, Consecutive, Ended, HasEpoch
<1>3. /\ DOMAIN epochs \subseteq Int /\ ~(Cardinality(DOMAIN epochs) > 2)
      /\ LastId \in DOMAIN epochs /\ \A i \in DOMAIN epochs : i <= LastId
  <2>1. /\ Max({k}) = k /\ Cardinality({k}) = 1
        /\ Max({k, k + 1}) = k + 1 /\ Cardinality({k, k + 1}) = 2
    BY Extremes, Counts
  <2>2. CASE DOMAIN epochs = {k}
    <3>1. LastId = k /\ Cardinality(DOMAIN epochs) = 1
      BY <2>1, <2>2, Zenon DEF LastId
    <3> QED
      BY <2>2, <3>1
  <2>3. CASE DOMAIN epochs = {k, k + 1}
    <3>1. LastId = k + 1 /\ Cardinality(DOMAIN epochs) = 2
      BY <2>1, <2>3, Zenon DEF LastId
    <3> QED
      BY <2>3, <3>1
  <2> QED
    BY <1>2, <2>2, <2>3
<1>4. CASE w = <<>>
  <2>1. DOMAIN w = {}
    BY <1>4
  <2>2. DOMAIN all = DOMAIN epochs /\ \A i \in DOMAIN epochs : all[i] = epochs[i]
    BY <1>4 DEF Put
  <2>3. DOMAIN kept = DOMAIN gauges /\ \A q \in DOMAIN gauges : kept[q] = gauges[q]
    BY <2>1 DEF Put, NewGauges
  <2> HIDE DEF all, kept
  <2>4. epochs' = all /\ gauges' = kept
    <3>1. ~(Cardinality(DOMAIN all) > 2)
      BY <1>3, <2>2, Zenon
    <3> QED
      BY <1>1, <3>1
  <2>5. Apart(all) /\ Agree(all, kept)
    BY <2>2, <2>3, AgreeSame DEF EpochInv
  <2> QED
    BY <2>2, <2>4, <2>5 DEF EpochInv
<1>5. CASE w # <<>>
  <2>1. all = Put(epochs, [i \in {id} |-> e]) /\ e.gauges = w /\ e.start = height
    BY <1>5 DEF NewEpoch
  <2>2. id \in Int /\ id - 1 = LastId /\ id \notin DOMAIN epochs
    BY <1>3
  <2> HIDE DEF all, e
  <2>3. DOMAIN all = DOMAIN epochs \cup {id} /\ all[id] = e /\ \A i \in DOMAIN epochs : all[i] = epochs[i]
    BY <2>1, <2>2 DEF Put
  <2>4. Agree(all, kept)
    <3>1. Agree(Put(epochs, [i \in {id} |-> e]), Put(gauges, NewGauges(id - 1, w)))
      <4> HIDE DEF id
      <4> QED
        BY <1>3, <2>1, <2>2, AgreeAdd DEF EpochInv
    <3> QED
      BY <2>1, <2>2, <3>1
  <2> HIDE DEF kept
  <2>5. LastEpoch.end <= height /\ LastEpoch = epochs[LastId]
    BY DEF Ended, LastEpoch
  <2>6. CASE DOMAIN epochs = {k}
    <3>0. Max({k}) = k /\ Cardinality({k, k + 1}) = 2
      BY Extremes, Counts
    <3>1. LastId = k /\ DOMAIN all = {k, k + 1}
      <4>1. LastId = k
        BY <2>6, <3>0, Zenon DEF LastId
      <4> QED
        BY <2>3, <2>6, <4>1
    <3>2. epochs' = all /\ gauges' = kept
      <4>1. Cardinality(DOMAIN all) = 2
        BY <3>0, <3>1, Zenon
      <4> QED
        BY <1>1, <4>1
    <3>3. all[k].end <= all[k + 1].start
      BY <2>1, <2>3, <2>5, <2>6, <3>1
    <3>4. Apart(all)
      BY <3>1, <3>3 DEF Apart
    <3>5. Consecutive(DOMAIN all)
      BY <3>1 DEF Consecutive
    <3> QED
      BY <2>4, <3>2, <3>4, <3>5 DEF EpochInv
  <2>7. CASE DOMAIN epochs = {k, k + 1}
    <3>0. /\ Max({k, k + 1}) = k + 1 /\ Min({k, k + 1, k + 2}) = k
          /\ Cardinality({k, k + 1, k + 2}) = 3
      BY Extremes, Counts
    <3>1. LastId = k + 1 /\ DOMAIN all = {k, k + 1, k + 2}
      <4>1. LastId = k + 1
        BY <2>7, <3>0, Zenon DEF LastId
      <4> QED
        BY <2>3, <2>7, <4>1
    <3>2. oldest = k /\ Cardinality(DOMAIN all) > 2
      <4>1. oldest = k /\ Cardinality(DOMAIN all) = 3
        BY <3>0, <3>1, Zenon
      <4> QED
        BY <4>1
    <3>3. epochs' = Drop(all, {k}) /\ gauges' = Drop(kept, {k - 1} \X DOMAIN all[k].gauges)
      BY <1>1, <3>2
    <3>4. Agree(epochs', gauges')
      <4>1. DOMAIN all \subseteq Int /\ k \in DOMAIN all
        BY <3>1
      <4>2. Agree(Drop(all, {k}), Drop(kept, {k - 1} \X DOMAIN all[k].gauges))
        BY <2>4, <4>1, AgreeDrop
      <4> QED
        BY <3>3, <4>2
    <3>5. DOMAIN epochs' = {k + 1, k + 2} /\ epochs'[k + 1] = all[k + 1] /\ epochs'[k + 2] = all[k + 2]
      BY <3>1, <3>3 DEF Drop
    <3>6. epochs'[k + 1].end <= epochs'[k + 2].start
      BY <2>1, <2>3, <2>5, <2>7, <3>1, <3>5
    <3>7. Apart(epochs')
      BY <3>5, <3>6 DEF Apart
    <3>8. Consecutive(DOMAIN epochs')
      <4>1. k + 1 \in Nat \ {0} /\ DOMAIN epochs' = {k + 1, (k + 1) + 1}
        BY <3>5
      <4> QED
        BY <4>1 DEF Consecutive
    <3> QED
      BY <3>4, <3>7, <3>8 DEF EpochInv
  <2> QED
    BY <1>2, <2>6, <2>7
<1> QED
  BY <1>4, <1>5

\* Every step keeps the stores together.
LEMMA EpochsInductive == EpochInv /\ [Next]_vars => EpochInv'
<1> SUFFICES ASSUME EpochInv, [Next]_vars
             PROVE  EpochInv'
  OBVIOUS
<1>1. CASE epochs' = epochs /\ gauges' = gauges
  BY <1>1 DEF EpochInv, Consecutive, Apart, Agree
<1>2. CASE EndBlock
  <2>1. PICK w : CASE ~HasEpoch -> CreateEpoch(0, 1, w)
                   [] Ended -> CreateAndPrune(w)
                   [] OTHER -> UNCHANGED <<epochs, gauges>>
    BY <1>2 DEF EndBlock, EndBlocker
  <2>2. CASE ~HasEpoch
    <3>1. ~Ended
      BY <2>2 DEF Ended
    <3> QED
      BY <2>1, <2>2, <3>1, FirstEpoch
  <2>3. CASE Ended
    <3>1. HasEpoch
      BY <2>3 DEF Ended
    <3> QED
      BY <2>1, <2>3, <3>1, LaterEpoch
  <2>4. CASE HasEpoch /\ ~Ended
    BY <1>1, <2>1, <2>4
  <2> QED
    BY <2>2, <2>3, <2>4
<1>3. CASE \/ BeginBlock \/ Environment \/ BankTx \/ UNCHANGED vars
           \/ \E v \in Accounts, b \in Ballots : VoteGauge(v, b)
  <2>1. epochs' = epochs /\ gauges' = gauges
    BY <1>3 DEF BeginBlock, Environment, BankTx, VoteGauge, vars, incentiveVars
  <2> QED
    BY <1>1, <2>1
<1> QED
  BY <1>2, <1>3 DEF Next, Block

\* After any number of creations and removals CreateEpoch and EndBlocker leave
\* at most two epochs, consecutive and one after the other, and exactly their
\* gauges.
THEOREM EpochStores == Spec => []EpochStoresAgree
<1>1. Init => EpochInv
  BY DEF Init, EpochInv, Consecutive, Apart, Agree
<1>2. EpochInv => EpochStoresAgree
  <2> SUFFICES ASSUME EpochInv
               PROVE  EpochStoresAgree
    OBVIOUS
  <2>1. Cardinality(DOMAIN epochs) <= 2 /\ \A i, j \in DOMAIN epochs : i < j => j = i + 1
    <3>1. CASE DOMAIN epochs = {}
      <4>1. Cardinality(DOMAIN epochs) = 0
        BY <3>1, FS_EmptySet, Zenon
      <4> QED
        BY <3>1, <4>1
    <3>2. ASSUME NEW k \in Nat \ {0}, DOMAIN epochs = {k} \/ DOMAIN epochs = {k, k + 1}
          PROVE  Cardinality(DOMAIN epochs) <= 2 /\ \A i, j \in DOMAIN epochs : i < j => j = i + 1
      <4>1. Cardinality({k}) = 1 /\ Cardinality({k, k + 1}) = 2
        BY Counts
      <4>2. Cardinality(DOMAIN epochs) = 1 \/ Cardinality(DOMAIN epochs) = 2
        BY <3>2, <4>1, Zenon
      <4> QED
        BY <3>2, <4>2
    <3> QED
      BY <3>1, <3>2 DEF EpochInv, Consecutive
  <2>2. \A i, j \in DOMAIN epochs : i < j => epochs[i].end <= epochs[j].start
    BY DEF EpochInv, Apart
  <2>3. DOMAIN gauges = UNION {{i - 1} \X DOMAIN epochs[i].gauges : i \in DOMAIN epochs}
    <3>1. \A k \in DOMAIN gauges : \E i \in DOMAIN epochs : k \in {i - 1} \X DOMAIN epochs[i].gauges
      BY DEF EpochInv, Agree
    <3>2. \A i \in DOMAIN epochs : \A k \in {i - 1} \X DOMAIN epochs[i].gauges : k \in DOMAIN gauges
      <4> TAKE i \in DOMAIN epochs
      <4> TAKE k \in {i - 1} \X DOMAIN epochs[i].gauges
      <4>1. PICK p \in DOMAIN epochs[i].gauges : k = <<i - 1, p>>
        OBVIOUS
      <4> QED
        BY <4>1 DEF EpochInv, Agree
    <3> QED
      BY <3>1, <3>2, Zenon
  <2>4. \A i \in DOMAIN epochs : \A p \in DOMAIN epochs[i].gauges :
           gauges[i - 1, p] = epochs[i].gauges[p]
    BY DEF EpochInv, Agree
  <2> QED
    BY <2>1, <2>2, <2>3, <2>4 DEF EpochStoresAgree
<1> QED
  BY <1>1, <1>2, EpochsInductive, PTL DEF Spec

-----------------------------------------------------------------------------
(***************************************************************************)
(* Decimals: products and quotients exceed the exact ones by at most half  *)
(* a unit of the last decimal, quotients of negative numbers by less than  *)
(* one unit.                                                               *)
(***************************************************************************)

LEMMA DivBounds ==
    ASSUME NEW a \in Nat, NEW b \in Nat \ {0}
    PROVE  a \div b \in Nat /\ b * (a \div b) <= a /\ a % b \in Nat /\ a = b * (a \div b) + (a % b)
OBVIOUS

LEMMA TruncDivNat ==
    ASSUME NEW a \in Nat, NEW b \in Nat \ {0}
    PROVE  TruncDiv(a, b) = a \div b
BY DEF TruncDiv

LEMMA ChopBound ==
    ASSUME NEW n \in Nat
    PROVE  /\ ChopRound(n) \in Nat
           /\ 2 * (Prec * ChopRound(n)) <= 2 * n + Prec
           /\ 2 * n <= 2 * (Prec * ChopRound(n)) + Prec
           /\ n < Prec * ChopRound(n) + Prec
<1> DEFINE q == n \div Prec
           r == n % Prec
<1>1. Prec \in Nat \ {0}
  BY PrecAssumption
<1>2. q \in Nat /\ r \in Nat /\ r < Prec /\ n = Prec * q + r
  <2>1. q \in Nat /\ r \in Nat /\ n = Prec * q + r
    BY <1>1, DivBounds
  <2> QED BY <1>1, <2>1
<1>3. ChopRound(n) = CASE 2 * r < Prec -> q
                       [] 2 * r > Prec -> q + 1
                       [] OTHER -> q + (q % 2)
  BY DEF ChopRound, ChopPositive
<1>4. q % 2 \in {0, 1}
  BY <1>2
<1> HIDE DEF q, r
<1>5. (ChopRound(n) = q /\ 2 * r <= Prec) \/ (ChopRound(n) = q + 1 /\ 2 * r >= Prec)
  BY <1>1, <1>2, <1>3, <1>4
<1>6. Prec * q \in Nat /\ Prec * (q + 1) = Prec * q + Prec
  BY <1>1, <1>2
<1>7. CASE ChopRound(n) = q /\ 2 * r <= Prec
  BY <1>1, <1>2, <1>6, <1>7
<1>8. CASE ChopRound(n) = q + 1 /\ 2 * r >= Prec
  BY <1>1, <1>2, <1>6, <1>8
<1> QED
  BY <1>5, <1>7, <1>8

\* Negative numbers are rounded like positive ones.
LEMMA ChopNegative ==
    ASSUME NEW n \in Nat
    PROVE  ChopRound(0 - n) = 0 - ChopRound(n) /\ (n = 0 => ChopRound(n) = 0)
<1>1. Prec \in Nat \ {0}
  BY PrecAssumption
<1>2. ChopRound(0) = 0
  <2>1. 0 \div Prec = 0 /\ 0 % Prec = 0
    BY <1>1
  <2> QED
    BY <1>1, <2>1 DEF ChopRound, ChopPositive
<1>3. CASE n = 0
  BY <1>2, <1>3
<1>4. CASE n > 0
  <2>1. ~(0 - n >= 0) /\ n >= 0 /\ -(0 - n) = n
    BY <1>4
  <2>2. ChopRound(n) = ChopPositive(n) /\ ChopRound(0 - n) = -ChopPositive(n)
    BY <2>1 DEF ChopRound
  <2>3. ChopRound(n) \in Int
    BY ChopBound
  <2> QED
    BY <1>4, <2>2, <2>3
<1> QED
  BY <1>3, <1>4

LEMMA MulBound ==
    ASSUME NEW a \in Nat, NEW b \in Int
    PROVE  Mul(a, b) \in Int /\ 2 * (Prec * Mul(a, b)) <= 2 * (a * b) + Prec
<1>1. Prec \in Nat
  BY PrecAssumption
<1>2. CASE b >= 0
  <2>1. a * b \in Nat
    BY <1>2
  <2> QED
    BY <2>1, ChopBound DEF Mul
<1>3. CASE b < 0
  <2> DEFINE n == a * (0 - b)
             c == ChopRound(n)
  <2>1. n \in Nat /\ a * b = 0 - n
    BY <1>3
  <2> HIDE DEF n
  <2>2. c \in Nat /\ 2 * n <= 2 * (Prec * c) + Prec /\ Mul(a, b) = 0 - c
    BY <2>1, ChopBound, ChopNegative DEF Mul
  <2> HIDE DEF c
  <2>3. Prec * c \in Int /\ Prec * (0 - c) = 0 - Prec * c
    BY <1>1, <2>2
  <2> QED
    BY <1>1, <2>1, <2>2, <2>3
<1> QED
  BY <1>2, <1>3

LEMMA QuoNat ==
    ASSUME NEW a \in Nat, NEW b \in Nat \ {0}
    PROVE  Quo(a, b) \in Nat
<1>1. Prec \in Nat
  BY PrecAssumption
<1>2. a * Prec \in Nat
  BY <1>1
<1>3. a * Prec * Prec \in Nat
  BY <1>1, <1>2
<1>4. TruncDiv(a * Prec * Prec, b) \in Nat
  BY <1>3, TruncDivNat, DivBounds
<1> QED
  BY <1>4, ChopBound DEF Quo

LEMMA TruncDivInt ==
    ASSUME NEW a \in Int, NEW b \in Int \ {0}
    PROVE  TruncDiv(a, b) \in Int
<1>1. ASSUME NEW x \in Nat, NEW y \in Nat \ {0} PROVE x \div y \in Int /\ -(x \div y) \in Int
  BY DivBounds
<1> DEFINE x == IF a >= 0 THEN a ELSE -a
           y == IF b > 0 THEN b ELSE -b
<1>2. x \in Nat /\ y \in Nat \ {0}
  OBVIOUS
<1>3. TruncDiv(a, b) = x \div y \/ TruncDiv(a, b) = -(x \div y)
  BY DEF TruncDiv
<1> HIDE DEF x, y
<1> QED
  BY <1>1, <1>2, <1>3

LEMMA QuoInt ==
    ASSUME NEW a \in Int, NEW b \in Int \ {0}
    PROVE  Quo(a, b) \in Int
<1> DEFINE n == TruncDiv(a * Prec * Prec, b)
<1>1. Prec \in Int
  BY PrecAssumption
<1>2. a * Prec \in Int /\ a * Prec * Prec \in Int
  BY <1>1
<1>3. n \in Int /\ Quo(a, b) = ChopRound(n)
  BY <1>2, TruncDivInt DEF Quo
<1> HIDE DEF n
<1>4. CASE n >= 0
  BY <1>3, <1>4, ChopBound
<1>5. CASE n < 0
  <2>1. 0 - n \in Nat /\ 0 - (0 - n) = n
    BY <1>3, <1>5
  <2>2. ChopRound(0 - n) \in Nat /\ ChopRound(0 - (0 - n)) = 0 - ChopRound(0 - n)
    BY <2>1, ChopBound, ChopNegative
  <2> QED
    BY <1>3, <2>1, <2>2
<1> QED
  BY <1>3, <1>4, <1>5

-----------------------------------------------------------------------------
(***************************************************************************)
(* The tally                                                               *)
(***************************************************************************)

\* What the tally reads: a bonded validator has shares to divide by.
Staked ==
    /\ deleg \in Delegations
    /\ tokens \in [Validators -> Nat]
    /\ bonded \subseteq Validators
    /\ \A v \in bonded : DelegatorShares(v) > 0
    /\ DOMAIN votes \subseteq Accounts
    /\ \A a \in DOMAIN votes : votes[a] \in Ballots

\* Weights of a ballot are numbers.
LEMMA BallotInt ==
    ASSUME Staked, NEW a, NEW p, Voted(a, p)
    PROVE  votes[a][p] \in Int /\ votes[a] \in Ballots
<1>1. votes[a] \in Ballots /\ p \in DOMAIN votes[a]
  BY DEF Staked, Voted, Voters
<1> QED
  BY <1>1, IncentivesAssumption

\* Shares are numbers, and deductions no more than the shares.
LEMMA SharesNat ==
    ASSUME Staked, NEW v \in Validators
    PROVE  /\ \A a \in Accounts : deleg[a, v] \in Nat
           /\ DelegatorShares(v) \in Nat /\ DelegatorDeductions(v) \in Nat
           /\ DelegatorDeductions(v) <= DelegatorShares(v)
<1> DEFINE h(a) == deleg[a, v]
           f == [a \in Accounts |-> h(a)]
           B == {b \in Voters : <<b, v>> \in Counted}
           g == [a \in B |-> h(a)]
<1>1. \A a \in Accounts : h(a) \in Nat
  <2>1. deleg \in [Accounts \X Validators -> Nat]
    BY IncentivesAssumption DEF Staked
  <2> QED
    BY <2>1
<1>2. B \subseteq Accounts
  BY DEF Staked, Voters
<1>3. /\ DOMAIN f = Accounts /\ DOMAIN g = B /\ \A a \in Accounts : f[a] \in Nat
      /\ \A a \in B : g[a] = f[a] /\ f[a] \in Int
  <2> HIDE DEF h, B
  <2> QED BY <1>1, <1>2
<1>4. DelegatorShares(v) = SumFunction(f) /\ DelegatorDeductions(v) = SumFunction(g)
  BY DEF DelegatorShares, DelegatorDeductions
<1>5. IsFiniteSet(Accounts) /\ IsFiniteSet(B)
  BY <1>2, IncentivesAssumption, FS_Subset
<1> HIDE DEF f, B, g
<1>6. SumFunction(f) = SumFunctionOnSet(f, Accounts) /\ SumFunction(g) = SumFunctionOnSet(g, B)
  BY <1>3, Zenon DEF SumFunction
<1>7. SumFunctionOnSet(g, B) = SumFunctionOnSet(f, B)
  BY <1>3, <1>5, SumEqual
<1>8. SumFunctionOnSet(f, B) <= SumFunctionOnSet(f, Accounts)
  BY <1>2, <1>3, <1>5, SumSubset
<1>9. SumFunctionOnSet(f, B) \in Nat
  <2>1. \A a \in B : f[a] \in Nat
    BY <1>2, <1>3
  <2> QED
    BY <1>5, <2>1, SumNat
<1>10. SumFunctionOnSet(f, Accounts) \in Nat
  BY <1>3, <1>5, SumNat
<1> QED
  BY <1>1, <1>4, <1>6, <1>7, <1>8, <1>9, <1>10

\* The tally divides by no zero and takes no negative power into account.
LEMMA PowerNat ==
    ASSUME Staked, NEW v \in bonded, NEW x \in Nat
    PROVE  VotingPower(x, v) \in Nat
<1>1. /\ v \in Validators /\ tokens[v] \in Nat /\ Prec \in Nat \ {0}
      /\ DelegatorShares(v) \in Nat /\ DelegatorShares(v) > 0
  BY SharesNat, PrecAssumption DEF Staked
<1>2. Dec(x) \in Nat /\ Dec(DelegatorShares(v)) \in Nat \ {0}
  BY <1>1 DEF Dec
<1>3. Dec(x) * tokens[v] \in Nat
  BY <1>1, <1>2
<1> QED
  BY <1>2, <1>3, QuoNat DEF VotingPower

\* There are finitely many delegations to visit.
LEMMA CountedFinite ==
    ASSUME Staked
    PROVE  IsFiniteSet(Counted) /\ Counted \subseteq Accounts \X Validators
<1>1. Counted \subseteq Accounts \X Validators
  BY DEF Counted, Staked, Voters
<1>2. IsFiniteSet(Accounts \X Validators)
  BY IncentivesAssumption, FS_Product
<1> QED
  BY <1>1, <1>2, FS_Subset

\* Every pool weighs a number.
LEMMA WeightsInt ==
    ASSUME Staked, NEW p
    PROVE  DelegatorWeight(p) \in Int /\ ValidatorWeight(p) \in Int
<1>2. DelegatorWeight(p) \in Int
  <2> DEFINE S == {k \in Counted : Voted(k[1], p)}
             f == [c \in S |-> Mul(VotingPower(deleg[c], c[2]), votes[c[1]][p])]
  <2>1. IsFiniteSet(S) /\ DOMAIN f = S
    BY CountedFinite, FS_Subset
  <2>2. ASSUME NEW c \in S PROVE f[c] \in Int
    <3>1. c \in Accounts \X Validators /\ c[2] \in bonded /\ Voted(c[1], p)
      BY <2>2, CountedFinite DEF Counted
    <3>2. deleg \in [Accounts \X Validators -> Nat]
      BY IncentivesAssumption DEF Staked
    <3>3. deleg[c] \in Nat
      BY <3>1, <3>2
    <3>4. VotingPower(deleg[c], c[2]) \in Nat
      BY <3>1, <3>3, PowerNat
    <3>5. votes[c[1]][p] \in Int
      BY <3>1, BallotInt
    <3> QED
      BY <3>4, <3>5, MulBound
  <2>3. DelegatorWeight(p) = SumFunction(f)
    BY DEF DelegatorWeight
  <2> HIDE DEF S, f
  <2>4. SumFunctionOnSet(f, S) \in Int
    BY <2>1, <2>2, SumRemove
  <2> QED
    BY <2>1, <2>3, <2>4 DEF SumFunction
<1>3. ValidatorWeight(p) \in Int
  <2> DEFINE S == {u \in VotingValidators : Voted(Operator[u], p)}
             rest(v) == DelegatorShares(v) - DelegatorDeductions(v)
             f == [v \in S |-> Mul(VotingPower(rest(v), v), votes[Operator[v]][p])]
  <2>1. S \subseteq bonded /\ S \subseteq Validators
    BY DEF VotingValidators, Staked
  <2>2. IsFiniteSet(S) /\ DOMAIN f = S
    BY <2>1, IncentivesAssumption, FS_Subset
  <2>3. ASSUME NEW v \in S PROVE f[v] \in Int
    <3>0. /\ DelegatorShares(v) \in Nat /\ DelegatorDeductions(v) \in Nat
          /\ DelegatorDeductions(v) <= DelegatorShares(v)
      BY <2>1, <2>3, SharesNat
    <3>1. rest(v) \in Nat
      BY <3>0
    <3>2. VotingPower(rest(v), v) \in Nat
      BY <2>1, <2>3, <3>1, PowerNat
    <3>3. votes[Operator[v]][p] \in Int
      BY <2>3, BallotInt
    <3> HIDE DEF rest
    <3> QED
      BY <2>3, <3>2, <3>3, MulBound
  <2>4. ValidatorWeight(p) = SumFunction(f)
    BY DEF ValidatorWeight
  <2> HIDE DEF S, f
  <2>5. SumFunctionOnSet(f, S) \in Int
    BY <2>2, <2>3, SumRemove
  <2> QED
    BY <2>2, <2>4, <2>5 DEF SumFunction
<1> QED
  BY <1>2, <1>3

\* Every gauge weighs a number.
LEMMA TallyInt ==
    ASSUME Staked
    PROVE  DOMAIN Tally \subseteq Pools /\ \A p \in DOMAIN Tally : Tally[p] \in Int
<1>1. DOMAIN Tally = WeighedPools /\ WeighedPools \subseteq Pools
  BY DEF Tally, WeighedPools, TalliedPools
<1>2. \A p \in WeighedPools : Tally[p] = DelegatorWeight(p) + ValidatorWeight(p)
  BY DEF Tally
<1> QED
  BY <1>1, <1>2, WeightsInt

-----------------------------------------------------------------------------
(***************************************************************************)
(* The block hooks and the ledger                                          *)
(***************************************************************************)

\* What an epoch holds: weights of pools, as the tally made them.
EpochsWF ==
    \A i \in DOMAIN epochs :
        /\ DOMAIN epochs[i].gauges \subseteq Pools
        /\ \A p \in DOMAIN epochs[i].gauges : epochs[i].gauges[p] \in Int

\* The epoch that pays is one that is stored.
LEMMA LastStored ==
    ASSUME EpochInv, HasEpoch
    PROVE  LastId \in DOMAIN epochs
<1>1. PICK k \in Nat \ {0} : DOMAIN epochs = {k} \/ DOMAIN epochs = {k, k + 1}
  BY DEF EpochInv, Consecutive, HasEpoch
<1>2. Max({k}) = k /\ Max({k, k + 1}) = k + 1
  BY Extremes
<1>3. (LastId = k /\ DOMAIN epochs = {k}) \/ (LastId = k + 1 /\ DOMAIN epochs = {k, k + 1})
  BY <1>1, <1>2, Zenon DEF LastId
<1> QED
  BY <1>3

\* What a gauge is worth is a number, and whole tokens unless it is negative.
LEMMA AllocationsNat ==
    ASSUME EpochInv, EpochsWF, NEW fees \in Nat
    PROVE  LET alloc == Allocations(fees)
           IN  /\ \A p \in DOMAIN alloc : Share(fees, p) \in Int
               /\ (\A p \in DOMAIN alloc : ~(Share(fees, p) < 0)) => SumFunction(alloc) \in Nat
<1> DEFINE S == {q \in (IF HasEpoch THEN DOMAIN LastEpoch.gauges ELSE {}) : TotalWeight # 0}
           f == [p \in S |-> TruncateInt(Share(fees, p))]
<1>1. Allocations(fees) = f /\ DOMAIN f = S
  BY DEF Allocations
<1>2. IncentiveFees(fees) \in Int
  <2>1. Dec(fees) * (One - StakingRatio) \in Int /\ Prec \in Int \ {0}
    BY PrecAssumption, IncentivesAssumption DEF Dec, One
  <2> QED
    BY <2>1, TruncDivInt DEF IncentiveFees, MulTruncate
<1>3. IsFiniteSet(S) /\ \A p \in S : Share(fees, p) \in Int
  <2>1. CASE S = {}
    BY <2>1, FS_EmptySet
  <2>2. CASE S # {}
    <3>1. HasEpoch /\ TotalWeight # 0 /\ S = DOMAIN LastEpoch.gauges
      BY <2>2
    <3> DEFINE w == LastEpoch.gauges
    <3>2. DOMAIN w \subseteq Pools /\ \A p \in DOMAIN w : w[p] \in Int
      BY <3>1, LastStored DEF EpochsWF, LastEpoch
    <3>3. IsFiniteSet(DOMAIN w)
      BY <3>2, IncentivesAssumption, FS_Subset
    <3>4. TotalWeight = SumFunction(w)
      BY DEF TotalWeight
    <3>5. \A p \in DOMAIN w : Share(fees, p) = MulTruncate(IncentiveFees(fees), Quo(w[p], TotalWeight))
      BY DEF Share
    <3> HIDE DEF w
    <3>6. TotalWeight \in Int \ {0}
      BY <3>1, <3>2, <3>3, <3>4, SumRemove DEF SumFunction
    <3>7. ASSUME NEW p \in DOMAIN w PROVE Share(fees, p) \in Int
      <4>1. Quo(w[p], TotalWeight) \in Int
        BY <3>2, <3>6, <3>7, QuoInt
      <4>2. IncentiveFees(fees) * Quo(w[p], TotalWeight) \in Int /\ Prec \in Int \ {0}
        BY <1>2, <4>1, PrecAssumption
      <4>3. MulTruncate(IncentiveFees(fees), Quo(w[p], TotalWeight)) \in Int
        BY <4>2, TruncDivInt DEF MulTruncate
      <4> QED
        BY <3>5, <3>7, <4>3
    <3> QED
      BY <3>1, <3>3, <3>7 DEF w
  <2> QED
    BY <2>1, <2>2
<1>4. ASSUME \A p \in S : ~(Share(fees, p) < 0) PROVE \A p \in S : f[p] \in Nat
  <2> TAKE p \in S
  <2>1. Share(fees, p) \in Nat /\ Prec \in Nat \ {0} /\ f[p] = TruncateInt(Share(fees, p))
    BY <1>3, <1>4, PrecAssumption
  <2> QED
    BY <2>1, TruncDivNat, DivBounds DEF TruncateInt
<1> HIDE DEF S, f
<1>5. ASSUME \A p \in S : ~(Share(fees, p) < 0) PROVE SumFunctionOnSet(f, S) \in Nat
  BY <1>3, <1>4, <1>5, SumNat
<1> QED
  BY <1>1, <1>3, <1>5 DEF SumFunction

\* BeginBlock mints, pays pools and stakers, and loses nothing: what the pools
\* get is no more than was collected, and x/distribution gets the rest.
LEMMA BeginBlockLedger ==
    ASSUME BankTypeOK, SupplyHeld, EpochInv, EpochsWF, BeginBlock
    PROVE  BankTypeOK' /\ SupplyHeld'
<1> USE FeeSupplyAssumption
<1>0. /\ BondDenom \in Denoms
      /\ "accounts" \in Holders /\ "feeCollector" \in Holders
      /\ "poolFees" \in Holders /\ "distribution" \in Holders
      /\ \A h \in Holders, d \in Denoms : bal[h][d] \in Nat
      /\ \A d \in Denoms : supply[d] \in Nat /\ supply[d] = Held(d)
  BY DEF Denoms, Holders, BankTypeOK, SupplyHeld
<1>1. CASE bal' = bal /\ supply' = supply /\ maxSupplyFee' = maxSupplyFee
  BY <1>1 DEF BankTypeOK, SupplyHeld, Held
<1> DEFINE alloc == Allocations(Collected)
           T == SumFunction(alloc)
<1>2. Reward \in Nat /\ Collected \in Nat
  BY <1>0, IncentivesAssumption DEF Reward, Collected
<1>3. maxSupplyFee' = maxSupplyFee
  BY DEF BeginBlock
<1>4. CASE AllocationFails(alloc, Collected)
  BY <1>1, <1>3, <1>4 DEF BeginBlock
<1>5. CASE ~AllocationFails(alloc, Collected)
  <2>1. T \in Nat /\ T <= Collected
    <3>1. \A p \in DOMAIN alloc : ~(Share(Collected, p) < 0)
      BY <1>5 DEF AllocationFails
    <3>2. T \in Nat
      BY <1>2, <3>1, AllocationsNat
    <3> QED
      BY <1>2, <1>5, <3>2 DEF AllocationFails
  <2>2. /\ supply' = [supply EXCEPT ![BondDenom] = @ + Reward]
        /\ bal' = [bal EXCEPT
                 !["feeCollector"] = [d \in Denoms |-> 0],
                 !["poolFees"][BondDenom] = @ + T,
                 !["distribution"] = [d \in Denoms |->
                     @[d] + bal["feeCollector"][d]
                     + (IF d = BondDenom THEN Reward - T ELSE 0)]]
    BY <1>5 DEF BeginBlock
  <2> HIDE DEF alloc, T
  <2>3. /\ bal'["accounts"] = bal["accounts"]
        /\ bal'["feeCollector"] = [d \in Denoms |-> 0]
        /\ bal'["poolFees"] = [bal["poolFees"] EXCEPT ![BondDenom] = @ + T]
        /\ bal'["distribution"] = [d \in Denoms |->
                     bal["distribution"][d] + bal["feeCollector"][d]
                     + (IF d = BondDenom THEN Reward - T ELSE 0)]
        /\ DOMAIN bal' = Holders /\ bal' = [h \in Holders |-> bal'[h]]
    BY <2>2 DEF BankTypeOK, Holders
  <2>4. \A d \in Denoms :
          /\ bal'["accounts"][d] = bal["accounts"][d] /\ bal'["feeCollector"][d] = 0
          /\ bal'["poolFees"][d] = bal["poolFees"][d] + (IF d = BondDenom THEN T ELSE 0)
          /\ bal'["distribution"][d] = bal["distribution"][d] + bal["feeCollector"][d]
                     + (IF d = BondDenom THEN Reward - T ELSE 0)
    BY <1>0, <1>2, <2>1, <2>3 DEF BankTypeOK
  <2>5. \A d \in Denoms : bal'["poolFees"][d] \in Nat /\ bal'["distribution"][d] \in Nat
    BY <1>0, <1>2, <2>1, <2>4 DEF Collected
  <2>6. bal' \in [Holders -> [Denoms -> Nat]]
    <3>1. bal'["accounts"] \in [Denoms -> Nat] /\ bal'["feeCollector"] \in [Denoms -> Nat]
      BY <2>3 DEF BankTypeOK, Holders
    <3>2. bal'["poolFees"] \in [Denoms -> Nat]
      <4>1. bal["poolFees"] \in [Denoms -> Nat]
        BY <1>0 DEF BankTypeOK
      <4> QED
        BY <1>0, <2>1, <2>3, <4>1
    <3>3. bal'["distribution"] \in [Denoms -> Nat]
      BY <2>3, <2>5
    <3> QED
      BY <2>3, <3>1, <3>2, <3>3 DEF Holders
  <2>7. \A d \in Denoms : supply'[d] = supply[d] + (IF d = BondDenom THEN Reward ELSE 0)
    BY <1>0, <1>2, <2>2 DEF BankTypeOK
  <2>8. \A d \in Denoms : supply'[d] = Held(d)'
    BY <1>0, <1>2, <2>1, <2>4, <2>7 DEF Held
  <2>9. supply' \in [Denoms -> Nat]
    BY <1>0, <1>2, <2>2 DEF BankTypeOK
  <2> QED
    BY <1>3, <2>6, <2>8, <2>9 DEF BankTypeOK, SupplyHeld
<1> QED
  BY <1>4, <1>5

\* A tally stored as an epoch, first or later, keeps every epoch well formed.
LEMMA EpochsWFStep ==
    ASSUME EpochInv, EpochsWF, Staked, EndBlocker
    PROVE  EpochsWF'
<1> DEFINE w == Tally
           e == NewEpoch(w)
<1>1. DOMAIN w \subseteq Pools /\ \A p \in DOMAIN w : w[p] \in Int
  BY TallyInt
<1>2. e.gauges = w
  BY DEF NewEpoch
<1>3. (CASE ~HasEpoch -> CreateEpoch(0, 1, w)
         [] Ended -> CreateAndPrune(w)
         [] OTHER -> UNCHANGED <<epochs, gauges>>)
  BY DEF EndBlocker
<1> HIDE DEF w, e
<1>4. \/ epochs' = epochs
      \/ \E id : epochs' = Put(epochs, [i \in {id} |-> e])
      \/ \E f, S : /\ epochs' = Drop(f, S) \/ epochs' = f
                   /\ f = Put(epochs, <<>>) \/ \E id : f = Put(epochs, [i \in {id} |-> e])
  <2>1. CASE ~HasEpoch
    <3>1. CreateEpoch(0, 1, w)
      BY <1>3, <2>1 DEF Ended
    <3> QED
      BY <3>1 DEF CreateEpoch, e
  <2>2. CASE Ended
    <3>1. CreateAndPrune(w)
      BY <1>3, <2>2 DEF Ended
    <3> QED
      BY <3>1 DEF CreateAndPrune, e
  <2>3. CASE HasEpoch /\ ~Ended
    BY <1>3, <2>3
  <2> QED
    BY <2>1, <2>2, <2>3
<1> DEFINE Known(f) == \A i \in DOMAIN f : (i \in DOMAIN epochs /\ f[i] = epochs[i]) \/ f[i] = e
<1>5. Known(epochs')
  <2>0. Known(epochs)
    OBVIOUS
  <2>1. Known(Put(epochs, <<>>)) /\ \A id : Known(Put(epochs, [i \in {id} |-> e]))
    BY DEF Put
  <2>2. ASSUME NEW f, NEW S, Known(f) PROVE Known(Drop(f, S))
    BY <2>2 DEF Drop
  <2> HIDE DEF Known
  <2>3. CASE epochs' = epochs \/ \E id : epochs' = Put(epochs, [i \in {id} |-> e])
    BY <2>0, <2>1, <2>3
  <2>4. CASE \E f, S : /\ epochs' = Drop(f, S) \/ epochs' = f
                       /\ f = Put(epochs, <<>>) \/ \E id : f = Put(epochs, [i \in {id} |-> e])
    <3>1. PICK f, S : /\ epochs' = Drop(f, S) \/ epochs' = f
                      /\ f = Put(epochs, <<>>) \/ \E id : f = Put(epochs, [i \in {id} |-> e])
      BY <2>4
    <3>2. Known(f)
      BY <2>1, <3>1
    <3> QED
      BY <2>2, <3>1, <3>2
  <2> QED
    BY <1>4, <2>3, <2>4
<1> QED
  BY <1>1, <1>2, <1>5 DEF EpochsWF

\* Delegations, slashes and unbondings leave what the tally relies on.
LEMMA StakedEnvironment ==
    ASSUME Staked, Environment
    PROVE  Staked'
<1>1. votes' = votes
  BY DEF Environment, incentiveVars
<1>2. CASE Restake
  <2>1. PICK d \in Delegations :
          /\ deleg' = d
          /\ tokens' = [v \in Validators |-> SumFunction([a \in Accounts |-> d[a, v]])]
          /\ bonded' = {v \in Validators : tokens'[v] > 0}
    BY <1>2 DEF Restake
  <2>2. ASSUME NEW v \in Validators
        PROVE  SumFunction([a \in Accounts |-> d[a, v]]) \in Nat
    <3> DEFINE h(a) == d[a, v]
               f == [a \in Accounts |-> h(a)]
    <3>1. d \in [Accounts \X Validators -> Nat]
      BY IncentivesAssumption
    <3>2. \A a \in Accounts : h(a) \in Nat
      BY <3>1
    <3>3. DOMAIN f = Accounts /\ \A a \in Accounts : f[a] \in Nat
      <4> HIDE DEF h
      <4> QED BY <3>2
    <3> HIDE DEF f
    <3>4. SumFunctionOnSet(f, DOMAIN f) \in Nat
      BY <3>3, IncentivesAssumption, SumNat
    <3> QED
      BY <3>4 DEF SumFunction, f
  <2>3. \A v \in Validators : tokens'[v] = DelegatorShares(v)'
    BY <2>1 DEF DelegatorShares
  <2>4. tokens' \in [Validators -> Nat]
    BY <2>1, <2>2
  <2>5. \A v \in bonded' : DelegatorShares(v)' > 0
    BY <2>1, <2>3
  <2> QED
    BY <1>1, <2>1, <2>4, <2>5 DEF Staked
<1>3. CASE Slash \/ Unbond \/ PoolLiquidity
  <2>1. deleg' = deleg /\ bonded' \subseteq bonded
    BY <1>3 DEF Slash, Unbond, PoolLiquidity, stakingVars
  <2>2. tokens' \in [Validators -> Nat]
    <3>1. \A n \in Nat : n \div 2 \in Nat
      OBVIOUS
    <3>2. CASE Slash
      BY <3>1, <3>2 DEF Slash, Staked
    <3> QED
      BY <1>3, <3>2 DEF Unbond, PoolLiquidity, stakingVars, Staked
  <2>3. \A v : DelegatorShares(v)' = DelegatorShares(v)
    BY <2>1 DEF DelegatorShares
  <2> QED
    BY <1>1, <2>1, <2>2, <2>3 DEF Staked
<1> QED
  BY <1>2, <1>3 DEF Environment

\* A vote is one of the ballots ValidateBasic accepts.
LEMMA StakedVote ==
    ASSUME Staked, NEW a \in Accounts, NEW b \in Ballots, VoteGauge(a, b)
    PROVE  Staked'
<1>1. votes' = Put(votes, [x \in {a} |-> b]) /\ deleg' = deleg /\ tokens' = tokens /\ bonded' = bonded
  BY DEF VoteGauge, stakingVars
<1>2. DOMAIN votes' = DOMAIN votes \cup {a} /\ \A x \in DOMAIN votes' : votes'[x] = b \/ (x \in DOMAIN votes /\ votes'[x] = votes[x])
  BY <1>1 DEF Put
<1>3. \A v : DelegatorShares(v)' = DelegatorShares(v)
  BY <1>1 DEF DelegatorShares
<1> QED
  BY <1>1, <1>2, <1>3 DEF Staked

\* The rest of the type invariant.
Others ==
    /\ height \in 1 .. MaxHeight
    /\ inBlock \in BOOLEAN /\ halted \in BOOLEAN
    /\ active \subseteq usable /\ usable \subseteq Pools
    /\ txs \in 0 .. MaxTxs

LEMMA OthersStep ==
    ASSUME Others, [Next]_vars
    PROVE  Others'
<1> USE IncentivesAssumption
<1>1. CASE BeginBlock
  BY <1>1 DEF BeginBlock, Others, poolVars
<1>2. CASE EndBlock
  <2>1. height' \in 1 .. MaxHeight
    <3>1. height \in Int /\ MaxHeight \in Int /\ height' = Min({height + 1, MaxHeight})
      BY <1>2 DEF EndBlock, Others
    <3> DEFINE S == {height + 1, MaxHeight}
    <3>2. \E x \in S : \A y \in S : x <= y
      <4>1. CASE height + 1 <= MaxHeight
        BY <3>1, <4>1
      <4>2. CASE height + 1 > MaxHeight
        BY <3>1, <4>2
      <4> QED
        BY <3>1, <4>1, <4>2
    <3>3. Min(S) \in S /\ \A y \in S : Min(S) <= y
      <4> HIDE DEF S
      <4> QED BY <3>2, Zenon DEF Min
    <3> QED
      BY <3>1, <3>3 DEF Others
  <2> QED
    BY <1>2, <2>1 DEF EndBlock, Others, poolVars
<1>3. CASE UNCHANGED vars
  BY <1>3 DEF Others, vars, poolVars, blockVars
<1>4. ASSUME InTx PROVE txs' \in 0 .. MaxTxs
  BY <1>4 DEF InTx, Others
<1>5. ASSUME NEW a \in Accounts, NEW b \in Ballots, VoteGauge(a, b) PROVE Others'
  BY <1>4, <1>5 DEF VoteGauge, Others, poolVars, blockVars
<1>6. CASE BankTx
  BY <1>4, <1>6 DEF BankTx, Others, poolVars, blockVars
<1>7. CASE Environment
  <2>1. active' \subseteq usable' /\ usable' \subseteq Pools
    BY <1>7 DEF Environment, Restake, Slash, Unbond, PoolLiquidity, Others, poolVars
  <2> QED
    BY <1>4, <1>7, <2>1 DEF Environment, Others, blockVars
<1> QED
  BY <1>1, <1>2, <1>3, <1>5, <1>6, <1>7 DEF Next, Block

\* The inductive invariant of the composed system: the ledger, the stores of
\* epochs, the weights in them and the staking state the tally reads.
LedgerInv == BankTypeOK /\ SupplyHeld /\ EpochInv /\ EpochsWF /\ Staked /\ Others

LEMMA LedgerInvInit == Init => LedgerInv
<1> SUFFICES ASSUME Init PROVE LedgerInv
  OBVIOUS
<1>1. BankTypeOK /\ SupplyHeld
  BY FeeSupplyAssumption DEF Init, InitBank, BankTypeOK, SupplyHeld, Held, Holders
<1>2. EpochInv /\ EpochsWF
  BY DEF Init, EpochInv, EpochsWF, Consecutive, Apart, Agree
<1>3. Staked
  <2>1. deleg \in [Accounts \X Validators -> Nat]
    BY IncentivesAssumption DEF Init
  <2>2. ASSUME NEW v \in Validators PROVE DelegatorShares(v) \in Nat
    <3> DEFINE h(a) == deleg[a, v]
               f == [a \in Accounts |-> h(a)]
    <3>1. \A a \in Accounts : h(a) \in Nat
      BY <2>1
    <3>2. DOMAIN f = Accounts /\ \A a \in Accounts : f[a] \in Nat
      <4> HIDE DEF h
      <4> QED BY <3>1
    <3> HIDE DEF f
    <3>3. SumFunctionOnSet(f, DOMAIN f) \in Nat
      BY <3>2, IncentivesAssumption, SumNat
    <3> QED
      BY <3>3 DEF SumFunction, f, DelegatorShares
  <2> QED
    BY <2>2 DEF Init, Staked
<1>4. Others
  <2>1. /\ height = 1 /\ inBlock = FALSE /\ halted = FALSE /\ txs = 0
        /\ active = usable /\ usable \in SUBSET Pools
    BY DEF Init
  <2>2. height \in 1 .. MaxHeight /\ txs \in 0 .. MaxTxs
    BY <2>1, IncentivesAssumption
  <2> QED
    BY <2>1, <2>2 DEF Others
<1> QED
  BY <1>1, <1>2, <1>3, <1>4 DEF LedgerInv

LEMMA LedgerInvStep == LedgerInv /\ [Next]_vars => LedgerInv'
<1> SUFFICES ASSUME LedgerInv, [Next]_vars PROVE LedgerInv'
  OBVIOUS
<1>0. EpochInv' /\ Others'
  BY EpochsInductive, OthersStep DEF LedgerInv
<1>1. CASE BeginBlock
  <2>1. BankTypeOK' /\ SupplyHeld'
    BY <1>1, BeginBlockLedger DEF LedgerInv
  <2>2. UNCHANGED <<votes, epochs, deleg, tokens, bonded>>
    BY <1>1 DEF BeginBlock, incentiveVars, stakingVars
  <2>3. EpochsWF' /\ Staked'
    BY <2>2 DEF LedgerInv, EpochsWF, Staked, DelegatorShares
  <2> QED
    BY <1>0, <2>1, <2>3 DEF LedgerInv
<1> DEFINE Books == BankTypeOK /\ SupplyHeld
<1>2. CASE EndBlock
  <2>1. UNCHANGED bankVars /\ UNCHANGED <<votes, deleg, tokens, bonded>> /\ EndBlocker
    BY <1>2 DEF EndBlock, stakingVars
  <2>2. Books'
    BY <2>1 DEF LedgerInv, bankVars, BankTypeOK, SupplyHeld, Held
  <2>3. EpochsWF'
    BY <2>1, EpochsWFStep DEF LedgerInv
  <2>4. Staked'
    BY <2>1 DEF LedgerInv, Staked, DelegatorShares
  <2> QED
    BY <1>0, <2>2, <2>3, <2>4 DEF LedgerInv
<1>3. CASE Environment \/ BankTx \/ UNCHANGED vars \/ \E a \in Accounts, b \in Ballots : VoteGauge(a, b)
  <2>1. epochs' = epochs
    BY <1>3 DEF Environment, BankTx, vars, VoteGauge, incentiveVars
  <2>2. EpochsWF'
    BY <2>1 DEF LedgerInv, EpochsWF
  <2>3. Books'
    <3>1. CASE BankTx
      BY <3>1, LedgerStep DEF BankTx, LedgerInv
    <3>2. CASE UNCHANGED bankVars
      BY <3>2, LedgerStep DEF LedgerInv
    <3> QED
      BY <1>3, <3>1, <3>2 DEF Environment, VoteGauge, vars
  <2>4. Staked'
    <3>1. CASE BankTx \/ UNCHANGED vars
      <4>1. UNCHANGED <<votes, deleg, tokens, bonded>>
        BY <3>1 DEF BankTx, vars, incentiveVars, stakingVars
      <4> QED
        BY <4>1 DEF LedgerInv, Staked, DelegatorShares
    <3> QED
      BY <1>3, <3>1, StakedEnvironment, StakedVote DEF LedgerInv
  <2> QED
    BY <1>0, <2>2, <2>3, <2>4 DEF LedgerInv
<1> QED
  BY <1>1, <1>2, <1>3 DEF Next, Block

\* The books balance in the whole system: through block rewards, incentives
\* paid to the pools, distribution, fees, burns and conversions, the supply
\* the converter reads is what everybody holds.
THEOREM BooksBalanced == Spec => []SupplyHeld
<1>1. LedgerInv => SupplyHeld
  BY DEF LedgerInv
<1> QED
  BY <1>1, LedgerInvInit, LedgerInvStep, PTL DEF Spec

\* Types, among them: no holder is overdrawn by fees, conversions or the
\* payments of BeginBlock.
THEOREM IncentivesTypes == Spec => []TypeOK
<1>1. LedgerInv => TypeOK
  <2> SUFFICES ASSUME LedgerInv PROVE TypeOK
    OBVIOUS
  <2>1. DOMAIN epochs \subseteq Nat \ {0}
    BY DEF LedgerInv, EpochInv, Consecutive
  <2>2. DOMAIN gauges \subseteq Nat \X Pools
    <3> SUFFICES ASSUME NEW k \in DOMAIN gauges PROVE k \in Nat \X Pools
      OBVIOUS
    <3>1. PICK i \in DOMAIN epochs : k \in {i - 1} \X DOMAIN epochs[i].gauges
      BY DEF LedgerInv, EpochInv, Agree
    <3>2. i - 1 \in Nat /\ DOMAIN epochs[i].gauges \subseteq Pools
      BY <2>1 DEF LedgerInv, EpochsWF
    <3> QED
      BY <3>1, <3>2
  <2> QED
    BY <2>1, <2>2 DEF TypeOK, LedgerInv, Staked, Others
<1> QED
  BY <1>1, LedgerInvInit, LedgerInvStep, PTL DEF Spec

-----------------------------------------------------------------------------
(***************************************************************************)
(* No voting power is counted twice                                        *)
(***************************************************************************)

LEMMA Cancel ==
    ASSUME NEW k \in Nat \ {0}, NEW x \in Int, NEW y \in Int, k * x <= k * y
    PROVE  x <= y
<1>1. SUFFICES ASSUME x >= y + 1 PROVE FALSE
  OBVIOUS
<1>2. k * x >= k * (y + 1)
  BY <1>1
<1> QED
  BY <1>2

LEMMA Scale ==
    ASSUME NEW k \in Nat, NEW x \in Int, NEW y \in Int, x <= y
    PROVE  k * x <= k * y
OBVIOUS

\* A quotient exceeds the exact one by at most half a unit.
LEMMA QuoBound ==
    ASSUME NEW a \in Nat, NEW b \in Nat \ {0}
    PROVE  Quo(a, b) \in Nat /\ 2 * (b * Quo(a, b)) <= 2 * (a * Prec) + b
<1> DEFINE n == TruncDiv(a * Prec * Prec, b)
           q == Quo(a, b)
<1>1. Prec \in Nat \ {0}
  BY PrecAssumption
<1>2. a * Prec \in Nat /\ a * Prec * Prec \in Nat
  BY <1>1
<1>3. n \in Nat /\ b * n <= a * Prec * Prec
  BY <1>2, TruncDivNat, DivBounds
<1>4. q \in Nat /\ 2 * (Prec * q) <= 2 * n + Prec
  <2> HIDE DEF n
  <2>1. q = ChopRound(n)
    BY DEF Quo, n
  <2> QED
    BY <1>3, <2>1, ChopBound
<1> HIDE DEF n, q
<1>5. b * (2 * (Prec * q)) <= b * (2 * n + Prec)
  <2>1. 2 * (Prec * q) \in Int /\ 2 * n + Prec \in Int
    BY <1>1, <1>3, <1>4
  <2> QED
    BY <1>4, <2>1, Scale
<1>6. Prec * (2 * (b * q)) <= Prec * (2 * (a * Prec) + b)
  <2>1. b * (2 * (Prec * q)) = Prec * (2 * (b * q))
    BY <1>1, <1>4
  <2>2. b * (2 * n + Prec) = 2 * (b * n) + b * Prec
    BY <1>1, <1>3
  <2>3. Prec * (2 * (a * Prec) + b) = 2 * (a * Prec * Prec) + b * Prec
    BY <1>1
  <2> DEFINE bn == b * n
             bp == b * Prec
             ap == a * Prec * Prec
  <2>4. bn \in Int /\ bp \in Int /\ ap \in Int /\ bn <= ap
    BY <1>1, <1>2, <1>3
  <2>5. Prec * (2 * (b * q)) <= 2 * bn + bp
    BY <1>5, <2>1, <2>2
  <2>6. Prec * (2 * (a * Prec) + b) = 2 * ap + bp
    BY <2>3
  <2>7. Prec * (2 * (b * q)) \in Int
    BY <1>1, <1>4
  <2> HIDE DEF bn, bp, ap
  <2> QED
    BY <2>4, <2>5, <2>6, <2>7
<1>7. 2 * (b * q) \in Int /\ 2 * (a * Prec) + b \in Int
  BY <1>1, <1>4
<1>8. 2 * (b * q) <= 2 * (a * Prec) + b
  BY <1>1, <1>6, <1>7, Cancel
<1> QED
  BY <1>4, <1>8 DEF q

\* The power of some shares is their part of the tokens, rounded.
LEMMA PowerBound ==
    ASSUME Staked, NEW v \in bonded, NEW x \in Nat
    PROVE  /\ VotingPower(x, v) \in Nat
           /\ DelegatorShares(v) \in Nat \ {0} /\ tokens[v] \in Nat
           /\ 2 * (DelegatorShares(v) * VotingPower(x, v))
                <= 2 * (x * Dec(tokens[v])) + DelegatorShares(v)
<1> DEFINE S == DelegatorShares(v)
           t == tokens[v]
           w == VotingPower(x, v)
<1>1. /\ v \in Validators /\ t \in Nat /\ Prec \in Nat \ {0}
      /\ S \in Nat \ {0}
  <2>1. v \in Validators /\ t \in Nat /\ S > 0
    BY DEF Staked
  <2>2. S \in Nat
    BY <2>1, SharesNat
  <2> QED
    BY <2>1, <2>2, PrecAssumption
<1>2. w = Quo(x * Prec * t, S * Prec)
  BY DEF VotingPower, Dec
<1> HIDE DEF S, t, w
<1>3. x * Prec * t \in Nat /\ S * Prec \in Nat \ {0}
  BY <1>1
<1>4. w \in Nat /\ 2 * ((S * Prec) * w) <= 2 * ((x * Prec * t) * Prec) + S * Prec
  BY <1>2, <1>3, QuoBound
<1>5. Prec * (2 * (S * w)) <= Prec * (2 * (x * (t * Prec)) + S)
  <2>1. Prec * (2 * (S * w)) = 2 * ((S * Prec) * w)
    BY <1>1, <1>4
  <2>2. Prec * (2 * (x * (t * Prec)) + S) = 2 * ((x * Prec * t) * Prec) + S * Prec
    BY <1>1
  <2> QED
    BY <1>4, <2>1, <2>2
<1>6. 2 * (S * w) \in Int /\ 2 * (x * (t * Prec)) + S \in Int
  BY <1>1, <1>4
<1>7. 2 * (S * w) <= 2 * (x * (t * Prec)) + S
  BY <1>1, <1>5, <1>6, Cancel
<1> QED
  BY <1>1, <1>4, <1>7 DEF S, t, w, Dec

\* What one voter adds to all pools together: x shares of validator v, split
\* by the ballot b.
LEMMA VoterBound ==
    ASSUME Staked, NEW v \in bonded, NEW x \in Nat, NEW b \in Ballots, NEW m,
           \A p \in Pools : m[p] = IF p \in DOMAIN b THEN Mul(VotingPower(x, v), b[p]) ELSE 0
    PROVE  /\ \A p \in Pools : m[p] \in Int
           /\ SumFunctionOnSet(m, Pools) \in Int
           /\ DelegatorShares(v) * SumFunctionOnSet(m, Pools)
                <= x * Dec(tokens[v]) + DelegatorShares(v) * Cardinality(Pools)
<1> DEFINE S == DelegatorShares(v)
           X == x * Dec(tokens[v])
           V == VotingPower(x, v)
           D == DOMAIN b
           M == SumFunctionOnSet(m, Pools)
           B == SumFunctionOnSet(b, D)
           n == Cardinality(Pools)
           d == Cardinality(D)
<1>1. Prec \in Nat \ {0} /\ V \in Nat /\ S \in Nat \ {0} /\ X \in Nat /\ 2 * (S * V) <= 2 * X + S
  BY PowerBound, PrecAssumption DEF Dec
<1>2. /\ D \in SUBSET Pools /\ IsFiniteSet(Pools) /\ IsFiniteSet(D)
      /\ n \in Nat /\ d \in Nat /\ d <= n
  BY IncentivesAssumption, FS_Subset, FS_CardinalityType
<1>3. (\A p \in D : b[p] \in Int) /\ B \in Int /\ B <= Prec
  <2>1. \A p \in D : b[p] \in Int
    BY IncentivesAssumption
  <2>2. SumFunction(b) <= Prec
    BY IncentivesAssumption DEF One
  <2>3. SumFunction(b) = B
    BY DEF SumFunction
  <2> QED
    BY <1>2, <2>1, <2>2, <2>3, SumRemove
<1> HIDE DEF V, D
<1>4. \A p \in D : m[p] = Mul(V, b[p]) /\ m[p] \in Int /\ 2 * (Prec * m[p]) <= 2 * (V * b[p]) + Prec
  <2> TAKE p \in D
  <2>1. m[p] = Mul(V, b[p])
    BY <1>2 DEF V, D
  <2> QED
    BY <1>1, <1>3, <2>1, MulBound
<1>5. \A p \in Pools \ D : m[p] = 0
  BY DEF D
<1>6. \A p \in Pools : m[p] \in Int
  BY <1>4, <1>5
<1>7. M = SumFunctionOnSet(m, D) /\ M \in Int
  <2>1. \A p \in D : m[p] \in Int
    BY <1>4
  <2>2. M = SumFunctionOnSet(m, D)
    BY <1>2, <1>5, <2>1, SumPad
  <2> QED
    BY <1>2, <1>6, <2>2, SumRemove
<1> DEFINE lhs == [p \in D |-> (2 * Prec) * m[p]]
           vb == [p \in D |-> (2 * V) * b[p]]
           one == [p \in D |-> Prec]
           rhs == [p \in D |-> (2 * V) * b[p] + Prec]
<1>8. /\ 2 * Prec \in Int /\ 2 * V \in Int
      /\ \A p \in D : lhs[p] = (2 * Prec) * m[p] /\ m[p] \in Int /\ lhs[p] \in Int
      /\ \A p \in D : vb[p] = (2 * V) * b[p] /\ b[p] \in Int /\ vb[p] \in Int
      /\ \A p \in D : one[p] = Prec /\ one[p] \in Int
      /\ \A p \in D : rhs[p] = vb[p] + one[p] /\ rhs[p] \in Int
      /\ \A p \in D : lhs[p] <= rhs[p]
  BY <1>1, <1>3, <1>4
<1> HIDE DEF lhs, vb, one, rhs, M, B
<1>9. SumFunctionOnSet(lhs, D) = (2 * Prec) * M
  BY <1>2, <1>7, <1>8, SumTimes
<1>10. SumFunctionOnSet(vb, D) = (2 * V) * B
  <2>1. SumFunctionOnSet(vb, D) = (2 * V) * SumFunctionOnSet(b, D)
    BY <1>2, <1>8, SumTimes
  <2> QED
    BY <2>1 DEF B
<1>11. SumFunctionOnSet(one, D) = Prec * d
  <2>1. Prec \in Int
    BY <1>1
  <2> QED
    BY <1>2, <1>8, <2>1, SumConstant
<1>12. SumFunctionOnSet(rhs, D) = SumFunctionOnSet(vb, D) + SumFunctionOnSet(one, D)
  BY <1>2, <1>8, SumPlus
<1>13. SumFunctionOnSet(lhs, D) <= SumFunctionOnSet(rhs, D)
  BY <1>2, <1>8, SumMonotone
<1> HIDE DEF n, d
<1>14. Prec * (2 * M) <= Prec * (2 * V + n)
  <2>1. (2 * Prec) * M <= (2 * V) * B + Prec * d
    BY <1>9, <1>10, <1>11, <1>12, <1>13
  <2>2. (2 * V) * B <= (2 * V) * Prec
    <3>1. 2 * V \in Nat /\ B \in Int /\ Prec \in Int
      BY <1>1, <1>3
    <3> QED
      BY <1>3, <3>1, Scale
  <2>3. Prec * d <= Prec * n
    BY <1>1, <1>2, Scale
  <2>4. /\ (2 * Prec) * M \in Int /\ (2 * V) * B \in Int /\ Prec * d \in Int
        /\ (2 * V) * Prec \in Int /\ Prec * n \in Int
        /\ Prec * (2 * M) = (2 * Prec) * M /\ Prec * (2 * V + n) = (2 * V) * Prec + Prec * n
    BY <1>1, <1>2, <1>3, <1>7
  <2> QED
    BY <2>1, <2>2, <2>3, <2>4
<1>15. 2 * M <= 2 * V + n
  <2>1. 2 * M \in Int /\ 2 * V + n \in Int
    BY <1>1, <1>2, <1>7
  <2> QED
    BY <1>1, <1>14, <2>1, Cancel
<1>16. n = 0 => M = 0
  <2>1. n = 0 => Pools = {}
    BY <1>2, FS_EmptySet DEF n
  <2>2. Pools = {} => M = 0
    BY SumEmpty DEF M
  <2> QED
    BY <2>1, <2>2
<1> HIDE DEF S, X
<1>17. S * M <= X + S * n
  <2>1. CASE n = 0
    <3>1. S * M = 0 /\ S * n = 0
      BY <1>1, <1>16, <2>1
    <3> QED
      BY <1>1, <3>1
  <2>2. CASE n # 0
    <3>1. S * (2 * M) <= S * (2 * V + n)
      <4>1. 2 * M \in Int /\ 2 * V + n \in Int
        BY <1>1, <1>2, <1>7
      <4> QED
        BY <1>1, <1>15, <4>1, Scale
    <3>2. S * 1 <= S * n
      <4>1. 1 \in Int /\ n \in Int /\ 1 <= n
        BY <1>2, <2>2
      <4> QED
        BY <1>1, <4>1, Scale
    <3>3. /\ S * M \in Int /\ S * V \in Int /\ S * n \in Int /\ S * 1 = S
          /\ S * (2 * M) = 2 * (S * M) /\ S * (2 * V + n) = 2 * (S * V) + S * n
      BY <1>1, <1>2, <1>7
    <3> QED
      BY <1>1, <3>1, <3>2, <3>3
  <2> QED
    BY <2>1, <2>2
<1> QED
  BY <1>6, <1>7, <1>17 DEF S, X, M, n

\* What a delegator who votes, and what a validator with the shares left to
\* it, adds to each pool.
VoterRow(c) ==
    [p \in Pools |-> IF p \in DOMAIN votes[c[1]]
                     THEN Mul(VotingPower(deleg[c], c[2]), votes[c[1]][p]) ELSE 0]
ValidatorRow(v) ==
    [p \in Pools |-> IF Voted(Operator[v], p)
                     THEN Mul(VotingPower(DelegatorShares(v) - DelegatorDeductions(v), v),
                              votes[Operator[v]][p]) ELSE 0]

LEMMA VoterRowBound ==
    ASSUME Staked, NEW c \in Counted
    PROVE  /\ \A p \in Pools : VoterRow(c)[p] \in Int
           /\ SumFunctionOnSet(VoterRow(c), Pools) \in Int
           /\ deleg[c] \in Nat /\ c[2] \in bonded
           /\ DelegatorShares(c[2]) * SumFunctionOnSet(VoterRow(c), Pools)
                <= deleg[c] * Dec(tokens[c[2]]) + DelegatorShares(c[2]) * Cardinality(Pools)
<1> DEFINE m == VoterRow(c)
           b == votes[c[1]]
           v == c[2]
           x == deleg[c]
<1>1. v \in bonded /\ c[1] \in Voters /\ c \in Accounts \X Validators
  BY CountedFinite DEF Counted
<1>2. x \in Nat
  <2>1. deleg \in [Accounts \X Validators -> Nat]
    BY IncentivesAssumption DEF Staked
  <2> QED
    BY <1>1, <2>1
<1>3. b \in Ballots
  BY <1>1 DEF Staked, Voters
<1>4. \A p \in Pools : m[p] = IF p \in DOMAIN b THEN Mul(VotingPower(x, v), b[p]) ELSE 0
  BY DEF VoterRow
<1> HIDE DEF m, b, v, x
<1>5. /\ \A p \in Pools : m[p] \in Int
      /\ SumFunctionOnSet(m, Pools) \in Int
      /\ DelegatorShares(v) * SumFunctionOnSet(m, Pools)
           <= x * Dec(tokens[v]) + DelegatorShares(v) * Cardinality(Pools)
  BY <1>1, <1>2, <1>3, <1>4, VoterBound
<1> QED
  BY <1>1, <1>2, <1>5 DEF m, v, x

LEMMA ValidatorRowBound ==
    ASSUME Staked, NEW v \in bonded
    PROVE  /\ \A p \in Pools : ValidatorRow(v)[p] \in Int
           /\ SumFunctionOnSet(ValidatorRow(v), Pools) \in Int
           /\ DelegatorShares(v) * SumFunctionOnSet(ValidatorRow(v), Pools)
                <= (DelegatorShares(v) - DelegatorDeductions(v)) * Dec(tokens[v])
                   + DelegatorShares(v) * Cardinality(Pools)
<1> DEFINE m == ValidatorRow(v)
           b == votes[Operator[v]]
           x == DelegatorShares(v) - DelegatorDeductions(v)
<1>1. v \in Validators
  BY DEF Staked
<1>2. x \in Nat
  <2>1. /\ DelegatorShares(v) \in Nat /\ DelegatorDeductions(v) \in Nat
        /\ DelegatorDeductions(v) <= DelegatorShares(v)
    BY <1>1, SharesNat
  <2> QED
    BY <2>1
<1>3. CASE Operator[v] \in Voters
  <2>1. b \in Ballots
    BY <1>3 DEF Staked, Voters
  <2>2. \A p \in Pools : m[p] = IF p \in DOMAIN b THEN Mul(VotingPower(x, v), b[p]) ELSE 0
    BY <1>3 DEF ValidatorRow, Voted
  <2> HIDE DEF m, b, x
  <2>3. /\ \A p \in Pools : m[p] \in Int
        /\ SumFunctionOnSet(m, Pools) \in Int
        /\ DelegatorShares(v) * SumFunctionOnSet(m, Pools)
             <= x * Dec(tokens[v]) + DelegatorShares(v) * Cardinality(Pools)
    BY <1>2, <2>1, <2>2, VoterBound
  <2> QED
    BY <2>3 DEF m, x
<1>4. CASE Operator[v] \notin Voters
  <2>1. \A p \in Pools : m[p] = 0
    BY <1>4 DEF ValidatorRow, Voted
  <2> HIDE DEF m
  <2>2. SumFunctionOnSet(m, Pools) = 0
    BY <2>1, IncentivesAssumption, SumZero
  <2> DEFINE S == DelegatorShares(v)
             t == tokens[v]
             n == Cardinality(Pools)
  <2>3. S \in Nat /\ t \in Nat /\ n \in Nat /\ Prec \in Nat
    BY <1>1, SharesNat, IncentivesAssumption, FS_CardinalityType, PrecAssumption DEF Staked
  <2> HIDE DEF S, t, n, x
  <2>4. x * Dec(t) \in Nat /\ S * n \in Nat /\ S * 0 = 0
    BY <1>2, <2>3 DEF Dec
  <2>5. S * SumFunctionOnSet(m, Pools) <= x * Dec(t) + S * n
    BY <2>2, <2>4
  <2> QED
    BY <2>1, <2>2, <2>5 DEF S, t, n, x, m
<1> QED
  BY <1>3, <1>4

VoterTotals == [c \in Counted |-> SumFunctionOnSet(VoterRow(c), Pools)]
ValidatorTotals == [v \in bonded |-> SumFunctionOnSet(ValidatorRow(v), Pools)]

\* The weights by pool add up to what the voters add.
LEMMA DelegatorsByPool ==
    ASSUME Staked
    PROVE  SumFunctionOnSet([p \in Pools |-> DelegatorWeight(p)], Pools)
             = SumFunctionOnSet(VoterTotals, Counted)
<1> DEFINE R == [c \in Counted |-> VoterRow(c)]
           N == [c \in Counted |-> DOMAIN votes[c[1]]]
           F == [p \in Pools |-> [c \in {z \in Counted : p \in N[z]} |-> R[c][p]]]
           rows == VoterTotals
           cols == [p \in Pools |-> DelegatorWeight(p)]
<1>1. IsFiniteSet(Counted) /\ IsFiniteSet(Pools)
  BY CountedFinite, IncentivesAssumption
<1>2. \A c \in Counted : \A p \in Pools : R[c][p] \in Int
  BY VoterRowBound
<1>3. \A c \in Counted : \A p \in Pools : p \notin N[c] => R[c][p] = 0
  BY DEF VoterRow
<1>4. \A c \in Counted : rows[c] = SumFunctionOnSet(R[c], Pools)
  BY DEF VoterTotals
<1>5. ASSUME NEW p \in Pools
      PROVE  /\ \A x : x \in DOMAIN F[p] <=> x \in Counted /\ p \in N[x]
             /\ \A x \in DOMAIN F[p] : F[p][x] = R[x][p]
             /\ cols[p] = SumFunction(F[p])
  <2> DEFINE A == {k \in Counted : Voted(k[1], p)}
             B == {z \in Counted : p \in N[z]}
             f == [c \in A |-> Mul(VotingPower(deleg[c], c[2]), votes[c[1]][p])]
             g == F[p]
  <2>1. \A c \in Counted : c[1] \in Voters
    BY DEF Counted
  <2>2. A = B
    BY <2>1 DEF Voted
  <2>3. \A c \in B : R[c][p] = Mul(VotingPower(deleg[c], c[2]), votes[c[1]][p])
    BY DEF VoterRow
  <2>4. f = g
    <3>1. g = [c \in B |-> R[c][p]]
      OBVIOUS
    <3> HIDE DEF A, B, R, g
    <3> QED BY <2>2, <2>3, <3>1
  <2>5. cols[p] = SumFunction(f)
    BY DEF DelegatorWeight
  <2> HIDE DEF f, g
  <2>6. cols[p] = SumFunction(g)
    BY <2>4, <2>5
  <2>7. /\ \A x : x \in DOMAIN F[p] <=> x \in Counted /\ p \in N[x]
        /\ \A x \in DOMAIN F[p] : F[p][x] = R[x][p]
    OBVIOUS
  <2> QED
    BY <2>6, <2>7 DEF g
<1> HIDE DEF R, N, F, rows, cols
<1>6. SparseTable(Counted, Pools, R, N, F, rows, cols)
  BY <1>1, <1>2, <1>3, <1>4, <1>5 DEF SparseTable
<1>7. SumFunctionOnSet(rows, Counted) = SumFunctionOnSet(cols, Pools)
  BY <1>6, SumSparse
<1> QED
  BY <1>7 DEF rows, cols

\* Likewise for the validators.
LEMMA ValidatorsByPool ==
    ASSUME Staked
    PROVE  SumFunctionOnSet([p \in Pools |-> ValidatorWeight(p)], Pools)
             = SumFunctionOnSet(ValidatorTotals, bonded)
<1> DEFINE R == [v \in bonded |-> ValidatorRow(v)]
           N == [v \in bonded |-> {p \in Pools : Voted(Operator[v], p)}]
           F == [p \in Pools |-> [v \in {z \in bonded : p \in N[z]} |-> R[v][p]]]
           rows == ValidatorTotals
           cols == [p \in Pools |-> ValidatorWeight(p)]
<1>1. IsFiniteSet(bonded) /\ IsFiniteSet(Pools)
  BY IncentivesAssumption, FS_Subset DEF Staked
<1>2. \A v \in bonded : \A p \in Pools : R[v][p] \in Int
  BY ValidatorRowBound
<1>3. \A v \in bonded : \A p \in Pools : p \notin N[v] => R[v][p] = 0
  BY DEF ValidatorRow
<1>4. \A v \in bonded : rows[v] = SumFunctionOnSet(R[v], Pools)
  BY DEF ValidatorTotals
<1>5. ASSUME NEW p \in Pools
      PROVE  /\ \A x : x \in DOMAIN F[p] <=> x \in bonded /\ p \in N[x]
             /\ \A x \in DOMAIN F[p] : F[p][x] = R[x][p]
             /\ cols[p] = SumFunction(F[p])
  <2> DEFINE A == {u \in VotingValidators : Voted(Operator[u], p)}
             B == {z \in bonded : p \in N[z]}
             w(v) == Mul(VotingPower(DelegatorShares(v) - DelegatorDeductions(v), v),
                         votes[Operator[v]][p])
             f == [v \in A |-> w(v)]
             g == F[p]
  <2>2. A = B
    BY DEF VotingValidators
  <2>3. \A v \in B : R[v][p] = w(v)
    BY DEF ValidatorRow
  <2>5. cols[p] = SumFunction(f)
    BY DEF ValidatorWeight
  <2>4. f = g
    <3>1. g = [v \in B |-> R[v][p]]
      OBVIOUS
    <3> HIDE DEF A, B, R, w, g
    <3> QED BY <2>2, <2>3, <3>1
  <2> HIDE DEF f, g
  <2>6. cols[p] = SumFunction(g)
    BY <2>4, <2>5
  <2>7. /\ \A x : x \in DOMAIN F[p] <=> x \in bonded /\ p \in N[x]
        /\ \A x \in DOMAIN F[p] : F[p][x] = R[x][p]
    OBVIOUS
  <2> QED
    BY <2>6, <2>7 DEF g
<1> HIDE DEF R, N, F, rows, cols
<1>6. SparseTable(bonded, Pools, R, N, F, rows, cols)
  BY <1>1, <1>2, <1>3, <1>4, <1>5 DEF SparseTable
<1>7. SumFunctionOnSet(rows, bonded) = SumFunctionOnSet(cols, Pools)
  BY <1>6, SumSparse
<1> QED
  BY <1>7 DEF rows, cols

\* The counted delegations to one validator.
CountedAt(v) == {c \in Counted : c[2] = v}

\* They are what is deducted from the validator.
LEMMA DeductionsCounted ==
    ASSUME Staked, NEW v \in bonded
    PROVE  /\ IsFiniteSet(CountedAt(v))
           /\ Cardinality(CountedAt(v)) <= Cardinality(Accounts)
           /\ SumFunctionOnSet(deleg, CountedAt(v)) = DelegatorDeductions(v)
<1> DEFINE B == {b \in Voters : <<b, v>> \in Counted}
           h(a) == deleg[a, v]
           g == [a \in B |-> h(a)]
           K == CountedAt(v)
<1>1. v \in Validators /\ B \subseteq Accounts
  BY DEF Staked, Voters
<1>2. IsFiniteSet(B) /\ Cardinality(B) <= Cardinality(Accounts)
  BY <1>1, IncentivesAssumption, FS_Subset
<1>3. K = B \X {v}
  <2>1. \A c \in Counted : c = <<c[1], c[2]>> /\ c[1] \in Voters
    BY DEF Counted
  <2>2. K \subseteq B \X {v}
    BY <2>1 DEF CountedAt
  <2>3. B \X {v} \subseteq K
    BY DEF CountedAt
  <2> QED
    BY <2>2, <2>3
<1>4. \A a \in Accounts : h(a) \in Nat
  BY <1>1, SharesNat
<1>5. \A a \in B : h(a) = deleg[<<a, v>>]
  OBVIOUS
<1>6. DelegatorDeductions(v) = SumFunction(g)
  BY DEF DelegatorDeductions
<1> HIDE DEF B, K, h
<1>7. DOMAIN g = B /\ Slice(B, v, deleg, g)
  BY <1>1, <1>4, <1>5 DEF Slice
<1> HIDE DEF g
<1>8. /\ IsFiniteSet(B \X {v}) /\ Cardinality(B \X {v}) = Cardinality(B)
      /\ SumFunctionOnSet(deleg, B \X {v}) = SumFunctionOnSet(g, B)
  BY <1>2, <1>7, SumPairs
<1>9. SumFunction(g) = SumFunctionOnSet(g, B)
  BY <1>7, Zenon DEF SumFunction
<1>10. IsFiniteSet(K) /\ Cardinality(K) = Cardinality(B) /\ SumFunctionOnSet(deleg, K) = SumFunctionOnSet(g, B)
  BY <1>3, <1>8, Zenon
<1> QED
  BY <1>2, <1>6, <1>9, <1>10 DEF K

\* What the delegators of a validator who vote add: no more than the deducted
\* part of its tokens, up to rounding.
LEMMA DelegatorsOfValidator ==
    ASSUME Staked, NEW v \in bonded
    PROVE  /\ SumFunctionOnSet(VoterTotals, CountedAt(v)) \in Int
           /\ DelegatorShares(v) * SumFunctionOnSet(VoterTotals, CountedAt(v))
                <= DelegatorDeductions(v) * Dec(tokens[v])
                   + DelegatorShares(v) * (Cardinality(Pools) * Cardinality(Accounts))
<1> DEFINE K == CountedAt(v)
           S == DelegatorShares(v)
           T == Dec(tokens[v])
           n == Cardinality(Pools)
           k == Cardinality(K)
           A == Cardinality(Accounts)
           W == SumFunctionOnSet(VoterTotals, K)
           L == DelegatorDeductions(v)
           lhs == [c \in K |-> S * VoterTotals[c]]
           dt == [c \in K |-> T * deleg[c]]
           sn == [c \in K |-> S * n]
           rhs == [c \in K |-> T * deleg[c] + S * n]
<1>1. /\ S \in Nat \ {0} /\ T \in Nat /\ n \in Nat /\ A \in Nat /\ k \in Nat /\ k <= A
      /\ L \in Nat /\ IsFiniteSet(K) /\ SumFunctionOnSet(deleg, K) = L
  <2>1. IsFiniteSet(K) /\ k <= A /\ SumFunctionOnSet(deleg, K) = L
    BY DeductionsCounted
  <2>2. k \in Nat /\ A \in Nat /\ n \in Nat
    BY <2>1, IncentivesAssumption, FS_CardinalityType
  <2>3. S \in Nat \ {0} /\ tokens[v] \in Nat
    BY PowerBound
  <2>4. T \in Nat
    BY <2>3, PrecAssumption DEF Dec
  <2>5. L \in Nat
    BY SharesNat DEF Staked
  <2> QED
    BY <2>1, <2>2, <2>3, <2>4, <2>5
<1>2. \A c \in K : /\ VoterTotals[c] \in Int /\ deleg[c] \in Nat
                   /\ S * VoterTotals[c] <= deleg[c] * T + S * n
  <2> TAKE c \in K
  <2>1. c \in Counted /\ c[2] = v
    BY DEF CountedAt
  <2>2. VoterTotals[c] = SumFunctionOnSet(VoterRow(c), Pools)
    BY <2>1 DEF VoterTotals
  <2>3. /\ SumFunctionOnSet(VoterRow(c), Pools) \in Int /\ deleg[c] \in Nat
        /\ DelegatorShares(c[2]) * SumFunctionOnSet(VoterRow(c), Pools)
             <= deleg[c] * Dec(tokens[c[2]]) + DelegatorShares(c[2]) * Cardinality(Pools)
    BY <2>1, VoterRowBound
  <2> QED
    BY <2>1, <2>2, <2>3
<1> HIDE DEF K, S, T, n, A, L
<1>3. /\ \A c \in K : VoterTotals[c] \in Int /\ lhs[c] = S * VoterTotals[c] /\ lhs[c] \in Int
      /\ \A c \in K : deleg[c] \in Int /\ dt[c] = T * deleg[c] /\ dt[c] \in Int
      /\ \A c \in K : sn[c] = S * n /\ sn[c] \in Int
      /\ \A c \in K : rhs[c] = dt[c] + sn[c] /\ rhs[c] \in Int
      /\ \A c \in K : lhs[c] <= rhs[c]
      /\ S \in Int /\ T \in Int /\ S * n \in Int
  BY <1>1, <1>2
<1> HIDE DEF lhs, dt, sn, rhs
<1>4. W \in Int
  BY <1>1, <1>2, SumRemove
<1>5. SumFunctionOnSet(lhs, K) = S * W
  BY <1>1, <1>3, SumTimes
<1>6. SumFunctionOnSet(dt, K) = T * L
  <2>1. SumFunctionOnSet(dt, K) = T * SumFunctionOnSet(deleg, K)
    BY <1>1, <1>3, SumTimes
  <2> QED
    BY <1>1, <2>1
<1>7. SumFunctionOnSet(sn, K) = (S * n) * k
  BY <1>1, <1>3, SumConstant
<1>8. SumFunctionOnSet(rhs, K) = SumFunctionOnSet(dt, K) + SumFunctionOnSet(sn, K)
  BY <1>1, <1>3, SumPlus
<1>9. SumFunctionOnSet(lhs, K) <= SumFunctionOnSet(rhs, K)
  BY <1>1, <1>3, SumMonotone
<1> HIDE DEF W, k
<1>10. S * W <= T * L + (S * n) * k
  BY <1>5, <1>6, <1>7, <1>8, <1>9
<1>11. (S * n) * k <= (S * n) * A
  <2>1. S * n \in Nat /\ k \in Int /\ A \in Int
    BY <1>1
  <2> QED
    BY <1>1, <2>1, Scale
<1>12. S * W <= L * T + S * (n * A)
  <2>1. /\ S * W \in Int /\ T * L \in Int /\ (S * n) * k \in Int /\ (S * n) * A \in Int
        /\ T * L = L * T /\ (S * n) * A = S * (n * A)
    BY <1>1, <1>4
  <2> QED
    BY <1>10, <1>11, <2>1
<1> QED
  BY <1>4, <1>12 DEF K, S, T, n, A, W, L

\* The power of one validator, its own vote and its delegators' votes together.
LEMMA OneValidator ==
    ASSUME Staked, NEW v \in bonded
    PROVE  /\ SumFunctionOnSet(VoterTotals, CountedAt(v)) \in Int
           /\ ValidatorTotals[v] \in Int
           /\ SumFunctionOnSet(VoterTotals, CountedAt(v)) + ValidatorTotals[v]
                <= Dec(tokens[v]) + Cardinality(Pools) * (Cardinality(Accounts) + 1)
<1> DEFINE S == DelegatorShares(v)
           T == Dec(tokens[v])
           n == Cardinality(Pools)
           A == Cardinality(Accounts)
           W == SumFunctionOnSet(VoterTotals, CountedAt(v))
           U == ValidatorTotals[v]
           L == DelegatorDeductions(v)
<1>1. /\ S \in Nat \ {0} /\ T \in Nat /\ n \in Nat /\ A \in Nat /\ L \in Nat /\ L <= S
  <2>1. S \in Nat \ {0} /\ tokens[v] \in Nat
    BY PowerBound
  <2>2. T \in Nat
    BY <2>1, PrecAssumption DEF Dec
  <2>3. A \in Nat /\ n \in Nat
    BY IncentivesAssumption, FS_CardinalityType
  <2>4. L \in Nat /\ L <= S
    BY SharesNat DEF Staked
  <2> QED
    BY <2>1, <2>2, <2>3, <2>4
<1>2. W \in Int /\ S * W <= L * T + S * (n * A)
  BY DelegatorsOfValidator
<1>3. U \in Int /\ S * U <= (S - L) * T + S * n
  <2>1. U = SumFunctionOnSet(ValidatorRow(v), Pools)
    BY DEF ValidatorTotals
  <2> QED
    BY <2>1, ValidatorRowBound
<1> HIDE DEF S, T, n, A, W, U, L
<1>4. S * (W + U) <= S * (T + n * (A + 1))
  <2>1. S * (W + U) = S * W + S * U
    BY <1>1, <1>2, <1>3
  <2>2. (L * T + S * (n * A)) + ((S - L) * T + S * n) = S * (T + n * (A + 1))
    BY <1>1
  <2>3. /\ S * W \in Int /\ S * U \in Int /\ L * T + S * (n * A) \in Int
        /\ (S - L) * T + S * n \in Int
    BY <1>1, <1>2, <1>3
  <2> QED
    BY <1>2, <1>3, <2>1, <2>2, <2>3
<1>5. W + U \in Int /\ T + n * (A + 1) \in Int
  BY <1>1, <1>2, <1>3
<1>6. W + U <= T + n * (A + 1)
  BY <1>1, <1>4, <1>5, Cancel
<1> QED
  BY <1>2, <1>3, <1>6 DEF T, n, A, W, U

\* A pool without an entry in the tally weighs nothing.
LEMMA Unvoted ==
    ASSUME NEW p \in Pools \ TalliedPools
    PROVE  DelegatorWeight(p) + ValidatorWeight(p) = 0
<1>1. {k \in Counted : Voted(k[1], p)} = {} /\ {u \in VotingValidators : Voted(Operator[u], p)} = {}
  BY DEF TalliedPools
<1> DEFINE S == {k \in Counted : Voted(k[1], p)}
           f == [c \in S |-> Mul(VotingPower(deleg[c], c[2]), votes[c[1]][p])]
           T == {u \in VotingValidators : Voted(Operator[u], p)}
           g == [v \in T |-> Mul(VotingPower(DelegatorShares(v) - DelegatorDeductions(v), v),
                                 votes[Operator[v]][p])]
<1>2. DelegatorWeight(p) = SumFunction(f) /\ DOMAIN f = S /\ ValidatorWeight(p) = SumFunction(g) /\ DOMAIN g = T
  BY DEF DelegatorWeight, ValidatorWeight
<1> HIDE DEF S, T, f, g
<1>3. DelegatorWeight(p) = SumFunctionOnSet(f, S) /\ ValidatorWeight(p) = SumFunctionOnSet(g, T)
  BY <1>2 DEF SumFunction
<1>4. S = {} /\ T = {}
  BY <1>1 DEF S, T
<1>5. DelegatorWeight(p) = 0 /\ ValidatorWeight(p) = 0
  BY <1>3, <1>4, SumEmpty
<1> QED
  BY <1>5

\* All gauges together weigh no more than the bonded tokens, up to rounding.
LEMMA TallyBound == Staked => NoPowerCountedTwice
<1> SUFFICES ASSUME Staked PROVE NoPowerCountedTwice
  OBVIOUS
<1> DEFINE D == [p \in Pools |-> DelegatorWeight(p)]
           V == [p \in Pools |-> ValidatorWeight(p)]
           both == [p \in Pools |-> DelegatorWeight(p) + ValidatorWeight(p)]
           dv == [v \in bonded |-> SumFunctionOnSet(VoterTotals, CountedAt(v))]
           all == [v \in bonded |-> dv[v] + ValidatorTotals[v]]
           held == [v \in bonded |-> tokens[v]]
           decs == [v \in bonded |-> Prec * tokens[v]]
           m == Cardinality(Pools) * (Cardinality(Accounts) + 1)
           ms == [v \in bonded |-> m]
           cap == [v \in bonded |-> Prec * tokens[v] + m]
           n == Cardinality(Pools)
           A == Cardinality(Accounts)
           nv == Cardinality(Validators)
           nb == Cardinality(bonded)
           X == TotalBonded
<1>1. /\ IsFiniteSet(Pools) /\ IsFiniteSet(Counted) /\ IsFiniteSet(bonded)
      /\ n \in Nat /\ A \in Nat /\ nv \in Nat /\ nb \in Nat /\ nb <= nv /\ m \in Nat
      /\ Prec \in Nat /\ bonded \subseteq Validators
  <2>1. IsFiniteSet(bonded) /\ nb <= nv /\ bonded \subseteq Validators
    BY IncentivesAssumption, FS_Subset DEF Staked
  <2>2. n \in Nat /\ A \in Nat /\ nv \in Nat /\ nb \in Nat
    BY <2>1, IncentivesAssumption, FS_CardinalityType
  <2>3. m \in Nat
    BY <2>2
  <2> QED
    BY <2>1, <2>2, <2>3, CountedFinite, IncentivesAssumption, PrecAssumption
<1>2. ASSUME NEW p \in Pools
      PROVE  D[p] \in Int /\ V[p] \in Int /\ both[p] = D[p] + V[p] /\ both[p] \in Int
  BY WeightsInt
<1>3. /\ DOMAIN Tally \in SUBSET Pools
      /\ \A p \in DOMAIN Tally : Tally[p] = both[p] /\ both[p] \in Int
  <2>1. DOMAIN Tally = WeighedPools /\ WeighedPools \subseteq Pools
    BY DEF Tally, WeighedPools, TalliedPools
  <2>2. \A p \in WeighedPools : Tally[p] = both[p]
    BY <2>1 DEF Tally
  <2> HIDE DEF both, D, V
  <2> QED
    BY <1>2, <2>1, <2>2
<1>4. \A v \in bonded : /\ dv[v] \in Int /\ ValidatorTotals[v] \in Int /\ tokens[v] \in Nat
                        /\ dv[v] = SumFunctionOnSet(VoterTotals, CountedAt(v))
                        /\ dv[v] + ValidatorTotals[v] <= Prec * tokens[v] + m
  <2> TAKE v \in bonded
  <2>1. /\ SumFunctionOnSet(VoterTotals, CountedAt(v)) \in Int
        /\ ValidatorTotals[v] \in Int
        /\ SumFunctionOnSet(VoterTotals, CountedAt(v)) + ValidatorTotals[v] <= Dec(tokens[v]) + m
    BY OneValidator
  <2>2. tokens[v] \in Nat /\ Dec(tokens[v]) = Prec * tokens[v]
    BY <1>1 DEF Staked, Dec
  <2>3. dv[v] = SumFunctionOnSet(VoterTotals, CountedAt(v))
    OBVIOUS
  <2> HIDE DEF dv, m
  <2> QED
    BY <2>1, <2>2, <2>3
<1>5. SumFunctionOnSet(D, Pools) = SumFunctionOnSet(VoterTotals, Counted)
  BY DelegatorsByPool
<1>6. SumFunctionOnSet(V, Pools) = SumFunctionOnSet(ValidatorTotals, bonded)
  BY ValidatorsByPool
<1>7. X = SumFunction(held) /\ DOMAIN held = bonded
  BY DEF TotalBonded
<1> HIDE DEF D, V, both, dv, m, n, A, nv, nb
<1>8. SumFunctionOnSet(VoterTotals, Counted) = SumFunctionOnSet(dv, bonded)
  <2> DEFINE key == [c \in Counted |-> c[2]]
  <2>1. \A c \in Counted : key[c] \in bonded /\ key[c] = c[2]
    BY DEF Counted
  <2>2. \A c \in Counted : VoterTotals[c] \in Int
    BY VoterRowBound DEF VoterTotals
  <2> HIDE DEF key
  <2>3. ASSUME NEW v \in bonded
        PROVE  dv[v] = SumFunctionOnSet(VoterTotals, {c \in Counted : key[c] = v})
    <3>1. CountedAt(v) = {c \in Counted : key[c] = v}
      BY <2>1 DEF CountedAt
    <3> QED
      BY <1>4, <3>1, Zenon
  <2>4. Grouped(Counted, VoterTotals, bonded, key, dv)
    BY <1>1, <2>1, <2>2, <2>3 DEF Grouped
  <2> QED
    BY <2>4, SumByKey
<1>9. /\ \A v \in bonded : all[v] = dv[v] + ValidatorTotals[v] /\ all[v] \in Int
      /\ \A v \in bonded : dv[v] \in Int /\ ValidatorTotals[v] \in Int
      /\ \A v \in bonded : held[v] \in Int /\ decs[v] = Prec * held[v] /\ decs[v] \in Int
      /\ \A v \in bonded : ms[v] = m /\ ms[v] \in Int
      /\ \A v \in bonded : cap[v] = decs[v] + ms[v] /\ cap[v] \in Int
      /\ \A v \in bonded : all[v] <= cap[v]
  BY <1>1, <1>4
<1> HIDE DEF all, held, decs, ms, cap
<1>10. SumFunctionOnSet(both, Pools) = SumFunctionOnSet(D, Pools) + SumFunctionOnSet(V, Pools)
  <2>1. \A p \in Pools : D[p] \in Int /\ V[p] \in Int /\ both[p] = D[p] + V[p]
    BY <1>2
  <2> QED
    BY <1>1, <2>1, SumPlus
<1>11. SumFunctionOnSet(all, bonded) =
         SumFunctionOnSet(dv, bonded) + SumFunctionOnSet(ValidatorTotals, bonded)
  BY <1>1, <1>9, SumPlus
<1>12. SumFunctionOnSet(all, bonded) <= SumFunctionOnSet(cap, bonded)
  BY <1>1, <1>9, SumMonotone
<1>13. SumFunctionOnSet(cap, bonded) = SumFunctionOnSet(decs, bonded) + SumFunctionOnSet(ms, bonded)
  BY <1>1, <1>9, SumPlus
<1>14. SumFunctionOnSet(decs, bonded) = Prec * X /\ X \in Int
  <2>1. Prec \in Int
    BY <1>1
  <2>2. SumFunctionOnSet(decs, bonded) = Prec * SumFunctionOnSet(held, bonded)
    BY <1>1, <1>9, <2>1, SumTimes
  <2>3. X = SumFunctionOnSet(held, bonded)
    BY <1>7, Zenon DEF SumFunction
  <2>4. SumFunctionOnSet(held, bonded) \in Int
    BY <1>1, <1>9, SumRemove
  <2> QED
    BY <2>2, <2>3, <2>4
<1>15. SumFunctionOnSet(ms, bonded) = m * nb
  <2>1. m \in Int
    BY <1>1
  <2> QED
    BY <1>1, <1>9, <2>1, SumConstant DEF nb
<1>16. SumFunction(Tally) = SumFunctionOnSet(both, Pools) \/ SumFunction(Tally) = 0
  <2> DEFINE t == Tally
             P == DOMAIN t
  <2>1. P \in SUBSET Pools /\ IsFiniteSet(P) /\ (\A p \in P : t[p] = both[p] /\ both[p] \in Int)
    BY <1>1, <1>3, FS_Subset
  <2>2. SumFunction(t) = SumFunctionOnSet(t, P)
    BY DEF SumFunction
  <2>3. P = {} \/ P = TalliedPools
    BY DEF Tally, WeighedPools
  <2> HIDE DEF t, P
  <2>4. CASE P = {}
    <3>1. SumFunctionOnSet(t, P) = 0
      BY <2>4, SumEmpty
    <3> QED BY <2>2, <3>1 DEF t
  <2>5. CASE P = TalliedPools
    <3>1. \A p \in Pools \ P : both[p] = 0
      BY <2>5, Unvoted DEF both
    <3>2. SumFunctionOnSet(t, P) = SumFunctionOnSet(both, P)
      BY <2>1, SumEqual
    <3>3. SumFunctionOnSet(both, Pools) = SumFunctionOnSet(both, P)
      BY <1>1, <2>1, <3>1, SumPad
    <3> QED BY <2>2, <3>2, <3>3 DEF t
  <2> QED
    BY <2>3, <2>4, <2>5
<1>17. SumFunction(Tally) \in Int /\ SumFunctionOnSet(both, Pools) \in Int
  <2> DEFINE t == Tally
             P == DOMAIN t
  <2>1. IsFiniteSet(P) /\ \A p \in P : t[p] \in Int
    BY <1>1, <1>3, FS_Subset
  <2>2. SumFunction(t) = SumFunctionOnSet(t, P)
    BY DEF SumFunction
  <2> HIDE DEF t, P
  <2>3. SumFunctionOnSet(t, P) \in Int
    BY <2>1, SumRemove
  <2>4. SumFunctionOnSet(both, Pools) \in Int
    BY <1>1, <1>2, SumRemove
  <2> QED
    BY <2>2, <2>3, <2>4 DEF t
<1>18. m * nb <= m * nv
  BY <1>1, Scale
<1>19. m * nv = n * nv * (A + 1)
  BY <1>1 DEF m, n, A
<1>20. SumFunctionOnSet(both, Pools) = SumFunctionOnSet(all, bonded)
  BY <1>5, <1>6, <1>8, <1>10, <1>11
<1>21. SumFunctionOnSet(both, Pools) <= Prec * X + m * nb
  BY <1>12, <1>13, <1>14, <1>15, <1>20
<1>22. X \in Nat
  <2>1. \A v \in bonded : held[v] \in Nat
    BY <1>4 DEF held
  <2> QED
    BY <1>1, <1>7, <2>1, SumNat DEF SumFunction
<1>23. SumFunction(Tally) <= X * Prec + n * nv * (A + 1)
  <2> DEFINE s == SumFunction(Tally)
             b == SumFunctionOnSet(both, Pools)
             px == Prec * X
             mb == m * nb
             mv == m * nv
  <2>1. s \in Int /\ b \in Int /\ px \in Int /\ mb \in Int /\ mv \in Int /\ X * Prec = px
    BY <1>1, <1>14, <1>17
  <2>2. (s = b \/ s = 0) /\ b <= px + mb /\ mb <= mv
    BY <1>16, <1>18, <1>21
  <2>3. px >= 0 /\ mb >= 0
    BY <1>1, <1>22
  <2> HIDE DEF s, b, px, mb, mv
  <2>4. s <= X * Prec + mv
    BY <2>1, <2>2, <2>3
  <2> QED
    BY <1>19, <2>4 DEF s, mv
<1> QED
  BY <1>23 DEF NoPowerCountedTwice, Dec, n, A, nv

\* However votes, delegations, slashes and unbondings interleave, for any
\* number of voters, validators and pools the tally counts no token twice.
THEOREM PowerCountedOnce == Spec => []NoPowerCountedTwice
<1>1. LedgerInv => NoPowerCountedTwice
  BY TallyBound DEF LedgerInv
<1> QED
  BY <1>1, LedgerInvInit, LedgerInvStep, PTL DEF Spec

-----------------------------------------------------------------------------
(***************************************************************************)
(* Rounding of the payments                                                *)
(***************************************************************************)

\* What is collected in a block is bounded: users never get back bond tokens.
Funded == bal["accounts"][BondDenom] + bal["feeCollector"][BondDenom] <= InitialBalance

\* Products of non-negative numbers grow with a factor.
LEMMA Times ==
    ASSUME NEW x \in Int, NEW y \in Int, NEW k \in Nat, x <= y
    PROVE  x * k <= y * k
OBVIOUS

\* An amount that is allocated is the part of the fees its weight stands for,
\* or less; a negative weight either makes the share negative, or costs less
\* than a unit and allocates nothing.
LEMMA AllocationBound ==
    ASSUME NEW k \in Nat, NEW w \in Int
    PROVE  LET m == MulTruncate(k, w)
               a == TruncateInt(m)
           IN  /\ m \in Int /\ (m < 0 => w < 0)
               /\ ~(m < 0) => /\ a \in Nat /\ Prec * Prec * a <= k * w + Prec
                              /\ a > 0 => w > 0
<1> DEFINE m == MulTruncate(k, w)
           a == TruncateInt(m)
<1>1. Prec \in Nat \ {0}
  BY PrecAssumption
<1>2. CASE w >= 0
  <2>0. k * w \in Nat
    BY <1>2
  <2>1. m \in Nat /\ Prec * m <= k * w
    BY <1>1, <2>0, TruncDivNat, DivBounds DEF MulTruncate
  <2>2. a \in Nat /\ Prec * a <= m
    <3> HIDE DEF m
    <3> QED BY <1>1, <2>1, TruncDivNat, DivBounds DEF TruncateInt
  <2>3. w = 0 => k * w = 0
    OBVIOUS
  <2> HIDE DEF m, a
  <2>4. Prec * a \in Int /\ Prec * (Prec * a) <= Prec * m
    BY <1>1, <2>1, <2>2, Scale
  <2>5. Prec * Prec * a = Prec * (Prec * a)
    BY <1>1, <2>2
  <2>6. Prec * Prec * a <= k * w
    <3> DEFINE x == Prec * (Prec * a)
               y == Prec * m
               z == k * w
    <3>1. x \in Int /\ y \in Int /\ z \in Int /\ x <= y /\ y <= z
      BY <1>1, <2>0, <2>1, <2>2, <2>4
    <3> HIDE DEF x, y, z
    <3>2. x <= z
      BY <3>1
    <3> QED
      BY <2>5, <3>2 DEF x, z
  <2>7. w = 0 => a = 0
    <3>1. SUFFICES ASSUME w = 0, a >= 1 PROVE FALSE
      BY <2>2
    <3>2. Prec * m <= 0
      BY <2>1, <2>3, <3>1
    <3>3. m = 0
      BY <1>1, <2>1, <3>2
    <3>4. Prec * a <= 0
      BY <2>2, <3>3
    <3> QED BY <1>1, <2>2, <3>1, <3>4
  <2>8. Prec * Prec * a <= k * w + Prec
    <3>1. Prec * Prec * a \in Int /\ k * w \in Int
      BY <1>1, <2>0, <2>2
    <3> QED BY <1>1, <2>6, <3>1
  <2> QED
    BY <1>2, <2>1, <2>2, <2>7, <2>8 DEF a, m
<1>3. CASE w < 0
  <2> DEFINE z == k * (0 - w)
             q == z \div Prec
  <2>1. z \in Nat /\ k * w = 0 - z
    BY <1>3
  <2> HIDE DEF z
  <2>2. q \in Nat /\ z < Prec * q + Prec
    <3>1. q \in Nat /\ z = Prec * q + (z % Prec) /\ z % Prec < Prec /\ z % Prec \in Nat
      BY <1>1, <2>1, DivBounds
    <3> HIDE DEF q
    <3>2. Prec * q \in Int
      BY <1>1, <3>1
    <3> QED BY <1>1, <2>1, <3>1, <3>2
  <2>3. m = 0 - q
    <3>1. m = TruncDiv(0 - z, Prec)
      BY <2>1 DEF MulTruncate
    <3>2. CASE z = 0
      <4>1. 0 \div Prec = 0 /\ 0 - z = 0
        BY <1>1, <3>2
      <4>2. TruncDiv(0, Prec) = 0
        BY <1>1, <4>1, TruncDivNat
      <4> QED BY <3>1, <3>2, <4>1, <4>2
    <3>3. CASE z > 0
      <4>1. ~(0 - z >= 0) /\ 0 - z # 0 /\ -(0 - z) = z /\ Prec > 0
        BY <1>1, <2>1, <3>3
      <4>2. TruncDiv(0 - z, Prec) = -q
        BY <4>1 DEF TruncDiv
      <4> QED BY <2>2, <3>1, <4>2
    <3> QED BY <2>1, <3>2, <3>3
  <2> HIDE DEF q, m
  <2>4. ASSUME ~(m < 0) PROVE a = 0 /\ z < Prec
    <3>1. q = 0 /\ m = 0
      BY <2>2, <2>3, <2>4
    <3>2. 0 \div Prec = 0 /\ Prec * 0 = 0
      BY <1>1
    <3>3. a = 0
      BY <1>1, <3>1, <3>2, TruncDivNat DEF TruncateInt
    <3> QED BY <1>1, <2>2, <3>1, <3>2, <3>3
  <2> HIDE DEF a
  <2>5. ASSUME ~(m < 0) PROVE Prec * Prec * a <= k * w + Prec
    <3>1. Prec * Prec * a = 0
      BY <1>1, <2>4, <2>5
    <3> QED BY <1>1, <2>1, <2>4, <2>5, <3>1
  <2> QED
    BY <1>3, <2>2, <2>3, <2>4, <2>5 DEF a, m
<1> QED
  BY <1>2, <1>3

\* The incentives' part of the fees is exact.
LEMMA IncentiveFeesExact ==
    ASSUME NEW fees \in Nat
    PROVE  IncentiveFees(fees) = fees * (Prec - StakingRatio) /\ IncentiveFees(fees) \in Nat
<1> DEFINE k == fees * (Prec - StakingRatio)
<1>1. Prec \in Nat \ {0} /\ Prec - StakingRatio \in Nat /\ k \in Nat
  BY PrecAssumption, IncentivesAssumption DEF One
<1>2. Dec(fees) * (One - StakingRatio) = k * Prec
  BY <1>1 DEF Dec, One
<1> HIDE DEF k
<1>3. k * Prec \in Nat /\ (k * Prec) \div Prec = k
  BY <1>1
<1> QED
  BY <1>1, <1>2, <1>3, TruncDivNat DEF IncentiveFees, MulTruncate, k

\* A quotient falls short of the exact one by less than a unit.
LEMMA QuoLower ==
    ASSUME NEW a \in Nat, NEW b \in Nat \ {0}
    PROVE  a * Prec <= b * Quo(a, b) + b
<1> DEFINE G == a * Prec * Prec
           n == TruncDiv(G, b)
           q == Quo(a, b)
<1>1. Prec \in Nat \ {0}
  BY PrecAssumption
<1>2. a * Prec \in Nat /\ G \in Nat
  BY <1>1
<1>3. n \in Nat /\ G <= b * n + b - 1
  <2> HIDE DEF G
  <2>1. G \div b \in Nat /\ G % b \in Nat /\ G = b * (G \div b) + (G % b) /\ n = G \div b
    BY <1>2, TruncDivNat, DivBounds
  <2>2. G % b <= b - 1
    BY <1>2, <2>1
  <2> HIDE DEF n
  <2>3. b * n \in Int
    BY <2>1
  <2> QED BY <1>2, <2>1, <2>2, <2>3
<1>4. q \in Nat /\ n <= Prec * q + Prec - 1
  <2> HIDE DEF n
  <2>1. q = ChopRound(n)
    BY DEF Quo, n, G
  <2>2. q \in Nat /\ n < Prec * q + Prec
    BY <1>3, <2>1, ChopBound
  <2> HIDE DEF q
  <2>3. Prec * q \in Int
    BY <1>1, <2>2
  <2> QED BY <1>1, <1>3, <2>2, <2>3
<1> HIDE DEF n, q, G
<1>5. b * n <= b * (Prec * q + Prec - 1)
  <2>1. Prec * q + Prec - 1 \in Int
    BY <1>1, <1>4
  <2> QED
    BY <1>3, <1>4, <2>1, Scale
<1>6. Prec * (a * Prec) <= Prec * (b * q + b)
  <2>1. b * (Prec * q + Prec - 1) = Prec * (b * q + b) - b
    BY <1>1, <1>4
  <2>2. G = Prec * (a * Prec)
    BY <1>1 DEF G
  <2> DEFINE x == b * n
             y == Prec * (b * q + b)
  <2>3. x \in Int /\ y \in Int
    BY <1>1, <1>3, <1>4
  <2>4. G <= x + b - 1 /\ x <= y - b
    BY <1>3, <1>5, <2>1
  <2> HIDE DEF x, y
  <2>5. G <= y
    BY <1>2, <2>3, <2>4
  <2> QED
    BY <2>2, <2>5 DEF y
<1>7. a * Prec \in Int /\ b * q + b \in Int
  BY <1>1, <1>4
<1>8. a * Prec <= b * q + b
  BY <1>1, <1>6, <1>7, Cancel
<1> QED
  BY <1>8 DEF q

\* The quotient of a signed number by a positive one.
Ratio(x, h) == IF x >= 0 THEN Quo(x, h) ELSE 0 - Quo(0 - x, h)

\* Only the sign of a weight relative to the total matters.
LEMMA QuoSigned ==
    ASSUME NEW g \in Int, NEW h \in Nat \ {0}
    PROVE  Quo(g, h) = Ratio(g, h) /\ Quo(g, 0 - h) = Ratio(0 - g, h)
<1> DEFINE P2(x) == x * Prec * Prec
<1>1. Prec \in Nat \ {0}
  BY PrecAssumption
<1>2. ASSUME NEW x \in Nat
      PROVE  /\ P2(x) \in Nat /\ P2(0 - x) = 0 - P2(x)
             /\ TruncDiv(P2(x), h) \in Nat
             /\ TruncDiv(0 - P2(x), h) = 0 - TruncDiv(P2(x), h)
             /\ TruncDiv(P2(x), 0 - h) = 0 - TruncDiv(P2(x), h)
             /\ TruncDiv(0 - P2(x), 0 - h) = TruncDiv(P2(x), h)
  <2>1. P2(x) \in Nat /\ P2(0 - x) = 0 - P2(x)
    <3>1. x * Prec \in Nat
      BY <1>1
    <3>2. (x * Prec) * Prec \in Nat
      BY <1>1, <3>1
    <3>3. (0 - x) * Prec = 0 - (x * Prec)
      BY <1>1
    <3>4. (0 - (x * Prec)) * Prec = 0 - ((x * Prec) * Prec)
      BY <1>1, <3>1
    <3> QED BY <3>2, <3>3, <3>4
  <2> DEFINE n == P2(x)
             d == n \div h
  <2> HIDE DEF P2
  <2>2. n \in Nat /\ d \in Nat /\ TruncDiv(n, h) = d
    BY <2>1, TruncDivNat, DivBounds
  <2> HIDE DEF n
  <2>3. ~(0 - h > 0) /\ -(0 - h) = h /\ h > 0 /\ n >= 0
    BY <2>2
  <2>4. CASE n = 0
    <3>1. 0 \div h = 0 /\ 0 - n = 0 /\ d = 0
      BY <2>4
    <3>2. TruncDiv(0, 0 - h) = 0 /\ TruncDiv(0, h) = 0
      BY <2>3, <3>1 DEF TruncDiv
    <3>3. 0 - TruncDiv(n, h) = 0
      BY <2>4, <3>2
    <3> QED BY <2>1, <2>2, <2>4, <3>1, <3>2, <3>3 DEF n
  <2>5. CASE n > 0
    <3>1. ~(0 - n >= 0) /\ -(0 - n) = n /\ n # 0 /\ 0 - n # 0
      BY <2>2, <2>5
    <3> HIDE DEF d
    <3>2. TruncDiv(0 - n, h) = -d /\ TruncDiv(n, 0 - h) = -d /\ TruncDiv(0 - n, 0 - h) = d
      BY <2>3, <3>1 DEF TruncDiv, d
    <3>3. -d = 0 - d
      BY <2>2
    <3> QED BY <2>1, <2>2, <3>2, <3>3 DEF n
  <2> QED BY <2>2, <2>4, <2>5
<1>3. ASSUME NEW x \in Nat
      PROVE  /\ Quo(0 - x, h) = 0 - Quo(x, h) /\ Quo(x, 0 - h) = 0 - Quo(x, h)
             /\ Quo(0 - x, 0 - h) = Quo(x, h)
  <2> DEFINE t == TruncDiv(P2(x), h)
  <2>1. /\ Quo(x, h) = ChopRound(t) /\ Quo(0 - x, h) = ChopRound(TruncDiv(P2(0 - x), h))
        /\ Quo(x, 0 - h) = ChopRound(TruncDiv(P2(x), 0 - h))
        /\ Quo(0 - x, 0 - h) = ChopRound(TruncDiv(P2(0 - x), 0 - h))
    BY DEF Quo
  <2>2. /\ t \in Nat /\ TruncDiv(P2(0 - x), h) = 0 - t /\ TruncDiv(P2(x), 0 - h) = 0 - t
        /\ TruncDiv(P2(0 - x), 0 - h) = t
    BY <1>2
  <2> HIDE DEF t, P2
  <2>3. ChopRound(0 - t) = 0 - ChopRound(t)
    BY <2>2, ChopNegative
  <2> QED BY <2>1, <2>2, <2>3
<1>4. Quo(0, h) = 0
  <2>1. Quo(0 - 0, h) = 0 - Quo(0, h) /\ 0 - 0 = 0 /\ 0 \in Nat
    BY <1>3
  <2>2. Quo(0, h) \in Int
    BY QuoInt
  <2> QED BY <2>1, <2>2
<1> HIDE DEF P2
<1>5. CASE g > 0
  <2>1. g \in Nat /\ g >= 0 /\ ~(0 - g >= 0) /\ 0 - (0 - g) = g
    BY <1>5
  <2> QED BY <1>3, <2>1 DEF Ratio
<1>6. CASE g < 0
  <2>1. 0 - g \in Nat /\ ~(g >= 0) /\ 0 - g >= 0 /\ 0 - (0 - g) = g
    BY <1>6
  <2>2. Quo(0 - (0 - g), h) = 0 - Quo(0 - g, h) /\ Quo(0 - (0 - g), 0 - h) = Quo(0 - g, h)
    BY <1>3, <2>1
  <2> QED BY <2>1, <2>2 DEF Ratio
<1>7. CASE g = 0
  <2>1. Quo(0, 0 - h) = 0 - Quo(0, h) /\ 0 - g = 0
    BY <1>3, <1>7
  <2>2. Quo(0, 0 - h) = 0
    BY <1>4, <2>1
  <2> QED BY <1>4, <1>7, <2>1, <2>2 DEF Ratio
<1> QED
  BY <1>5, <1>6, <1>7

\* A ratio exceeds the exact one by at most a unit, and has its sign.
LEMMA RatioBound ==
    ASSUME NEW x \in Int, NEW h \in Nat \ {0}
    PROVE  /\ Ratio(x, h) \in Int /\ h * Ratio(x, h) <= x * Prec + h
           /\ (Ratio(x, h) > 0 => x > 0) /\ (Ratio(x, h) < 0 => x < 0)
<1>1. Prec \in Nat \ {0}
  BY PrecAssumption
<1>2. CASE x >= 0
  <2> DEFINE r == Ratio(x, h)
  <2>1. r = Quo(x, h) /\ x \in Nat
    BY <1>2 DEF Ratio
  <2>2. r \in Nat /\ 2 * (h * r) <= 2 * (x * Prec) + h
    BY <2>1, QuoBound
  <2> HIDE DEF r
  <2>3. h * r \in Int /\ x * Prec \in Int
    BY <1>1, <2>2
  <2>4. h * r <= x * Prec + h
    BY <2>2, <2>3
  <2>5. x = 0 => r = 0
    <3>1. SUFFICES ASSUME x = 0, r >= 1 PROVE FALSE
      BY <2>2
    <3>2. x * Prec = 0
      BY <1>1, <3>1
    <3>3. 2 * (h * r) <= h
      BY <2>2, <3>2
    <3>4. h * 1 <= h * r
      BY <2>2, <3>1, Scale
    <3> QED BY <2>3, <3>3, <3>4
  <2> QED BY <1>2, <2>2, <2>4, <2>5 DEF r
<1>3. CASE x < 0
  <2> DEFINE a == 0 - x
             q == Quo(a, h)
  <2>1. a \in Nat /\ Ratio(x, h) = 0 - q /\ x * Prec = 0 - (a * Prec)
    BY <1>1, <1>3 DEF Ratio
  <2> HIDE DEF a
  <2>2. q \in Nat /\ a * Prec <= h * q + h
    BY <2>1, QuoLower, QuoBound
  <2> HIDE DEF q
  <2>3. h * q \in Int /\ a * Prec \in Int /\ h * (0 - q) = 0 - h * q
    BY <1>1, <2>1, <2>2
  <2>4. h * (0 - q) <= 0 - (a * Prec) + h
    BY <2>2, <2>3
  <2> QED BY <1>3, <2>1, <2>2, <2>4
<1> QED
  BY <1>2, <1>3

\* Weights divided by their sum exceed one by at most a unit each.
LEMMA WeightsBound ==
    ASSUME NEW S, IsFiniteSet(S), NEW x, \A p \in S : x[p] \in Int,
           NEW h \in Nat \ {0}, h = SumFunctionOnSet(x, S),
           NEW w, \A p \in S : w[p] = Ratio(x[p], h)
    PROVE  /\ \A p \in S : w[p] \in Int
           /\ SumFunctionOnSet(w, S) \in Int
           /\ SumFunctionOnSet(w, S) <= Prec + Cardinality(S)
<1> DEFINE W == SumFunctionOnSet(w, S)
           n == Cardinality(S)
           f == [p \in S |-> h * w[p]]
           u1 == [p \in S |-> Prec * x[p]]
           u2 == [p \in S |-> h]
           u == [p \in S |-> Prec * x[p] + h]
<1>0. Prec \in Nat \ {0} /\ n \in Nat
  BY PrecAssumption, FS_CardinalityType
<1>1. \A p \in S : w[p] \in Int /\ h * w[p] <= x[p] * Prec + h
  <2> TAKE p \in S
  <2> QED BY RatioBound
<1>2. W \in Int
  BY <1>1, SumRemove
<1>3. SumFunctionOnSet(f, S) <= SumFunctionOnSet(u, S)
  <2>1. \A p \in S : f[p] \in Int /\ u[p] \in Int /\ f[p] <= u[p]
    <3> TAKE p \in S
    <3>1. f[p] = h * w[p] /\ u[p] = Prec * x[p] + h
      OBVIOUS
    <3>2. h * w[p] \in Int /\ Prec * x[p] \in Int /\ Prec * x[p] = x[p] * Prec
      BY <1>0, <1>1
    <3> QED BY <1>1, <3>1, <3>2
  <2> HIDE DEF f, u
  <2> QED BY <2>1, SumMonotone
<1>4. SumFunctionOnSet(f, S) = h * W
  <2>1. \A p \in S : w[p] \in Int /\ f[p] = h * w[p]
    BY <1>1
  <2>2. h \in Int
    OBVIOUS
  <2> HIDE DEF f
  <2> QED BY <2>1, <2>2, SumTimes
<1>5. SumFunctionOnSet(u1, S) = Prec * h
  <2>1. \A p \in S : x[p] \in Int /\ u1[p] = Prec * x[p]
    OBVIOUS
  <2>2. Prec \in Int
    BY <1>0
  <2> HIDE DEF u1
  <2>3. SumFunctionOnSet(u1, S) = Prec * SumFunctionOnSet(x, S)
    BY <2>1, <2>2, SumTimes
  <2> QED BY <2>3
<1>6. SumFunctionOnSet(u2, S) = h * n
  <2>1. h \in Int /\ \A p \in S : u2[p] = h
    OBVIOUS
  <2> HIDE DEF u2
  <2> QED BY <2>1, SumConstant
<1>7. SumFunctionOnSet(u, S) = SumFunctionOnSet(u1, S) + SumFunctionOnSet(u2, S)
  <2>1. \A p \in S : u1[p] \in Int /\ u2[p] \in Int /\ u[p] = u1[p] + u2[p]
    <3> TAKE p \in S
    <3>1. u1[p] = Prec * x[p] /\ u2[p] = h /\ u[p] = Prec * x[p] + h /\ x[p] \in Int
      OBVIOUS
    <3> QED BY <1>0, <3>1
  <2> HIDE DEF u, u1, u2
  <2> QED BY <2>1, SumPlus
<1> HIDE DEF W, n, f, u, u1, u2
<1>8. h * W <= h * (Prec + n)
  <2>1. Prec * h + h * n = h * (Prec + n)
    BY <1>0
  <2>2. h * W <= Prec * h + h * n
    BY <1>3, <1>4, <1>5, <1>6, <1>7
  <2> QED BY <2>1, <2>2
<1>9. W <= Prec + n
  <2>1. Prec + n \in Int
    BY <1>0
  <2> QED BY <1>2, <1>8, <2>1, Cancel
<1> QED
  BY <1>1, <1>2, <1>9 DEF W, n

\* A weight relative to the total: what is divided, by what, of which sign.
Relative(g, t, x, h) == (t > 0 /\ h = t /\ x = g) \/ (t < 0 /\ h = 0 - t /\ x = 0 - g)

LEMMA RelativeQuo ==
    ASSUME NEW g \in Int, NEW t \in Int, NEW x, NEW h, Relative(g, t, x, h)
    PROVE  /\ x \in Int /\ h \in Nat \ {0} /\ Quo(g, t) = Ratio(x, h)
           /\ (x > 0 => g * t > 0) /\ (x < 0 => g * t < 0)
<1>1. CASE t > 0 /\ h = t /\ x = g
  <2>1. x \in Int /\ h \in Nat \ {0} /\ Quo(g, t) = Ratio(x, h)
    BY <1>1, QuoSigned
  <2> QED BY <1>1, <2>1
<1>2. CASE t < 0 /\ h = 0 - t /\ x = 0 - g
  <2>1. x \in Int /\ h \in Nat \ {0} /\ 0 - h = t
    BY <1>2
  <2>2. Quo(g, 0 - h) = Ratio(0 - g, h)
    BY <2>1, QuoSigned
  <2>3. Quo(g, t) = Ratio(x, h)
    BY <1>2, <2>1, <2>2
  <2>4. g * t = x * h
    BY <1>2
  <2>5. (x > 0 => x * h > 0) /\ (x < 0 => x * h < 0)
    BY <2>1
  <2> QED BY <2>1, <2>3, <2>4, <2>5
<1> QED
  BY <1>1, <1>2 DEF Relative

\* The gauges that are paid: a share is negative only for a gauge that weighs
\* against the total, positive only for one that weighs with it, and if none is
\* negative all allocations together exceed the incentives' part of the fees by
\* at most what rounding adds.
LEMMA AllocationsBound ==
    ASSUME EpochInv, EpochsWF, NEW fees \in Nat
    PROVE  LET alloc == Allocations(fees)
               k == fees * (Prec - StakingRatio)
               w(p) == LastEpoch.gauges[p] * TotalWeight
           IN  /\ \A p \in DOMAIN alloc : /\ p \in DOMAIN LastEpoch.gauges
                                          /\ Share(fees, p) \in Int
                                          /\ Share(fees, p) < 0 => w(p) < 0
               /\ (\A p \in DOMAIN alloc : ~(Share(fees, p) < 0)) =>
                    /\ SumFunction(alloc) \in Nat
                    /\ Prec * Prec * SumFunction(alloc) <= Prec * k + (k + Prec) * Cardinality(Pools)
                    /\ \A p \in DOMAIN alloc : alloc[p] > 0 => w(p) > 0
<1> DEFINE S == {q \in (IF HasEpoch THEN DOMAIN LastEpoch.gauges ELSE {}) : TotalWeight # 0}
           k == fees * (Prec - StakingRatio)
           n == Cardinality(Pools)
           f == [p \in S |-> TruncateInt(Share(fees, p))]
           A == SumFunctionOnSet(f, S)
<1>0. Prec \in Nat \ {0} /\ k \in Nat /\ n \in Nat /\ IncentiveFees(fees) = k
  <2>1. n \in Nat
    BY IncentivesAssumption, FS_CardinalityType
  <2> QED
    BY <2>1, PrecAssumption, IncentiveFeesExact
<1>1. Allocations(fees) = f /\ DOMAIN f = S
  BY DEF Allocations
<1>2. SumFunction(Allocations(fees)) = A
  <2>1. SumFunction(Allocations(fees)) = SumFunctionOnSet(Allocations(fees), DOMAIN Allocations(fees))
    BY DEF SumFunction
  <2> HIDE DEF f, S
  <2> QED BY <1>1, <2>1
<1>3. CASE S = {}
  <2>1. A = 0
    <3> HIDE DEF f, S
    <3> QED BY <1>3, SumEmpty
  <2>2. Prec * k + (k + Prec) * n \in Nat
    BY <1>0
  <2>3. Prec * Prec * A = 0
    BY <1>0, <2>1
  <2>4. DOMAIN Allocations(fees) = {}
    BY <1>1, <1>3
  <2> HIDE DEF S, k, n, A
  <2>5. SumFunction(Allocations(fees)) \in Nat
    BY <1>2, <2>1
  <2>6. Prec * Prec * SumFunction(Allocations(fees)) <= Prec * k + (k + Prec) * n
    BY <1>2, <2>2, <2>3
  <2> QED
    BY <2>4, <2>5, <2>6 DEF k, n
<1>4. CASE S # {}
  <2> DEFINE g == LastEpoch.gauges
             t == TotalWeight
             h == IF t > 0 THEN t ELSE 0 - t
             x == [p \in S |-> IF t > 0 THEN g[p] ELSE 0 - g[p]]
             w == [p \in S |-> Ratio(x[p], h)]
             W == SumFunctionOnSet(w, S)
             s(p) == Share(fees, p)
  <2>1. HasEpoch /\ t # 0 /\ S = DOMAIN g
    BY <1>4
  <2>2. S \subseteq Pools /\ \A p \in S : g[p] \in Int
    BY <2>1, LastStored DEF EpochsWF, LastEpoch
  <2>3. IsFiniteSet(S) /\ Cardinality(S) <= n /\ Cardinality(S) \in Nat
    BY <2>2, IncentivesAssumption, FS_Subset, FS_CardinalityType
  <2>4. t = SumFunctionOnSet(g, S)
    BY <2>1, Zenon DEF TotalWeight, SumFunction
  <2>5. \A p \in S : s(p) = MulTruncate(k, Quo(g[p], t)) /\ f[p] = TruncateInt(s(p))
    BY <1>0 DEF Share
  <2>6. \A p \in S : w[p] = Ratio(x[p], h) /\ x[p] = IF t > 0 THEN g[p] ELSE 0 - g[p]
    OBVIOUS
  <2>7. h = IF t > 0 THEN t ELSE 0 - t
    OBVIOUS
  <2> HIDE DEF S, g, t, w, f, n, k, A, x, h, s
  <2>8. t \in Int
    BY <2>2, <2>3, <2>4, SumRemove
  <2>9. \A p \in S : /\ x[p] \in Int /\ h \in Nat \ {0} /\ Quo(g[p], t) = w[p]
                     /\ (x[p] > 0 => g[p] * t > 0) /\ (x[p] < 0 => g[p] * t < 0)
    <3> TAKE p \in S
    <3>1. Relative(g[p], t, x[p], h)
      BY <2>1, <2>2, <2>6, <2>7, <2>8 DEF Relative
    <3> QED BY <2>2, <2>6, <2>8, <3>1, RelativeQuo
  <2>10. h \in Nat \ {0} /\ h = SumFunctionOnSet(x, S)
    <3>1. CASE t > 0
      <4>1. \A p \in S : g[p] = x[p] /\ x[p] \in Int
        BY <2>2, <2>6, <3>1
      <4>2. SumFunctionOnSet(g, S) = SumFunctionOnSet(x, S)
        BY <2>3, <4>1, SumEqual
      <4> QED BY <2>4, <2>7, <2>8, <3>1, <4>2
    <3>2. CASE t < 0
      <4>1. 0 - 1 \in Int /\ \A p \in S : g[p] \in Int /\ x[p] = (0 - 1) * g[p]
        BY <2>2, <2>6, <2>8, <3>2
      <4>2. SumFunctionOnSet(x, S) = (0 - 1) * SumFunctionOnSet(g, S)
        BY <2>3, <4>1, SumTimes
      <4>3. SumFunctionOnSet(x, S) = (0 - 1) * t
        BY <2>4, <4>2
      <4> QED BY <2>7, <2>8, <3>2, <4>3
    <3> QED BY <2>1, <2>8, <3>1, <3>2
  <2>11. (\A p \in S : w[p] \in Int) /\ W \in Int /\ W <= Prec + Cardinality(S)
    BY <2>3, <2>6, <2>9, <2>10, WeightsBound
  <2>12. \A p \in S : (w[p] > 0 => g[p] * t > 0) /\ (w[p] < 0 => g[p] * t < 0)
    BY <2>6, <2>9, RatioBound
  <2>13. \A p \in S :
           /\ s(p) \in Int /\ (s(p) < 0 => w[p] < 0)
           /\ ~(s(p) < 0) => /\ f[p] \in Nat /\ Prec * Prec * f[p] <= k * w[p] + Prec
                             /\ f[p] > 0 => w[p] > 0
    <3> TAKE p \in S
    <3> DEFINE z == w[p]
               m == MulTruncate(k, z)
    <3>1. s(p) = m /\ f[p] = TruncateInt(m) /\ z \in Int
      BY <2>5, <2>9, <2>11
    <3> HIDE DEF z
    <3>2. /\ m \in Int /\ (m < 0 => z < 0)
          /\ ~(m < 0) => /\ TruncateInt(m) \in Nat /\ Prec * Prec * TruncateInt(m) <= k * z + Prec
                         /\ TruncateInt(m) > 0 => z > 0
      BY <1>0, <3>1, AllocationBound
    <3> HIDE DEF m
    <3> QED BY <3>1, <3>2 DEF z
  <2>14. ASSUME \A p \in S : ~(s(p) < 0)
         PROVE  /\ A \in Nat /\ Prec * Prec * A <= Prec * k + (k + Prec) * n
                /\ \A p \in S : f[p] > 0 => g[p] * t > 0
    <3> DEFINE u == [p \in S |-> (Prec * Prec) * f[p]]
               v1 == [p \in S |-> k * w[p]]
               v2 == [p \in S |-> Prec]
               v == [p \in S |-> k * w[p] + Prec]
    <3>1. \A p \in S : f[p] \in Nat /\ Prec * Prec * f[p] <= k * w[p] + Prec /\ (f[p] > 0 => w[p] > 0)
      BY <2>13, <2>14
    <3>2. A \in Nat
      BY <2>3, <3>1, SumNat DEF A
    <3>3. SumFunctionOnSet(u, S) = (Prec * Prec) * A
      <4>1. \A p \in S : f[p] \in Int /\ u[p] = (Prec * Prec) * f[p]
        BY <3>1
      <4>2. Prec * Prec \in Int
        BY <1>0
      <4> HIDE DEF u
      <4> QED BY <2>3, <4>1, <4>2, SumTimes DEF A
    <3>4. SumFunctionOnSet(v1, S) = k * W
      <4>1. \A p \in S : w[p] \in Int /\ v1[p] = k * w[p]
        BY <2>11
      <4> HIDE DEF v1
      <4> QED BY <1>0, <2>3, <4>1, SumTimes
    <3>5. SumFunctionOnSet(v2, S) = Prec * Cardinality(S)
      <4>1. Prec \in Int /\ \A p \in S : v2[p] = Prec
        BY <1>0
      <4> HIDE DEF v2
      <4> QED BY <2>3, <4>1, SumConstant
    <3>6. SumFunctionOnSet(v, S) = SumFunctionOnSet(v1, S) + SumFunctionOnSet(v2, S)
      <4>1. \A p \in S : v1[p] \in Int /\ v2[p] \in Int /\ v[p] = v1[p] + v2[p]
        BY <1>0, <2>11
      <4> HIDE DEF v, v1, v2
      <4> QED BY <2>3, <4>1, SumPlus
    <3>7. SumFunctionOnSet(u, S) <= SumFunctionOnSet(v, S)
      <4>1. \A p \in S : u[p] \in Int /\ v[p] \in Int /\ u[p] <= v[p]
        <5> TAKE p \in S
        <5>1. u[p] = (Prec * Prec) * f[p] /\ v[p] = k * w[p] + Prec
          OBVIOUS
        <5>2. (Prec * Prec) * f[p] \in Int /\ k * w[p] + Prec \in Int
          BY <1>0, <2>11, <3>1
        <5> QED BY <3>1, <5>1, <5>2
      <4> HIDE DEF u, v
      <4> QED BY <2>3, <4>1, SumMonotone
    <3> HIDE DEF u, v, v1, v2, W
    <3>8. (Prec * Prec) * A <= k * W + Prec * Cardinality(S)
      BY <3>3, <3>4, <3>5, <3>6, <3>7
    <3>9. k * W <= k * (Prec + n)
      <4>1. Prec + n \in Int /\ W <= Prec + n
        BY <1>0, <2>3, <2>11
      <4> QED BY <1>0, <2>11, <4>1, Scale
    <3>10. Prec * Cardinality(S) <= Prec * n
      BY <1>0, <2>3, Scale
    <3>11. Prec * Prec * A <= Prec * k + (k + Prec) * n
      <4>1. k * (Prec + n) + Prec * n = Prec * k + (k + Prec) * n
        BY <1>0
      <4> DEFINE a1 == (Prec * Prec) * A
                 a2 == k * W
                 a3 == Prec * Cardinality(S)
                 a4 == k * (Prec + n)
                 a5 == Prec * n
      <4>2. a1 \in Int /\ a2 \in Int /\ a3 \in Int /\ a4 \in Int /\ a5 \in Int
        BY <1>0, <2>3, <2>11, <3>2
      <4>3. a1 <= a2 + a3 /\ a2 <= a4 /\ a3 <= a5
        BY <3>8, <3>9, <3>10
      <4> HIDE DEF a1, a2, a3, a4, a5
      <4>4. a1 <= a4 + a5
        BY <4>2, <4>3
      <4> QED BY <4>1, <4>4 DEF a1, a4, a5
    <3>12. \A p \in S : f[p] > 0 => g[p] * t > 0
      BY <2>12, <3>1
    <3> QED BY <3>2, <3>11, <3>12
  <2>15. \A p \in S : p \in DOMAIN g /\ s(p) \in Int /\ (s(p) < 0 => g[p] * t < 0)
    BY <2>1, <2>12, <2>13
  <2> QED
    BY <1>1, <1>2, <2>14, <2>15 DEF g, n, k, s, t
<1> QED
  BY <1>3, <1>4

\* Nothing is allocated against the total.
NoneNegative(fees) == \A p \in DOMAIN Allocations(fees) : ~(Share(fees, p) < 0)

\* Without more than a token of rounding the allocations never exceed the fees.
LEMMA AllocationsCovered ==
    ASSUME EpochInv, EpochsWF, RoundingBelowToken, NEW fees \in Nat, fees <= MaxCollected,
           NoneNegative(fees)
    PROVE  SumFunction(Allocations(fees)) <= fees
<1> DEFINE A == SumFunction(Allocations(fees))
           n == Cardinality(Pools)
           r == Prec - StakingRatio
           k == fees * r
           P2 == Prec * Prec
<1>0. /\ Prec \in Nat \ {0} /\ r \in Nat /\ r <= Prec /\ k \in Nat /\ n \in Nat /\ A \in Nat
      /\ P2 \in Nat \ {0} /\ MaxCollected \in Nat
  <2>1. n \in Nat
    BY IncentivesAssumption, FS_CardinalityType
  <2>2. A \in Nat
    BY AllocationsBound DEF NoneNegative
  <2>3. Prec \in Nat \ {0} /\ r \in Nat /\ r <= Prec
    BY PrecAssumption, IncentivesAssumption DEF One
  <2>4. k \in Nat /\ P2 \in Nat \ {0}
    BY <2>3
  <2>5. MaxCollected \in Nat
    BY IncentivesAssumption, FeeSupplyAssumption DEF MaxCollected
  <2> QED BY <2>1, <2>2, <2>3, <2>4, <2>5
<1>1. P2 * A <= Prec * k + (k + Prec) * n
  BY AllocationsBound DEF NoneNegative
<1>2. (fees + 1) * n <= Prec - 1
  <2>1. (fees + 1) * n <= (MaxCollected + 1) * n
    <3>1. fees + 1 \in Int /\ MaxCollected + 1 \in Int /\ fees + 1 <= MaxCollected + 1
      BY <1>0
    <3> QED BY <1>0, <3>1, Times
  <2>2. (MaxCollected + 1) * n < Prec
    BY DEF RoundingBelowToken
  <2>3. (fees + 1) * n \in Int /\ (MaxCollected + 1) * n \in Int
    BY <1>0
  <2> HIDE DEF n
  <2> QED BY <1>0, <2>1, <2>2, <2>3
<1> HIDE DEF A, n, r, P2
<1>3. k <= Prec * fees
  <2>1. fees * r <= fees * Prec
    BY <1>0, Scale
  <2> QED BY <1>0, <2>1
<1>4. Prec * k <= P2 * fees
  <2>1. Prec * fees \in Int
    BY <1>0
  <2>2. Prec * k <= Prec * (Prec * fees)
    BY <1>0, <1>3, <2>1, Scale
  <2> QED BY <1>0, <2>2 DEF P2
<1>5. (k + Prec) * n < P2
  <2> HIDE DEF k
  <2>1. (k + Prec) * n <= (Prec * fees + Prec) * n
    <3>1. k + Prec \in Int /\ Prec * fees + Prec \in Int /\ k + Prec <= Prec * fees + Prec
      BY <1>0, <1>3
    <3> QED BY <1>0, <3>1, Times
  <2>2. (Prec * fees + Prec) * n = Prec * ((fees + 1) * n)
    BY <1>0
  <2>3. Prec * ((fees + 1) * n) <= Prec * (Prec - 1)
    <3>1. (fees + 1) * n \in Int /\ Prec - 1 \in Int
      BY <1>0
    <3> QED BY <1>0, <1>2, <3>1, Scale
  <2>4. Prec * (Prec - 1) = P2 - Prec
    BY <1>0 DEF P2
  <2> DEFINE x == (k + Prec) * n
             y == Prec * ((fees + 1) * n)
  <2>5. x \in Int /\ y \in Int
    BY <1>0
  <2>6. x <= y /\ y <= P2 - Prec
    BY <2>1, <2>2, <2>3, <2>4
  <2> HIDE DEF x, y
  <2>7. x < P2
    BY <1>0, <2>5, <2>6
  <2> QED BY <2>7 DEF x
<1>6. P2 * A <= P2 * fees
  <2> DEFINE x == P2 * A
             y == Prec * k
             z == (k + Prec) * n
             c == P2 * fees
  <2>1. x \in Int /\ y \in Int /\ z \in Int /\ c \in Int
    BY <1>0
  <2>2. x < c + P2
    <3>1. x <= y + z /\ y <= c /\ z < P2
      BY <1>1, <1>4, <1>5
    <3> HIDE DEF x, y, z, c
    <3> QED BY <1>0, <2>1, <3>1
  <2>3. SUFFICES ASSUME A >= fees + 1 PROVE FALSE
    <3>1. ~(A >= fees + 1) => A <= fees
      BY <1>0
    <3> QED BY <1>0, <2>3, <3>1, Scale
  <2>4. P2 * (fees + 1) <= P2 * A
    BY <1>0, <2>3, Scale
  <2>5. P2 * (fees + 1) = c + P2
    BY <1>0
  <2> HIDE DEF x, c
  <2> QED BY <1>0, <2>1, <2>2, <2>4, <2>5 DEF x
<1> QED
  BY <1>0, <1>6, Cancel DEF A

\* With less rounding than a step of the ratio the pools together get no more
\* than the incentives' part of the fees.
LEMMA StakersPart ==
    ASSUME EpochInv, EpochsWF, RoundingBelowStep, NEW fees \in Nat, fees <= MaxCollected,
           NoneNegative(fees)
    PROVE  Prec * SumFunction(Allocations(fees)) <= fees * (Prec - StakingRatio)
<1> DEFINE A == SumFunction(Allocations(fees))
           n == Cardinality(Pools)
           r == Prec - StakingRatio
           k == fees * r
           a == Prec * A
<1>0. /\ Prec \in Nat \ {0} /\ r \in Nat /\ k \in Nat /\ n \in Nat /\ A \in Nat
      /\ a \in Nat /\ MaxCollected \in Nat /\ StakingRatio \in Nat
  <2>1. n \in Nat
    BY IncentivesAssumption, FS_CardinalityType
  <2>2. A \in Nat
    BY AllocationsBound DEF NoneNegative
  <2>3. Prec \in Nat \ {0} /\ r \in Nat /\ StakingRatio \in Nat
    BY PrecAssumption, IncentivesAssumption DEF One
  <2>4. k \in Nat /\ a \in Nat
    BY <2>2, <2>3
  <2>5. MaxCollected \in Nat
    BY IncentivesAssumption, FeeSupplyAssumption DEF MaxCollected
  <2> QED BY <2>1, <2>2, <2>3, <2>4, <2>5
<1>1. PICK step \in 1 .. Prec : /\ Prec % step = 0 /\ StakingRatio % step = 0
                                /\ (MaxCollected * r + Prec) * n < Prec * step
  BY DEF RoundingBelowStep
<1>2. Prec * Prec * A <= Prec * k + (k + Prec) * n
  BY AllocationsBound DEF NoneNegative
<1> DEFINE m == Prec \div step
           s == StakingRatio \div step
<1>3. step \in Nat \ {0} /\ m \in Nat /\ s \in Nat /\ Prec = step * m /\ StakingRatio = step * s
  <2>1. step \in Nat \ {0}
    BY <1>0, <1>1
  <2>2. m \in Nat /\ Prec = step * m + (Prec % step)
    BY <1>0, <2>1, DivBounds
  <2>3. s \in Nat /\ StakingRatio = step * s + (StakingRatio % step)
    BY <1>0, <2>1, DivBounds
  <2> HIDE DEF m, s
  <2>4. step * m \in Nat /\ step * s \in Nat
    BY <2>1, <2>2, <2>3
  <2> QED BY <1>0, <1>1, <2>1, <2>2, <2>3, <2>4
<1>4. (k + Prec) * n <= Prec * step - 1
  <2>1. fees * r <= MaxCollected * r
    BY <1>0, Times
  <2>2. (k + Prec) * n <= (MaxCollected * r + Prec) * n
    <3>1. k + Prec \in Int /\ MaxCollected * r + Prec \in Int /\ k + Prec <= MaxCollected * r + Prec
      BY <1>0, <2>1
    <3> HIDE DEF k, r
    <3> QED BY <1>0, <3>1, Times
  <2> DEFINE x == (k + Prec) * n
             y == (MaxCollected * r + Prec) * n
             z == Prec * step
  <2>3. x \in Int /\ y \in Int /\ z \in Int
    BY <1>0, <1>3
  <2>4. x <= y /\ y < z
    BY <1>1, <2>2
  <2> HIDE DEF x, y, z
  <2>5. x <= z - 1
    BY <2>3, <2>4
  <2> QED BY <2>5 DEF x, z
<1>5. a = step * (m * A)
  BY <1>0, <1>3
<1>6. k = step * (fees * (m - s))
  <2>1. r = step * (m - s)
    BY <1>3
  <2>2. fees * (step * (m - s)) = step * (fees * (m - s))
    BY <1>3
  <2> QED BY <2>1, <2>2
<1> HIDE DEF A, n, r, k, m, s, a
<1>7. a < k + step
  <2>1. Prec * Prec * A = Prec * a
    BY <1>0, <1>3 DEF a
  <2> DEFINE x == Prec * a
             y == Prec * k
             z == Prec * step
             w == (k + Prec) * n
  <2>2. x \in Int /\ y \in Int /\ z \in Int /\ w \in Int
    BY <1>0, <1>3
  <2>3. x <= y + w /\ w <= z - 1
    BY <1>2, <1>4, <2>1
  <2>4. x < y + z
    <3> HIDE DEF x, y, z, w
    <3> QED BY <2>2, <2>3
  <2>5. y + z = Prec * (k + step)
    BY <1>0, <1>3
  <2>6. SUFFICES ASSUME k + step <= a PROVE FALSE
    BY <1>0, <1>3
  <2>7. k + step \in Int
    BY <1>0, <1>3
  <2>8. Prec * (k + step) <= Prec * a
    BY <1>0, <2>6, <2>7, Scale
  <2> HIDE DEF x, y, z
  <2> QED BY <2>2, <2>4, <2>5, <2>8 DEF x
<1>8. a <= k
  <2> DEFINE x == m * A
             y == fees * (m - s)
  <2>1. x \in Int /\ y \in Int
    BY <1>0, <1>3
  <2>2. a = step * x /\ k = step * y
    BY <1>5, <1>6
  <2> HIDE DEF x, y
  <2>3. SUFFICES ASSUME y + 1 <= x PROVE a <= k
    <3>1. ~(y + 1 <= x) => x <= y
      BY <2>1
    <3>2. x <= y => step * x <= step * y
      BY <1>3, <2>1, Scale
    <3> QED BY <2>2, <2>3, <3>1, <3>2
  <2>4. step * (y + 1) <= step * x
    BY <1>3, <2>1, <2>3, Scale
  <2>5. step * (y + 1) = step * y + step
    BY <1>3, <2>1
  <2>6. k + step <= a
    BY <2>2, <2>4, <2>5
  <2> QED BY <1>0, <1>3, <1>7, <2>6
<1> QED
  BY <1>8 DEF a, k, r, A

\* Fees move bond tokens to the collector, conversions burn them, and blocks
\* empty the collector: users and collector never have more than at genesis.
LEMMA FundedStep == LedgerInv /\ Funded /\ [Next]_vars => Funded'
<1> SUFFICES ASSUME LedgerInv, Funded, [Next]_vars PROVE Funded'
  OBVIOUS
<1> USE FeeSupplyAssumption
<1>0. /\ BondDenom \in Denoms /\ FeeDenom \in Denoms
      /\ "accounts" \in Holders /\ "feeCollector" \in Holders
      /\ bal \in [Holders -> [Denoms -> Nat]]
      /\ \A h \in Holders, d \in Denoms : bal[h][d] \in Nat
  BY DEF Denoms, Holders, LedgerInv, BankTypeOK
<1>1. CASE bal' = bal
  BY <1>1 DEF Funded
<1>2. CASE BeginBlock
  <2>1. CASE AllocationFails(Allocations(Collected), Collected)
    BY <1>1, <1>2, <2>1 DEF BeginBlock
  <2>2. CASE ~AllocationFails(Allocations(Collected), Collected)
    <3>1. bal'["accounts"] = bal["accounts"] /\ bal'["feeCollector"] = [d \in Denoms |-> 0]
      BY <1>0, <1>2, <2>2 DEF BeginBlock, Holders
    <3>2. bal'["feeCollector"][BondDenom] = 0
      BY <1>0, <3>1
    <3> QED
      BY <1>0, <3>1, <3>2 DEF Funded
  <2> QED
    BY <2>1, <2>2
<1>3. ASSUME NEW d \in Denoms, NEW x \in FeeAmounts, DeductFees(d, x) PROVE Funded'
  <2>1. x \in Nat /\ BurnAmount(d, x) \in Nat
    BY BurnAmountNat
  <2>2. bal' = [Sent(bal, "accounts", "feeCollector", d, x)
                  EXCEPT !["feeCollector"][d] = @ - BurnAmount(d, x)]
    BY <1>3 DEF DeductFees
  <2> DEFINE b == Sent(bal, "accounts", "feeCollector", d, x)
  <2>3. /\ b \in [Holders -> [Denoms -> Int]]
        /\ \A e \in Denoms :
             /\ b["accounts"][e] = bal["accounts"][e] - (IF e = d THEN x ELSE 0)
             /\ b["feeCollector"][e] = bal["feeCollector"][e] + (IF e = d THEN x ELSE 0)
    BY <1>0, <2>1 DEF Sent, Holders
  <2> HIDE DEF b
  <2>4. /\ bal'["accounts"][BondDenom] = b["accounts"][BondDenom]
        /\ bal'["feeCollector"][BondDenom] =
             b["feeCollector"][BondDenom] - (IF BondDenom = d THEN BurnAmount(d, x) ELSE 0)
    BY <1>0, <2>1, <2>2, <2>3 DEF b, Holders
  <2> QED
    BY <1>0, <2>1, <2>3, <2>4 DEF Funded
<1>4. ASSUME NEW lo, NEW hi \in ConvertAmounts, lo \in ConvertAmounts \cup {0}, Convert(lo, hi)
      PROVE  Funded'
  <2>1. ConversionAmount(hi) \in Nat
    <3>1. Space \in Int /\ lo \in Nat /\ hi \in Nat /\ ~(Space < lo)
      BY <1>4 DEF Convert, ConversionRefused, Space, LedgerInv, BankTypeOK, Denoms
    <3> QED BY <3>1 DEF ConversionAmount
  <2>2. bal' = [bal EXCEPT !["accounts"][BondDenom] = @ - ConversionAmount(hi),
                           !["accounts"][FeeDenom]  = @ + ConversionAmount(hi)]
    BY <1>4 DEF Convert
  <2>3. /\ bal'["accounts"][BondDenom] = bal["accounts"][BondDenom] - ConversionAmount(hi)
        /\ bal'["feeCollector"] = bal["feeCollector"]
    BY <1>0, <2>1, <2>2 DEF Holders
  <2> QED
    BY <1>0, <2>1, <2>3 DEF Funded
<1>5. CASE BankTx
  <2>1. NextBank
    BY <1>5 DEF BankTx
  <2>2. ASSUME NEW y \in MaxSupplies, UpdateMaxSupply(y) PROVE Funded'
    BY <1>1, <2>2 DEF UpdateMaxSupply
  <2> QED
    BY <1>3, <1>4, <2>1, <2>2 DEF NextBank
<1>6. CASE EndBlock \/ Environment \/ UNCHANGED vars
  BY <1>1, <1>6 DEF EndBlock, Environment, vars, bankVars
<1>7. ASSUME NEW a \in Accounts, NEW b \in Ballots, VoteGauge(a, b) PROVE Funded'
  BY <1>1, <1>7 DEF VoteGauge, bankVars
<1> QED
  BY <1>2, <1>5, <1>6, <1>7 DEF Next, Block

LEMMA FundedInit == Init => Funded
BY FeeSupplyAssumption DEF Init, InitBank, Funded, Holders, Denoms

\* What a block collects is at most what RoundingBelowToken reckons with.
LEMMA CollectedBound ==
    ASSUME LedgerInv, Funded
    PROVE  Collected \in Nat /\ Collected <= MaxCollected
<1>1. /\ bal["accounts"][BondDenom] \in Nat /\ bal["feeCollector"][BondDenom] \in Nat
      /\ Reward \in Nat /\ Reward <= BlockReward /\ BlockReward \in Nat /\ InitialBalance \in Nat
  BY IncentivesAssumption, FeeSupplyAssumption DEF LedgerInv, BankTypeOK, Holders, Denoms, Reward
<1> QED
  BY <1>1 DEF Collected, MaxCollected, Funded

\* A halted chain stands between two blocks.
HaltInv == LedgerInv /\ Funded /\ (halted => ~inBlock) /\ HaltsNotByRounding

LEMMA HaltStep == RoundingBelowToken /\ HaltInv /\ [Next]_vars => HaltInv'
<1> SUFFICES ASSUME RoundingBelowToken, HaltInv, [Next]_vars PROVE HaltInv'
  OBVIOUS
<1>1. LedgerInv /\ Funded /\ LedgerInv' /\ Funded'
  BY LedgerInvStep, FundedStep DEF HaltInv
<1>2. CASE ~halted' \/ (halted /\ UNCHANGED <<epochs, active, inBlock>>)
  <2>1. CASE ~halted'
    BY <1>1, <2>1 DEF HaltInv, HaltsNotByRounding
  <2>2. CASE halted /\ UNCHANGED <<epochs, active, inBlock>>
    BY <1>1, <2>2 DEF HaltInv, HaltsNotByRounding, LastEpoch, LastId, TotalWeight
  <2> QED BY <1>2, <2>1, <2>2
<1>3. CASE BeginBlock
  <2>1. ~inBlock /\ ~halted /\ UNCHANGED <<epochs, active, usable>>
    BY <1>3 DEF BeginBlock, incentiveVars, poolVars
  <2> DEFINE alloc == Allocations(Collected)
  <2>2. CASE ~AllocationFails(alloc, Collected)
    BY <1>2, <1>3, <2>1, <2>2 DEF BeginBlock
  <2>3. CASE AllocationFails(alloc, Collected)
    <3>1. halted' = TRUE /\ inBlock' = inBlock
      BY <1>3, <2>3 DEF BeginBlock
    <3>2. Collected \in Nat /\ Collected <= MaxCollected /\ EpochInv /\ EpochsWF
      BY <1>1, CollectedBound DEF LedgerInv
    <3> DEFINE w(p) == LastEpoch.gauges[p] * TotalWeight
    <3>3. \E p \in DOMAIN LastEpoch.gauges : w(p) < 0 \/ (w(p) > 0 /\ p \notin active)
      <4>1. CASE NoneNegative(Collected)
        <5>1. SumFunction(alloc) \in Nat /\ SumFunction(alloc) <= Collected
          BY <3>2, <4>1, AllocationsBound, AllocationsCovered DEF NoneNegative
        <5>2. PICK p \in DOMAIN alloc : alloc[p] > 0 /\ (p \notin usable \/ p \notin active)
          BY <2>3, <3>2, <4>1, <5>1 DEF AllocationFails, NoneNegative
        <5>3. p \in DOMAIN LastEpoch.gauges /\ w(p) > 0
          BY <3>2, <4>1, <5>2, AllocationsBound DEF NoneNegative
        <5>4. p \notin active
          BY <1>1, <5>2 DEF LedgerInv, Others
        <5> QED BY <5>3, <5>4
      <4>2. CASE ~NoneNegative(Collected)
        <5>1. PICK p \in DOMAIN alloc : Share(Collected, p) < 0
          BY <4>2 DEF NoneNegative
        <5>2. p \in DOMAIN LastEpoch.gauges /\ w(p) < 0
          BY <3>2, <5>1, AllocationsBound
        <5> QED BY <5>2
      <4> QED BY <4>1, <4>2
    <3>4. LastEpoch' = LastEpoch /\ TotalWeight' = TotalWeight /\ active' = active
      BY <2>1 DEF LastEpoch, LastId, TotalWeight
    <3>5. HaltsNotByRounding'
      BY <3>3, <3>4 DEF HaltsNotByRounding
    <3> QED
      BY <1>1, <2>1, <3>1, <3>5 DEF HaltInv
  <2> QED
    BY <2>2, <2>3
<1>4. CASE EndBlock
  BY <1>2, <1>4 DEF EndBlock, HaltInv
<1>5. ASSUME InTx, UNCHANGED blockVars PROVE ~halted'
  BY <1>5 DEF InTx, blockVars, HaltInv
<1>6. ASSUME NEW a \in Accounts, NEW b \in Ballots, VoteGauge(a, b) PROVE HaltInv'
  BY <1>2, <1>5, <1>6 DEF VoteGauge
<1>7. CASE Environment \/ BankTx
  BY <1>2, <1>5, <1>7 DEF Environment, BankTx
<1>8. CASE UNCHANGED vars
  BY <1>2, <1>8 DEF vars, incentiveVars, poolVars, blockVars
<1> QED
  BY <1>3, <1>4, <1>6, <1>7, <1>8 DEF Next, Block

\* For every mixture of votes, also with negative weights, BeginBlocker stops the
\* chain only on a gauge that weighs against the total or on one of a pool
\* without liquidity at its current tick: with the decimals of the code, rounding
\* never allocates more than the fee collector holds.
THEOREM HaltsExplained == RoundingBelowToken => (Spec => []HaltsNotByRounding)
<1> SUFFICES ASSUME RoundingBelowToken PROVE Spec => []HaltsNotByRounding
  OBVIOUS
<1>1. Init => HaltInv
  BY LedgerInvInit, FundedInit DEF Init, HaltInv, HaltsNotByRounding
<1>2. HaltInv /\ [Next]_vars => HaltInv'
  BY HaltStep
<1>3. HaltInv => HaltsNotByRounding
  BY DEF HaltInv
<1> QED
  BY <1>1, <1>2, <1>3, PTL DEF Spec

\* What BeginBlocker hands on to x/distribution is at least the stakers' ratio
\* of what was collected, whatever the votes were and however weights round.
LEMMA StakersStep ==
    ASSUME LedgerInv, Funded, RoundingBelowStep, [Next]_vars, ~inBlock, inBlock'
    PROVE  Dec(bal'["distribution"][BondDenom] - bal["distribution"][BondDenom])
             >= Collected * StakingRatio
<1>1. BeginBlock
  <2>1. ~EndBlock /\ ~InTx /\ ~UNCHANGED vars
    BY DEF EndBlock, InTx, vars, blockVars
  <2> QED
    BY <2>1 DEF Next, Block, VoteGauge, Environment, BankTx
<1> DEFINE alloc == Allocations(Collected)
           A == SumFunction(alloc)
           r == Prec - StakingRatio
           C == Collected
<1>2. ~AllocationFails(alloc, Collected)
  BY <1>1 DEF BeginBlock
<1>3. C \in Nat /\ C <= MaxCollected
  BY CollectedBound
<1>4. A \in Nat /\ Prec * A <= C * r
  <2>1. NoneNegative(Collected)
    BY <1>2 DEF AllocationFails, NoneNegative
  <2>2. EpochInv /\ EpochsWF
    BY DEF LedgerInv
  <2>3. A \in Nat
    BY <1>3, <2>1, <2>2, AllocationsBound DEF NoneNegative
  <2>4. Prec * A <= C * r
    BY <1>3, <2>1, <2>2, StakersPart
  <2> QED BY <2>3, <2>4
<1>5. /\ BondDenom \in Denoms /\ bal["distribution"][BondDenom] \in Nat
      /\ bal["feeCollector"][BondDenom] \in Nat /\ Reward \in Nat
      /\ bal \in [Holders -> [Denoms -> Nat]] /\ C = bal["feeCollector"][BondDenom] + Reward
  BY IncentivesAssumption DEF LedgerInv, BankTypeOK, Holders, Denoms, Reward, Collected
<1>6. bal' = [bal EXCEPT
                 !["feeCollector"] = [d \in Denoms |-> 0],
                 !["poolFees"][BondDenom] = @ + A,
                 !["distribution"] = [d \in Denoms |->
                     @[d] + bal["feeCollector"][d]
                     + (IF d = BondDenom THEN Reward - A ELSE 0)]]
  BY <1>1, <1>2 DEF BeginBlock
<1> HIDE DEF alloc, A, C
<1>7. bal'["distribution"] = [d \in Denoms |->
                     bal["distribution"][d] + bal["feeCollector"][d]
                     + (IF d = BondDenom THEN Reward - A ELSE 0)]
  BY <1>5, <1>6 DEF Holders
<1>8. bal'["distribution"][BondDenom] =
        bal["distribution"][BondDenom] + bal["feeCollector"][BondDenom] + (Reward - A)
  BY <1>5, <1>7
<1>9. bal'["distribution"][BondDenom] - bal["distribution"][BondDenom] = C - A
  BY <1>3, <1>4, <1>5, <1>8
<1>10. Prec \in Nat /\ StakingRatio \in Nat
  BY PrecAssumption, IncentivesAssumption DEF One
<1>11. (C - A) * Prec = C * Prec - Prec * A /\ C * r = C * Prec - C * StakingRatio
  BY <1>3, <1>4, <1>10
<1> DEFINE x == C * Prec
           y == Prec * A
           z == C * StakingRatio
<1>12. x \in Int /\ y \in Int /\ z \in Int /\ y <= x - z
  BY <1>3, <1>4, <1>10, <1>11
<1>13. x - y >= z
  <2> HIDE DEF x, y, z
  <2> QED BY <1>12
<1> QED
  BY <1>9, <1>11, <1>13 DEF Dec, C

\* Stakers get their part of every block.
THEOREM StakersGetTheirPart == RoundingBelowStep => (Spec => StakersPaid)
<1> SUFFICES ASSUME RoundingBelowStep PROVE Spec => StakersPaid
  OBVIOUS
<1>1. Init => LedgerInv /\ Funded
  BY LedgerInvInit, FundedInit
<1>2. LedgerInv /\ Funded /\ [Next]_vars => LedgerInv' /\ Funded'
  BY LedgerInvStep, FundedStep
<1>3. LedgerInv /\ Funded /\ [Next]_vars =>
        [~inBlock /\ inBlock' =>
           Dec(bal'["distribution"][BondDenom] - bal["distribution"][BondDenom])
             >= Collected * StakingRatio]_vars
  BY StakersStep
<1> QED
  BY <1>1, <1>2, <1>3, PTL DEF Spec, StakersPaid
=============================================================================
