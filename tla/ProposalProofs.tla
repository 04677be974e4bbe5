---------------------------- MODULE ProposalProofs ----------------------------
(***************************************************************************)
(* Proofs about Proposal: validators reject what an honest proposer        *)
(* prepared exactly if it has a PFB without its blobs, or lacks a          *)
(* transaction that the filter counted and that another one of the same    *)
(* account in the block comes after.                                       *)
(***************************************************************************)
EXTENDS Proposal, SquareTheorems

-----------------------------------------------------------------------------
(* Types *)

AccStates == [seq : [Accounts -> Nat], funds : [Accounts -> Int]]
KnownShapes == Shapes \cup {BareShape(shape) : shape \in Shapes}
Txs == [acc : Accounts, seq : Nat, shape : KnownShapes]
Verdicts == [ok : BOOLEAN, state : AccStates]

\* A state, the transactions that passed so far and those that were counted.
Filtering == [state : AccStates, passed : Seq(Txs), counted : Seq(Txs)]
Rechecking == [state : AccStates, passed : Seq(Txs)]

GoodBuilders == {b \in Builder : Good(b)}

Squares == [builder : GoodBuilders, normalTxs : Seq(Txs), blobTxs : Seq(Txs)]

\* What is known of a transaction, with or without blobs.
LEMMA ShapeFacts ==
    ASSUME NEW tx \in Txs
    PROVE  /\ tx.acc \in Accounts /\ tx.seq \in Nat /\ tx.shape.spend \in Nat
           /\ IsBlobTx(tx) => tx.shape.len \in PfbLens /\ tx.shape.blobs \in BlobLists
           /\ ~IsBlobTx(tx) => tx.shape.len \in TxLens
<1>1. tx.acc \in Accounts /\ tx.seq \in Nat /\ tx.shape \in KnownShapes
  BY DEF Txs
<1>2. CASE tx.shape \in Shapes
  BY <1>1, <1>2, ProposalAssumption DEF IsBlobTx
<1>3. CASE tx.shape \notin Shapes
  <2>1. PICK shape \in Shapes : tx.shape = BareShape(shape)
    BY <1>1, <1>3 DEF KnownShapes
  <2>2. tx.shape.kind = "pfb" /\ tx.shape.len = shape.len /\ tx.shape.spend = shape.spend
    BY <2>1 DEF BareShape
  <2>3. shape.len \in TxLens /\ shape.spend \in Nat
    BY ProposalAssumption
  <2>. QED
    BY <1>1, <2>2, <2>3 DEF IsBlobTx
<1>. QED
  BY <1>2, <1>3

\* Taking the blobs off.
LEMMA WithoutBlobsType == ASSUME NEW tx \in Txs PROVE WithoutBlobs(tx) \in Txs
<1>1. tx.acc \in Accounts /\ tx.seq \in Nat /\ tx.shape \in KnownShapes
  BY DEF Txs
<1>2. CASE ~IsBlobTx(tx)
  BY <1>2 DEF WithoutBlobs
<1>3. CASE IsBlobTx(tx)
  <2>1. tx.shape \in Shapes
    BY <1>1, <1>3 DEF IsBlobTx, KnownShapes, BareShape
  <2>2. BareShape(tx.shape) \in KnownShapes
    BY <2>1 DEF KnownShapes
  <2>. QED
    BY <1>1, <1>3, <2>2 DEF WithoutBlobs, Txs
<1>. QED
  BY <1>2, <1>3

\* Paying and signing keep the type of the state.
LEMMA PaidType ==
    ASSUME NEW s \in AccStates, NEW tx \in Txs
    PROVE  /\ Paid(s, tx) \in AccStates /\ Signed(s, tx) \in AccStates
           /\ AfterFee(s, tx) \in AccStates
<1>1. Fee \in Nat /\ tx.acc \in Accounts
  BY ProposalAssumption DEF Txs
<1>2. s.seq \in [Accounts -> Nat] /\ s.funds \in [Accounts -> Int]
  BY DEF AccStates
<1>3. [s.funds EXCEPT ![tx.acc] = @ - Fee] \in [Accounts -> Int]
  BY <1>1, <1>2
<1>4. [s.seq EXCEPT ![tx.acc] = @ + 1] \in [Accounts -> Nat]
  BY <1>1, <1>2
<1>. QED
  BY <1>2, <1>3, <1>4 DEF AfterFee, Paid, Signed, AccState, AccStates

\* So do the ante handlers.
LEMMA AnteTypes ==
    ASSUME NEW s \in AccStates, NEW tx \in Txs
    PROVE  AnteHandler(s, tx) \in Verdicts /\ SDKAnteHandler(s, tx) \in Verdicts
<1>1. ASSUME NEW r \in AccStates PROVE SequenceChecked(r, tx) \in Verdicts
  BY PaidType DEF SequenceChecked, Verdict, Verdicts
<1>2. Verdict(FALSE, s) \in Verdicts
  BY DEF Verdict, Verdicts
<1>3. PICK w \in Verdicts : w = SequenceChecked(AfterFee(s, tx), tx)
  BY <1>1, PaidType
<1>4. BidChecked(w, tx) \in Verdicts
  BY DEF BidChecked, Verdict, Verdicts
<1>. QED
  BY <1>2, <1>3, <1>4 DEF AnteHandler, SDKAnteHandler

\* And CheckTx.
LEMMA CheckedType ==
    ASSUME chain \in AccStates, NEW s \in AccStates, NEW tx \in Txs
    PROVE  Checked(s, tx) \in Verdicts
<1>1. PICK v, w \in Verdicts : v = AnteHandler(chain, tx) /\ w = SDKAnteHandler(s, tx)
  BY AnteTypes
<1>2. v.ok \in BOOLEAN /\ w.ok \in BOOLEAN
  BY DEF Verdicts
<1>3. Verdict(v.ok, s) \in Verdicts /\ Verdict(FALSE, s) \in Verdicts
  BY <1>2 DEF Verdict, Verdicts
<1>. QED
  BY <1>1, <1>3 DEF Checked

\* A step of the filter.
LEMMA FilterType ==
    ASSUME NEW f \in Filtering, NEW tx \in Txs
    PROVE  Filter(f, tx) \in Filtering
<1>1. PICK v \in Verdicts : v = AnteHandler(f.state, tx)
  BY AnteTypes DEF Filtering
<1>2. PICK p, q \in Seq(Txs) : p = f.passed /\ q = f.counted
  BY DEF Filtering
<1>3. Append(p, tx) \in Seq(Txs) /\ Append(q, tx) \in Seq(Txs)
  OBVIOUS
<1>4. v.state \in AccStates
  BY DEF Verdicts
<1>. QED
  BY <1>1, <1>2, <1>3, <1>4 DEF Filter, Filtering

\* A recheck.
LEMMA RecheckType ==
    ASSUME chain \in AccStates, NEW f \in Rechecking, NEW tx \in Txs
    PROVE  Recheck(f, tx) \in Rechecking
<1>1. PICK v \in Verdicts : v = Checked(f.state, tx)
  BY CheckedType DEF Rechecking
<1>2. f.passed \in Seq(Txs) /\ Append(f.passed, tx) \in Seq(Txs)
  BY DEF Rechecking
<1>3. v.state \in AccStates
  BY DEF Verdicts
<1>. QED
  BY <1>1, <1>2, <1>3 DEF Recheck, Rechecking

\* The execution of a transaction.
LEMMA DeliveredType ==
    ASSUME NEW s \in AccStates, NEW tx \in Txs
    PROVE  Delivered(s, tx) \in AccStates
<1>1. PICK v \in Verdicts : v = SDKAnteHandler(s, tx)
  BY AnteTypes
<1>2. PICK r \in AccStates : r = v.state
  BY DEF Verdicts
<1>3. r.seq \in [Accounts -> Nat] /\ r.funds \in [Accounts -> Int]
  BY DEF AccStates
<1>4. tx.shape.spend \in Nat /\ tx.acc \in Accounts
  BY ShapeFacts
<1>5. [r.funds EXCEPT ![tx.acc] = @ - tx.shape.spend] \in [Accounts -> Int]
  BY <1>3, <1>4
<1>6. AccState(r.seq, [r.funds EXCEPT ![tx.acc] = @ - tx.shape.spend]) \in AccStates
  BY <1>3, <1>5 DEF AccState, AccStates
<1>. QED
  BY <1>1, <1>2, <1>6 DEF Delivered

\* What a transaction does to a good builder: nothing, or one entry more.
LEMMA AppendedGood ==
    ASSUME NEW b \in GoodBuilders, NEW tx \in Txs
    PROVE  LET c == Appended(b, tx)
           IN  /\ c \in GoodBuilders
               /\ c # b => Len(c.txs) + Len(c.pfbs) = Len(b.txs) + Len(b.pfbs) + 1
<1>1. Good(b) /\ b \in Builder
  BY DEF GoodBuilders
<1>2. /\ IsBlobTx(tx) => tx.shape.len \in PfbLens /\ tx.shape.blobs \in BlobLists
      /\ ~IsBlobTx(tx) => tx.shape.len \in TxLens
  BY ShapeFacts
<1>3. PICK c : c = Appended(b, tx)
  OBVIOUS
<1>4. Good(c) /\ c \in Builder
  <2>1. Good(c)
    BY <1>1, <1>2, <1>3, WithTxGood, WithBlobTxGood DEF Appended
  <2>. QED
    BY <2>1 DEF Good
<1>5. c # b => Len(c.txs) + Len(c.pfbs) = Len(b.txs) + Len(b.pfbs) + 1
  <2>1. b.txs \in Seq(TxLens) /\ b.pfbs \in Seq(Pfb)
    BY <1>1 DEF Builder
  <2>2. CASE IsBlobTx(tx)
    <3>1. c = b \/ (Len(c.txs) = Len(b.txs) /\ Len(c.pfbs) = Len(b.pfbs) + 1)
      <4>1. PICK x, y, z : c = IfFits(b, PfbAdded(b, x, y, z))
        BY <1>3, <2>2 DEF Appended, WithBlobTx
      <4>2. PICK d : d = PfbAdded(b, x, y, z)
        OBVIOUS
      <4>3. d.txs = b.txs /\ d.pfbs = Append(b.pfbs, x)
        BY <1>1, <4>2 DEF PfbAdded, Builder
      <4>4. Len(d.pfbs) = Len(b.pfbs) + 1
        BY <2>1, <4>3
      <4>. QED
        BY <4>1, <4>2, <4>3, <4>4 DEF IfFits
    <3>2. Len(b.txs) \in Nat /\ Len(b.pfbs) \in Nat
      BY <2>1
    <3>3. PICK p, q \in Nat : p = Len(b.txs) /\ q = Len(b.pfbs)
      BY <3>2
    <3>4. ASSUME c # b PROVE Len(c.txs) = p /\ Len(c.pfbs) = (q + 1)
      BY <3>1, <3>3, <3>4
    <3>5. p + (q + 1) = p + q + 1
      OBVIOUS
    <3>. QED
      BY <3>3, <3>4, <3>5
  <2>3. CASE ~IsBlobTx(tx)
    <3>1. c = b \/ (Len(c.txs) = Len(b.txs) + 1 /\ Len(c.pfbs) = Len(b.pfbs))
      <4>1. PICK x, z : c = IfFits(b, TxAdded(b, x, z))
        BY <1>3, <2>3 DEF Appended, WithTx
      <4>2. PICK d : d = TxAdded(b, x, z)
        OBVIOUS
      <4>3. d.txs = Append(b.txs, x) /\ d.pfbs = b.pfbs
        BY <1>1, <4>2 DEF TxAdded, Builder
      <4>4. Len(d.txs) = Len(b.txs) + 1
        BY <2>1, <4>3
      <4>. QED
        BY <4>1, <4>2, <4>3, <4>4 DEF IfFits
    <3>2. Len(b.txs) \in Nat /\ Len(b.pfbs) \in Nat
      BY <2>1
    <3>3. PICK p, q \in Nat : p = Len(b.txs) /\ q = Len(b.pfbs)
      BY <3>2
    <3>4. ASSUME c # b PROVE Len(c.txs) = (p + 1) /\ Len(c.pfbs) = q
      BY <3>1, <3>3, <3>4
    <3>5. (p + 1) + q = p + q + 1
      OBVIOUS
    <3>. QED
      BY <3>3, <3>4, <3>5
  <2>. QED
    BY <2>2, <2>3
<1>. QED
  BY <1>3, <1>4, <1>5 DEF GoodBuilders

EmptySquare == [builder |-> EmptyBuilder, normalTxs |-> <<>>, blobTxs |-> <<>>]

\* A step of square.Build.
LEMMA GrownType ==
    ASSUME NEW sq \in Squares, NEW tx \in Txs
    PROVE  Grown(sq, tx, Appended(sq.builder, tx)) \in Squares
<1>1. sq.builder \in GoodBuilders /\ sq.normalTxs \in Seq(Txs) /\ sq.blobTxs \in Seq(Txs)
  BY DEF Squares
<1>2. PICK c \in GoodBuilders : c = Appended(sq.builder, tx)
  BY <1>1, AppendedGood
<1>3. Append(sq.normalTxs, tx) \in Seq(Txs) /\ Append(sq.blobTxs, tx) \in Seq(Txs)
  BY <1>1
<1>. QED
  BY <1>1, <1>2, <1>3 DEF Grown, Squares

-----------------------------------------------------------------------------
(* The loops *)

\* The context and what passed, over the transactions of one kind.
FilterLoop(start, txs, blobs) ==
    CHOOSE f : f = [k \in 0..Len(txs) |->
                      IF k = 0 THEN start
                      ELSE IF IsBlobTx(txs[k]) = blobs THEN Filter(f[k - 1], txs[k]) ELSE f[k - 1]]

\* Its start and its steps.
LEMMA FilterSteps ==
    ASSUME NEW start \in Filtering, NEW blobs, NEW txs \in Seq(Txs), NEW h, h = FilterLoop(start, txs, blobs)
    PROVE  /\ h \in [0..Len(txs) -> Filtering] /\ h[0] = start
           /\ \A k \in 1..Len(txs) : h[k] = IF IsBlobTx(txs[k]) = blobs THEN Filter(h[k - 1], txs[k]) ELSE h[k - 1]
<1>. DEFINE n == Len(txs)
            Step(x, tx) == IF IsBlobTx(tx) = blobs THEN Filter(x, tx) ELSE x
            g == [t \in Filtering \X (1..n) |-> Step(t[1], txs[t[2]])]
            R(f) == [k \in 0..n |-> IF k = 0 THEN start ELSE Step(f[k - 1], txs[k])]
<1>1. n \in Nat /\ \A k \in 1..n : txs[k] \in Txs
  OBVIOUS
<1>2. start \in Filtering
  OBVIOUS
<1>3. ASSUME NEW x \in Filtering, NEW tx \in Txs PROVE Step(x, tx) \in Filtering
  BY <1>3, FilterType
<1>4. h = CHOOSE q : q = R(q)
  BY DEF FilterLoop
<1>. HIDE DEF n, Step
<1>5. g \in [Filtering \X (1..n) -> Filtering]
  BY <1>1, <1>3
<1>6. PICK f \in [0..n -> Filtering] : Recursive(f, n, start, g)
  <2>. HIDE DEF g
  <2>. QED
    BY <1>1, <1>2, <1>5, RecursionExists
<1>7. f = R(f)
  <2>1. ASSUME NEW k \in 1..n PROVE f[k] = Step(f[k - 1], txs[k])
    <3>1. <<f[k - 1], k>> \in Filtering \X (1..n)
      BY <1>1
    <3>2. f[k] = g[<<f[k - 1], k>>]
      BY <1>6 DEF Recursive
    <3>. QED
      BY <3>1, <3>2
  <2>2. f[0] = start /\ DOMAIN f = 0..n
    BY <1>6 DEF Recursive
  <2>3. ASSUME NEW k \in 0..n PROVE f[k] = R(f)[k]
    BY <1>1, <2>1, <2>2
  <2>. QED
    BY <2>2, <2>3
<1>8. h = R(h)
  <2>. HIDE DEF R
  <2>. QED
    BY <1>4, <1>7
<1>9. h[0] = start /\ \A k \in 1..n : h[k] = Step(h[k - 1], txs[k])
  <2>1. ASSUME NEW k \in 0..n
        PROVE  h[k] = IF k = 0 THEN start ELSE Step(h[k - 1], txs[k])
    BY <1>8, <2>1, Zenon
  <2>2. 0 \in 0..n /\ \A k \in 1..n : k \in 0..n /\ k # 0
    BY <1>1
  <2>. QED
    BY <2>1, <2>2, Zenon
<1>10. DOMAIN h = 0..n
  BY <1>8, Zenon
<1>. HIDE DEF R
<1>. DEFINE G == {k \in 0..n : h[k] \in Filtering}
<1>11. 0 \in G
  <2>1. 0 \in 0..n
    BY <1>1
  <2>. QED
    BY <1>2, <1>9, <2>1, Zenon
<1>12. ASSUME NEW k \in 1..n, k - 1 \in G PROVE k \in G
  BY <1>1, <1>3, <1>9, <1>12
<1>13. \A k \in 0..n : k \in G
  <2>. HIDE DEF G
  <2>. QED
    BY <1>1, <1>11, <1>12, RangeInduction
<1>14. h \in [0..n -> Filtering]
  <2>1. h = [k \in 0..n |-> h[k]]
    BY <1>8, <1>10, Zenon DEF R
  <2>. QED
    BY <1>13, <2>1
<1>. QED
  BY <1>9, <1>14 DEF n, Step

\* The squares that Build goes through.
BuildLoop(txs) ==
    CHOOSE f : f = [k \in 0..Len(txs) |->
                      IF k = 0 THEN EmptySquare
                      ELSE Grown(f[k - 1], txs[k], Appended(f[k - 1].builder, txs[k]))]

\* Its start and its steps.
LEMMA BuildSteps ==
    ASSUME NEW txs \in Seq(Txs), NEW h, h = BuildLoop(txs)
    PROVE  /\ h \in [0..Len(txs) -> Squares] /\ h[0] = EmptySquare
           /\ \A k \in 1..Len(txs) : h[k] = Grown(h[k - 1], txs[k], Appended(h[k - 1].builder, txs[k]))
<1>. DEFINE n == Len(txs)
            Step(x, tx) == Grown(x, tx, Appended(x.builder, tx))
            g == [t \in Squares \X (1..n) |-> Step(t[1], txs[t[2]])]
            R(f) == [k \in 0..n |-> IF k = 0 THEN EmptySquare ELSE Step(f[k - 1], txs[k])]
<1>1. n \in Nat /\ \A k \in 1..n : txs[k] \in Txs
  OBVIOUS
<1>2. EmptySquare \in Squares
  BY EmptyGood DEF Good, GoodBuilders, Squares, EmptySquare
<1>3. ASSUME NEW x \in Squares, NEW tx \in Txs PROVE Step(x, tx) \in Squares
  BY <1>3, GrownType
<1>4. h = CHOOSE q : q = R(q)
  BY DEF BuildLoop
<1>. HIDE DEF n, Step
<1>5. g \in [Squares \X (1..n) -> Squares]
  BY <1>1, <1>3
<1>6. PICK f \in [0..n -> Squares] : Recursive(f, n, EmptySquare, g)
  <2>. HIDE DEF g
  <2>. QED
    BY <1>1, <1>2, <1>5, RecursionExists
<1>7. f = R(f)
  <2>1. ASSUME NEW k \in 1..n PROVE f[k] = Step(f[k - 1], txs[k])
    <3>1. <<f[k - 1], k>> \in Squares \X (1..n)
      BY <1>1
    <3>2. f[k] = g[<<f[k - 1], k>>]
      BY <1>6 DEF Recursive
    <3>. QED
      BY <3>1, <3>2
  <2>2. f[0] = EmptySquare /\ DOMAIN f = 0..n
    BY <1>6 DEF Recursive
  <2>3. ASSUME NEW k \in 0..n PROVE f[k] = R(f)[k]
    BY <1>1, <2>1, <2>2
  <2>. QED
    BY <2>2, <2>3
<1>8. h = R(h)
  <2>. HIDE DEF R
  <2>. QED
    BY <1>4, <1>7
<1>9. h[0] = EmptySquare /\ \A k \in 1..n : h[k] = Step(h[k - 1], txs[k])
  <2>1. ASSUME NEW k \in 0..n
        PROVE  h[k] = IF k = 0 THEN EmptySquare ELSE Step(h[k - 1], txs[k])
    BY <1>8, <2>1, Zenon
  <2>2. 0 \in 0..n /\ \A k \in 1..n : k \in 0..n /\ k # 0
    BY <1>1
  <2>. QED
    BY <2>1, <2>2, Zenon
<1>10. DOMAIN h = 0..n
  BY <1>8, Zenon
<1>. HIDE DEF R
<1>. DEFINE G == {k \in 0..n : h[k] \in Squares}
<1>11. 0 \in G
  <2>1. 0 \in 0..n
    BY <1>1
  <2>. QED
    BY <1>2, <1>9, <2>1, Zenon
<1>12. ASSUME NEW k \in 1..n, k - 1 \in G PROVE k \in G
  BY <1>1, <1>3, <1>9, <1>12
<1>13. \A k \in 0..n : k \in G
  <2>. HIDE DEF G
  <2>. QED
    BY <1>1, <1>11, <1>12, RangeInduction
<1>14. h \in [0..n -> Squares]
  <2>1. h = [k \in 0..n |-> h[k]]
    BY <1>8, <1>10, Zenon DEF R
  <2>. QED
    BY <1>13, <2>1
<1>. QED
  BY <1>9, <1>14 DEF n, Step

\* The builders that NewBuilder goes through.
ConstructLoop(txs) ==
    CHOOSE f : f = [k \in 0..Len(txs) |->
                      IF k = 0 THEN EmptyBuilder
                      ELSE Appended(f[k - 1], txs[k])]

\* Its start and its steps.
LEMMA ConstructSteps ==
    ASSUME NEW txs \in Seq(Txs), NEW h, h = ConstructLoop(txs)
    PROVE  /\ h \in [0..Len(txs) -> GoodBuilders] /\ h[0] = EmptyBuilder
           /\ \A k \in 1..Len(txs) : h[k] = Appended(h[k - 1], txs[k])
<1>. DEFINE n == Len(txs)
            Step(x, tx) == Appended(x, tx)
            g == [t \in GoodBuilders \X (1..n) |-> Step(t[1], txs[t[2]])]
            R(f) == [k \in 0..n |-> IF k = 0 THEN EmptyBuilder ELSE Step(f[k - 1], txs[k])]
<1>1. n \in Nat /\ \A k \in 1..n : txs[k] \in Txs
  OBVIOUS
<1>2. EmptyBuilder \in GoodBuilders
  BY EmptyGood DEF Good, GoodBuilders
<1>3. ASSUME NEW x \in GoodBuilders, NEW tx \in Txs PROVE Step(x, tx) \in GoodBuilders
  BY <1>3, AppendedGood
<1>4. h = CHOOSE q : q = R(q)
  BY DEF ConstructLoop
<1>. HIDE DEF n, Step
<1>5. g \in [GoodBuilders \X (1..n) -> GoodBuilders]
  BY <1>1, <1>3
<1>6. PICK f \in [0..n -> GoodBuilders] : Recursive(f, n, EmptyBuilder, g)
  <2>. HIDE DEF g
  <2>. QED
    BY <1>1, <1>2, <1>5, RecursionExists
<1>7. f = R(f)
  <2>1. ASSUME NEW k \in 1..n PROVE f[k] = Step(f[k - 1], txs[k])
    <3>1. <<f[k - 1], k>> \in GoodBuilders \X (1..n)
      BY <1>1
    <3>2. f[k] = g[<<f[k - 1], k>>]
      BY <1>6 DEF Recursive
    <3>. QED
      BY <3>1, <3>2
  <2>2. f[0] = EmptyBuilder /\ DOMAIN f = 0..n
    BY <1>6 DEF Recursive
  <2>3. ASSUME NEW k \in 0..n PROVE f[k] = R(f)[k]
    BY <1>1, <2>1, <2>2
  <2>. QED
    BY <2>2, <2>3
<1>8. h = R(h)
  <2>. HIDE DEF R
  <2>. QED
    BY <1>4, <1>7
<1>9. h[0] = EmptyBuilder /\ \A k \in 1..n : h[k] = Step(h[k - 1], txs[k])
  <2>1. ASSUME NEW k \in 0..n
        PROVE  h[k] = IF k = 0 THEN EmptyBuilder ELSE Step(h[k - 1], txs[k])
    BY <1>8, <2>1, Zenon
  <2>2. 0 \in 0..n /\ \A k \in 1..n : k \in 0..n /\ k # 0
    BY <1>1
  <2>. QED
    BY <2>1, <2>2, Zenon
<1>10. DOMAIN h = 0..n
  BY <1>8, Zenon
<1>. HIDE DEF R
<1>. DEFINE G == {k \in 0..n : h[k] \in GoodBuilders}
<1>11. 0 \in G
  <2>1. 0 \in 0..n
    BY <1>1
  <2>. QED
    BY <1>2, <1>9, <2>1, Zenon
<1>12. ASSUME NEW k \in 1..n, k - 1 \in G PROVE k \in G
  BY <1>1, <1>3, <1>9, <1>12
<1>13. \A k \in 0..n : k \in G
  <2>. HIDE DEF G
  <2>. QED
    BY <1>1, <1>11, <1>12, RangeInduction
<1>14. h \in [0..n -> GoodBuilders]
  <2>1. h = [k \in 0..n |-> h[k]]
    BY <1>8, <1>10, Zenon DEF R
  <2>. QED
    BY <1>13, <2>1
<1>. QED
  BY <1>9, <1>14 DEF n, Step

\* The verdicts of the validators.
AnteLoop(s, txs) ==
    CHOOSE f : f = [k \in 0..Len(txs) |->
                      IF k = 0 THEN Verdict(TRUE, s)
                      ELSE IF f[k - 1].ok THEN AnteHandler(f[k - 1].state, txs[k]) ELSE f[k - 1]]

\* Its start and its steps.
LEMMA AnteSteps ==
    ASSUME NEW s \in AccStates, NEW txs \in Seq(Txs), NEW h, h = AnteLoop(s, txs)
    PROVE  /\ h \in [0..Len(txs) -> Verdicts] /\ h[0] = Verdict(TRUE, s)
           /\ \A k \in 1..Len(txs) : h[k] = IF h[k - 1].ok THEN AnteHandler(h[k - 1].state, txs[k]) ELSE h[k - 1]
<1>. DEFINE n == Len(txs)
            Step(x, tx) == IF x.ok THEN AnteHandler(x.state, tx) ELSE x
            g == [t \in Verdicts \X (1..n) |-> Step(t[1], txs[t[2]])]
            R(f) == [k \in 0..n |-> IF k = 0 THEN Verdict(TRUE, s) ELSE Step(f[k - 1], txs[k])]
<1>1. n \in Nat /\ \A k \in 1..n : txs[k] \in Txs
  OBVIOUS
<1>2. Verdict(TRUE, s) \in Verdicts
  BY DEF Verdict, Verdicts
<1>3. ASSUME NEW x \in Verdicts, NEW tx \in Txs PROVE Step(x, tx) \in Verdicts
  BY <1>3, AnteTypes DEF Verdicts
<1>4. h = CHOOSE q : q = R(q)
  BY DEF AnteLoop
<1>. HIDE DEF n, Step
<1>5. g \in [Verdicts \X (1..n) -> Verdicts]
  BY <1>1, <1>3
<1>6. PICK f \in [0..n -> Verdicts] : Recursive(f, n, Verdict(TRUE, s), g)
  <2>. HIDE DEF g
  <2>. QED
    BY <1>1, <1>2, <1>5, RecursionExists
<1>7. f = R(f)
  <2>1. ASSUME NEW k \in 1..n PROVE f[k] = Step(f[k - 1], txs[k])
    <3>1. <<f[k - 1], k>> \in Verdicts \X (1..n)
      BY <1>1
    <3>2. f[k] = g[<<f[k - 1], k>>]
      BY <1>6 DEF Recursive
    <3>. QED
      BY <3>1, <3>2
  <2>2. f[0] = Verdict(TRUE, s) /\ DOMAIN f = 0..n
    BY <1>6 DEF Recursive
  <2>3. ASSUME NEW k \in 0..n PROVE f[k] = R(f)[k]
    BY <1>1, <2>1, <2>2
  <2>. QED
    BY <2>2, <2>3
<1>8. h = R(h)
  <2>. HIDE DEF R
  <2>. QED
    BY <1>4, <1>7
<1>9. h[0] = Verdict(TRUE, s) /\ \A k \in 1..n : h[k] = Step(h[k - 1], txs[k])
  <2>1. ASSUME NEW k \in 0..n
        PROVE  h[k] = IF k = 0 THEN Verdict(TRUE, s) ELSE Step(h[k - 1], txs[k])
    BY <1>8, <2>1, Zenon
  <2>2. 0 \in 0..n /\ \A k \in 1..n : k \in 0..n /\ k # 0
    BY <1>1
  <2>. QED
    BY <2>1, <2>2, Zenon
<1>10. DOMAIN h = 0..n
  BY <1>8, Zenon
<1>. HIDE DEF R
<1>. DEFINE G == {k \in 0..n : h[k] \in Verdicts}
<1>11. 0 \in G
  <2>1. 0 \in 0..n
    BY <1>1
  <2>. QED
    BY <1>2, <1>9, <2>1, Zenon
<1>12. ASSUME NEW k \in 1..n, k - 1 \in G PROVE k \in G
  BY <1>1, <1>3, <1>9, <1>12
<1>13. \A k \in 0..n : k \in G
  <2>. HIDE DEF G
  <2>. QED
    BY <1>1, <1>11, <1>12, RangeInduction
<1>14. h \in [0..n -> Verdicts]
  <2>1. h = [k \in 0..n |-> h[k]]
    BY <1>8, <1>10, Zenon DEF R
  <2>. QED
    BY <1>13, <2>1
<1>. QED
  BY <1>9, <1>14 DEF n, Step

\* The states of FinalizeBlock.
FinalizeLoop(s, txs) ==
    CHOOSE f : f = [k \in 0..Len(txs) |->
                      IF k = 0 THEN s
                      ELSE Delivered(f[k - 1], txs[k])]

\* Its start and its steps.
LEMMA FinalizeSteps ==
    ASSUME NEW s \in AccStates, NEW txs \in Seq(Txs), NEW h, h = FinalizeLoop(s, txs)
    PROVE  /\ h \in [0..Len(txs) -> AccStates] /\ h[0] = s
           /\ \A k \in 1..Len(txs) : h[k] = Delivered(h[k - 1], txs[k])
<1>. DEFINE n == Len(txs)
            Step(x, tx) == Delivered(x, tx)
            g == [t \in AccStates \X (1..n) |-> Step(t[1], txs[t[2]])]
            R(f) == [k \in 0..n |-> IF k = 0 THEN s ELSE Step(f[k - 1], txs[k])]
<1>1. n \in Nat /\ \A k \in 1..n : txs[k] \in Txs
  OBVIOUS
<1>2. s \in AccStates
  OBVIOUS
<1>3. ASSUME NEW x \in AccStates, NEW tx \in Txs PROVE Step(x, tx) \in AccStates
  BY <1>3, DeliveredType
<1>4. h = CHOOSE q : q = R(q)
  BY DEF FinalizeLoop
<1>. HIDE DEF n, Step
<1>5. g \in [AccStates \X (1..n) -> AccStates]
  BY <1>1, <1>3
<1>6. PICK f \in [0..n -> AccStates] : Recursive(f, n, s, g)
  <2>. HIDE DEF g
  <2>. QED
    BY <1>1, <1>2, <1>5, RecursionExists
<1>7. f = R(f)
  <2>1. ASSUME NEW k \in 1..n PROVE f[k] = Step(f[k - 1], txs[k])
    <3>1. <<f[k - 1], k>> \in AccStates \X (1..n)
      BY <1>1
    <3>2. f[k] = g[<<f[k - 1], k>>]
      BY <1>6 DEF Recursive
    <3>. QED
      BY <3>1, <3>2
  <2>2. f[0] = s /\ DOMAIN f = 0..n
    BY <1>6 DEF Recursive
  <2>3. ASSUME NEW k \in 0..n PROVE f[k] = R(f)[k]
    BY <1>1, <2>1, <2>2
  <2>. QED
    BY <2>2, <2>3
<1>8. h = R(h)
  <2>. HIDE DEF R
  <2>. QED
    BY <1>4, <1>7
<1>9. h[0] = s /\ \A k \in 1..n : h[k] = Step(h[k - 1], txs[k])
  <2>1. ASSUME NEW k \in 0..n
        PROVE  h[k] = IF k = 0 THEN s ELSE Step(h[k - 1], txs[k])
    BY <1>8, <2>1, Zenon
  <2>2. 0 \in 0..n /\ \A k \in 1..n : k \in 0..n /\ k # 0
    BY <1>1
  <2>. QED
    BY <2>1, <2>2, Zenon
<1>10. DOMAIN h = 0..n
  BY <1>8, Zenon
<1>. HIDE DEF R
<1>. DEFINE G == {k \in 0..n : h[k] \in AccStates}
<1>11. 0 \in G
  <2>1. 0 \in 0..n
    BY <1>1
  <2>. QED
    BY <1>2, <1>9, <2>1, Zenon
<1>12. ASSUME NEW k \in 1..n, k - 1 \in G PROVE k \in G
  BY <1>1, <1>3, <1>9, <1>12
<1>13. \A k \in 0..n : k \in G
  <2>. HIDE DEF G
  <2>. QED
    BY <1>1, <1>11, <1>12, RangeInduction
<1>14. h \in [0..n -> AccStates]
  <2>1. h = [k \in 0..n |-> h[k]]
    BY <1>8, <1>10, Zenon DEF R
  <2>. QED
    BY <1>13, <2>1
<1>. QED
  BY <1>9, <1>14 DEF n, Step

\* The rechecks.
RecheckLoop(s, txs) ==
    CHOOSE f : f = [k \in 0..Len(txs) |->
                      IF k = 0 THEN [state |-> s, passed |-> <<>>]
                      ELSE Recheck(f[k - 1], txs[k])]

\* Its start and its steps.
LEMMA RecheckSteps ==
    ASSUME chain \in AccStates, NEW s \in AccStates, NEW txs \in Seq(Txs), NEW h, h = RecheckLoop(s, txs)
    PROVE  /\ h \in [0..Len(txs) -> Rechecking] /\ h[0] = [state |-> s, passed |-> <<>>]
           /\ \A k \in 1..Len(txs) : h[k] = Recheck(h[k - 1], txs[k])
<1>. DEFINE n == Len(txs)
            Step(x, tx) == Recheck(x, tx)
            g == [t \in Rechecking \X (1..n) |-> Step(t[1], txs[t[2]])]
            R(f) == [k \in 0..n |-> IF k = 0 THEN [state |-> s, passed |-> <<>>] ELSE Step(f[k - 1], txs[k])]
<1>1. n \in Nat /\ \A k \in 1..n : txs[k] \in Txs
  OBVIOUS
<1>2. [state |-> s, passed |-> <<>>] \in Rechecking
  BY DEF Rechecking
<1>3. ASSUME NEW x \in Rechecking, NEW tx \in Txs PROVE Step(x, tx) \in Rechecking
  BY <1>3, RecheckType
<1>4. h = CHOOSE q : q = R(q)
  BY DEF RecheckLoop
<1>. HIDE DEF n, Step
<1>5. g \in [Rechecking \X (1..n) -> Rechecking]
  BY <1>1, <1>3
<1>6. PICK f \in [0..n -> Rechecking] : Recursive(f, n, [state |-> s, passed |-> <<>>], g)
  <2>. HIDE DEF g
  <2>. QED
    BY <1>1, <1>2, <1>5, RecursionExists
<1>7. f = R(f)
  <2>1. ASSUME NEW k \in 1..n PROVE f[k] = Step(f[k - 1], txs[k])
    <3>1. <<f[k - 1], k>> \in Rechecking \X (1..n)
      BY <1>1
    <3>2. f[k] = g[<<f[k - 1], k>>]
      BY <1>6 DEF Recursive
    <3>. QED
      BY <3>1, <3>2
  <2>2. f[0] = [state |-> s, passed |-> <<>>] /\ DOMAIN f = 0..n
    BY <1>6 DEF Recursive
  <2>3. ASSUME NEW k \in 0..n PROVE f[k] = R(f)[k]
    BY <1>1, <2>1, <2>2
  <2>. QED
    BY <2>2, <2>3
<1>8. h = R(h)
  <2>. HIDE DEF R
  <2>. QED
    BY <1>4, <1>7
<1>9. h[0] = [state |-> s, passed |-> <<>>] /\ \A k \in 1..n : h[k] = Step(h[k - 1], txs[k])
  <2>1. ASSUME NEW k \in 0..n
        PROVE  h[k] = IF k = 0 THEN [state |-> s, passed |-> <<>>] ELSE Step(h[k - 1], txs[k])
    BY <1>8, <2>1, Zenon
  <2>2. 0 \in 0..n /\ \A k \in 1..n : k \in 0..n /\ k # 0
    BY <1>1
  <2>. QED
    BY <2>1, <2>2, Zenon
<1>10. DOMAIN h = 0..n
  BY <1>8, Zenon
<1>. HIDE DEF R
<1>. DEFINE G == {k \in 0..n : h[k] \in Rechecking}
<1>11. 0 \in G
  <2>1. 0 \in 0..n
    BY <1>1
  <2>. QED
    BY <1>2, <1>9, <2>1, Zenon
<1>12. ASSUME NEW k \in 1..n, k - 1 \in G PROVE k \in G
  BY <1>1, <1>3, <1>9, <1>12
<1>13. \A k \in 0..n : k \in G
  <2>. HIDE DEF G
  <2>. QED
    BY <1>1, <1>11, <1>12, RangeInduction
<1>14. h \in [0..n -> Rechecking]
  <2>1. h = [k \in 0..n |-> h[k]]
    BY <1>8, <1>10, Zenon DEF R
  <2>. QED
    BY <1>13, <2>1
<1>. QED
  BY <1>9, <1>14 DEF n, Step

\* What a commit leaves in the mempool.
RemainLoop(txs, included) ==
    CHOOSE f : f = [k \in 0..Len(txs) |->
                      IF k = 0 THEN <<>>
                      ELSE IF txs[k] \in included THEN f[k - 1] ELSE Append(f[k - 1], txs[k])]

\* Its start and its steps.
LEMMA RemainSteps ==
    ASSUME NEW included, NEW txs \in Seq(Txs), NEW h, h = RemainLoop(txs, included)
    PROVE  /\ h \in [0..Len(txs) -> Seq(Txs)] /\ h[0] = <<>>
           /\ \A k \in 1..Len(txs) : h[k] = IF txs[k] \in included THEN h[k - 1] ELSE Append(h[k - 1], txs[k])
<1>. DEFINE n == Len(txs)
            Step(x, tx) == IF tx \in included THEN x ELSE Append(x, tx)
            g == [t \in Seq(Txs) \X (1..n) |-> Step(t[1], txs[t[2]])]
            R(f) == [k \in 0..n |-> IF k = 0 THEN <<>> ELSE Step(f[k - 1], txs[k])]
<1>1. n \in Nat /\ \A k \in 1..n : txs[k] \in Txs
  OBVIOUS
<1>2. <<>> \in Seq(Txs)
  OBVIOUS
<1>3. ASSUME NEW x \in Seq(Txs), NEW tx \in Txs PROVE Step(x, tx) \in Seq(Txs)
  BY <1>3
<1>4. h = CHOOSE q : q = R(q)
  BY DEF RemainLoop
<1>. HIDE DEF n, Step
<1>5. g \in [Seq(Txs) \X (1..n) -> Seq(Txs)]
  BY <1>1, <1>3
<1>6. PICK f \in [0..n -> Seq(Txs)] : Recursive(f, n, <<>>, g)
  <2>. HIDE DEF g
  <2>. QED
    BY <1>1, <1>2, <1>5, RecursionExists
<1>7. f = R(f)
  <2>1. ASSUME NEW k \in 1..n PROVE f[k] = Step(f[k - 1], txs[k])
    <3>1. <<f[k - 1], k>> \in Seq(Txs) \X (1..n)
      BY <1>1
    <3>2. f[k] = g[<<f[k - 1], k>>]
      BY <1>6 DEF Recursive
    <3>. QED
      BY <3>1, <3>2
  <2>2. f[0] = <<>> /\ DOMAIN f = 0..n
    BY <1>6 DEF Recursive
  <2>3. ASSUME NEW k \in 0..n PROVE f[k] = R(f)[k]
    BY <1>1, <2>1, <2>2
  <2>. QED
    BY <2>2, <2>3
<1>8. h = R(h)
  <2>. HIDE DEF R
  <2>. QED
    BY <1>4, <1>7
<1>9. h[0] = <<>> /\ \A k \in 1..n : h[k] = Step(h[k - 1], txs[k])
  <2>1. ASSUME NEW k \in 0..n
        PROVE  h[k] = IF k = 0 THEN <<>> ELSE Step(h[k - 1], txs[k])
    BY <1>8, <2>1, Zenon
  <2>2. 0 \in 0..n /\ \A k \in 1..n : k \in 0..n /\ k # 0
    BY <1>1
  <2>. QED
    BY <2>1, <2>2, Zenon
<1>10. DOMAIN h = 0..n
  BY <1>8, Zenon
<1>. HIDE DEF R
<1>. DEFINE G == {k \in 0..n : h[k] \in Seq(Txs)}
<1>11. 0 \in G
  <2>1. 0 \in 0..n
    BY <1>1
  <2>. QED
    BY <1>2, <1>9, <2>1, Zenon
<1>12. ASSUME NEW k \in 1..n, k - 1 \in G PROVE k \in G
  <2>1. PICK x \in Seq(Txs), tx \in Txs : x = h[k - 1] /\ tx = txs[k]
    BY <1>1, <1>12
  <2>2. h[k] = Step(x, tx) /\ k \in 0..n
    BY <1>1, <1>9, <2>1
  <2>3. Step(x, tx) \in Seq(Txs)
    BY <1>3
  <2>. QED
    BY <2>2, <2>3
<1>13. \A k \in 0..n : k \in G
  <2>. HIDE DEF G
  <2>. QED
    BY <1>1, <1>11, <1>12, RangeInduction
<1>14. h \in [0..n -> Seq(Txs)]
  <2>1. h = [k \in 0..n |-> h[k]]
    BY <1>8, <1>10, Zenon DEF R
  <2>. QED
    BY <1>13, <2>1
<1>. QED
  BY <1>9, <1>14 DEF n, Step

-----------------------------------------------------------------------------
(* The ante handler and sequence numbers *)

Same(tx, a, m) == tx.acc = a /\ tx.seq = m

\* Every account's transactions have increasing sequence numbers,
Ascending(txs) ==
    \A i, j \in DOMAIN txs :
       i < j /\ txs[i].acc = txs[j].acc => txs[i].seq < txs[j].seq

\* from that of the state c on without a hole.
Consecutive(c, txs) ==
    /\ \A i \in DOMAIN txs : c.seq[txs[i].acc] <= txs[i].seq
    /\ Ascending(txs)
    /\ \A j \in DOMAIN txs : \A m \in Nat :
          c.seq[txs[j].acc] <= m /\ m < txs[j].seq =>
             \E i \in DOMAIN txs : Same(txs[i], txs[j].acc, m)

\* The sequence numbers of s are what the transactions lead to from c.
Reached(c, s, txs) ==
    /\ \A a \in Accounts : c.seq[a] <= s.seq[a]
    /\ \A i \in DOMAIN txs : txs[i].seq < s.seq[txs[i].acc]
    /\ \A a \in Accounts : \A m \in Nat :
          c.seq[a] <= m /\ m < s.seq[a] => \E i \in DOMAIN txs : Same(txs[i], a, m)

\* Fee tokens that a transaction pays.
Charge(tx) == IF PaysFeeToken(tx) THEN Fee ELSE 0

\* The conditions of the ante handler up to the sequence number.
Countable(s, tx) == AcceptedFee(tx) /\ HasFunds(s, tx) /\ s.seq[tx.acc] = tx.seq

\* What it writes for a transaction that it counts, and for another.
WritesAll(s, tx, r) ==
    /\ r.seq = [s.seq EXCEPT ![tx.acc] = tx.seq + 1]
    /\ r.funds = [s.funds EXCEPT ![tx.acc] = @ - Charge(tx)]

WritesLess(s, r) == r.seq = s.seq /\ \A a \in Accounts : r.funds[a] <= s.funds[a]

\* The deduction of the fee.
LEMMA AfterFeeFacts ==
    ASSUME NEW s \in AccStates, NEW tx \in Txs, NEW r, r = AfterFee(s, tx)
    PROVE  /\ r.seq = s.seq /\ r.funds = [s.funds EXCEPT ![tx.acc] = @ - Charge(tx)]
           /\ \A a \in Accounts : r.funds[a] <= s.funds[a]
<1>1. Fee \in Nat /\ tx.acc \in Accounts
  BY ProposalAssumption, ShapeFacts
<1>2. s.seq \in [Accounts -> Nat] /\ s.funds \in [Accounts -> Int]
  BY DEF AccStates
<1>3. CASE PaysFeeToken(tx)
  <2>1. r.seq = s.seq /\ r.funds = [s.funds EXCEPT ![tx.acc] = @ - Fee]
    BY <1>3 DEF AfterFee, Paid, AccState
  <2>2. \A a \in Accounts : r.funds[a] <= s.funds[a]
    BY <1>1, <1>2, <2>1
  <2>. QED
    BY <1>3, <2>1, <2>2 DEF Charge
<1>4. CASE ~PaysFeeToken(tx)
  <2>1. r = s /\ Charge(tx) = 0
    BY <1>4 DEF AfterFee, Charge
  <2>2. s.funds = [s.funds EXCEPT ![tx.acc] = @ - 0]
    BY <1>1, <1>2
  <2>3. \A a \in Accounts : s.funds[a] <= s.funds[a]
    BY <1>2
  <2>. QED
    BY <2>1, <2>2, <2>3
<1>. QED
  BY <1>3, <1>4

\* When the ante handler counts and accepts, and what it writes.
LEMMA AnteFacts ==
    ASSUME NEW s \in AccStates, NEW tx \in Txs, NEW v, v = AnteHandler(s, tx)
    PROVE  /\ Countable(s, tx) => /\ WritesAll(s, tx, v.state)
                                  /\ v.state.seq # s.seq
                                  /\ v.ok = TRUE <=> ~BidRefused(v.state, tx)
           /\ ~Countable(s, tx) => v.ok = FALSE /\ WritesLess(s, v.state)
<1>1. tx.acc \in Accounts /\ tx.seq \in Nat
  BY ShapeFacts
<1>2. s.seq \in [Accounts -> Nat] /\ s.funds \in [Accounts -> Int]
  BY DEF AccStates
<1>3. PICK r : r = AfterFee(s, tx)
  OBVIOUS
<1>4. /\ r.seq = s.seq /\ r.funds = [s.funds EXCEPT ![tx.acc] = @ - Charge(tx)]
      /\ \A a \in Accounts : r.funds[a] <= s.funds[a]
  BY <1>3, AfterFeeFacts
<1>5. CASE ~(AcceptedFee(tx) /\ HasFunds(s, tx))
  <2>1. v = Verdict(FALSE, s)
    BY <1>5 DEF AnteHandler
  <2>2. v.ok = FALSE /\ v.state = s
    BY <2>1 DEF Verdict
  <2>3. \A a \in Accounts : s.funds[a] <= s.funds[a]
    BY <1>2
  <2>. QED
    BY <1>5, <2>2, <2>3 DEF Countable, WritesLess
<1>6. CASE AcceptedFee(tx) /\ HasFunds(s, tx)
  <2>1. v = BidChecked(SequenceChecked(r, tx), tx)
    BY <1>3, <1>6 DEF AnteHandler
  <2>2. CASE s.seq[tx.acc] = tx.seq
    <3>1. SequenceChecked(r, tx) = Verdict(TRUE, Signed(r, tx))
      BY <1>4, <2>2 DEF SequenceChecked
    <3>2. PICK w : w = Signed(r, tx)
      OBVIOUS
    <3>3. w.seq = [s.seq EXCEPT ![tx.acc] = @ + 1] /\ w.funds = r.funds
      BY <1>4, <3>2 DEF Signed, AccState
    <3>4. v = IF BidRefused(w, tx) THEN Verdict(FALSE, w) ELSE Verdict(TRUE, w)
      BY <2>1, <3>1, <3>2 DEF BidChecked, Verdict
    <3>5. v.state = w /\ (v.ok = TRUE <=> ~BidRefused(w, tx))
      BY <3>4 DEF Verdict
    <3>6. w.seq = [s.seq EXCEPT ![tx.acc] = tx.seq + 1]
      BY <2>2, <3>3
    <3>7. w.seq # s.seq
      <4>1. w.seq[tx.acc] = tx.seq + 1 /\ s.seq[tx.acc] = tx.seq
        BY <1>1, <1>2, <2>2, <3>6
      <4>2. tx.seq + 1 # tx.seq
        BY <1>1
      <4>. QED
        BY <4>1, <4>2
    <3>8. WritesAll(s, tx, w)
      BY <1>4, <3>3, <3>6 DEF WritesAll
    <3>. QED
      BY <1>6, <2>2, <3>5, <3>7, <3>8 DEF Countable
  <2>3. CASE s.seq[tx.acc] # tx.seq
    <3>1. SequenceChecked(r, tx) = Verdict(FALSE, r)
      BY <1>4, <2>3 DEF SequenceChecked
    <3>2. v = Verdict(FALSE, r)
      BY <2>1, <3>1 DEF BidChecked, Verdict
    <3>3. v.ok = FALSE /\ v.state = r
      BY <3>2 DEF Verdict
    <3>. QED
      BY <1>4, <2>3, <3>3 DEF Countable, WritesLess
  <2>. QED
    BY <2>2, <2>3
<1>. QED
  BY <1>5, <1>6

\* A list and one more.
LEMMA OneMore ==
    ASSUME NEW txs \in Seq(Txs), NEW tx \in Txs, NEW q, q = Append(txs, tx)
    PROVE  /\ Len(txs) \in Nat /\ Len(q) = Len(txs) + 1 /\ q \in Seq(Txs)
           /\ DOMAIN txs = 1..Len(txs) /\ DOMAIN q = 1..(Len(txs) + 1)
           /\ \A i \in DOMAIN txs : i \in DOMAIN q /\ q[i] = txs[i] /\ txs[i] \in Txs
           /\ \A i \in DOMAIN q : i \in DOMAIN txs \/ i = Len(txs) + 1
           /\ q[Len(txs) + 1] = tx
OBVIOUS

\* A transaction that is not counted changes funds only.
LEMMA RefusedReached ==
    ASSUME NEW c \in AccStates, NEW s \in AccStates, NEW txs \in Seq(Txs), NEW tx \in Txs,
           NEW v, v = AnteHandler(s, tx), ~Countable(s, tx), Reached(c, s, txs)
    PROVE  Reached(c, v.state, txs)
<1>1. v.state.seq = s.seq
  BY AnteFacts DEF WritesLess
<1>. QED
  BY <1>1 DEF Reached

\* A transaction that is counted is the next one of its account.
LEMMA CountedReached ==
    ASSUME NEW c \in AccStates, NEW s \in AccStates, NEW txs \in Seq(Txs), NEW tx \in Txs,
           NEW v, v = AnteHandler(s, tx), Countable(s, tx), Reached(c, s, txs),
           Consecutive(c, txs), NEW q, q = Append(txs, tx)
    PROVE  Reached(c, v.state, q) /\ Consecutive(c, q)
<1>1. PICK a \in Accounts, m \in Nat : a = tx.acc /\ m = tx.seq
  BY DEF Txs
<1>2. s.seq[a] = m /\ v.state.seq = [s.seq EXCEPT ![a] = m + 1]
  <2>1. s.seq[tx.acc] = tx.seq /\ WritesAll(s, tx, v.state)
    <3>1. WritesAll(s, tx, v.state)
      BY AnteFacts
    <3>. QED
      BY <3>1 DEF Countable
  <2>. QED
    BY <1>1, <2>1, Zenon DEF WritesAll
<1>3. PICK r \in AccStates : r = v.state
  BY AnteTypes DEF Verdicts
<1>4. s.seq \in [Accounts -> Nat] /\ c.seq \in [Accounts -> Nat]
  BY DEF AccStates
<1>5. r.seq[a] = m + 1 /\ \A d \in Accounts : d # a => r.seq[d] = s.seq[d]
  BY <1>2, <1>3, <1>4
<1>6. PICK n \in Nat : n = Len(txs) + 1
  BY OneMore
<1>7. /\ n \in DOMAIN q /\ q[n] = tx /\ DOMAIN txs \subseteq Nat /\ DOMAIN q \subseteq Nat
      /\ \A i \in DOMAIN txs : i \in DOMAIN q /\ q[i] = txs[i] /\ txs[i] \in Txs /\ i < n
      /\ \A i \in DOMAIN q : i \in DOMAIN txs \/ i = n
      /\ \A i \in DOMAIN q : i <= n
  BY <1>6, OneMore
<1>8. c.seq[a] <= m /\ c.seq[a] \in Nat
  BY <1>2, <1>4 DEF Reached
<1>12. \A i \in DOMAIN txs : txs[i].acc \in Accounts /\ txs[i].seq \in Nat
  BY <1>7 DEF Txs
<1>13. Reached(c, r, q)
  <2>1. ASSUME NEW d \in Accounts PROVE c.seq[d] <= r.seq[d]
    <3>1. CASE d = a
      BY <1>5, <1>8, <3>1
    <3>2. CASE d # a
      BY <1>5, <3>2 DEF Reached
    <3>. QED
      BY <3>1, <3>2
  <2>2. ASSUME NEW i \in DOMAIN q PROVE q[i].seq < r.seq[q[i].acc]
    <3>1. CASE i = n
      BY <1>1, <1>5, <1>7, <3>1
    <3>2. CASE i \in DOMAIN txs
      <4>1. txs[i].seq < s.seq[txs[i].acc]
        BY <3>2 DEF Reached
      <4>2. s.seq[txs[i].acc] <= r.seq[txs[i].acc]
        <5>1. PICK d \in Accounts : d = txs[i].acc
          BY <1>12, <3>2
        <5>2. s.seq[d] \in Nat
          BY <1>4
        <5>3. d = a => s.seq[d] <= r.seq[d]
          BY <1>2, <1>5
        <5>4. d # a => s.seq[d] <= r.seq[d]
          BY <1>5, <5>2
        <5>. QED
          BY <5>1, <5>3, <5>4
      <4>3. s.seq[txs[i].acc] \in Nat /\ r.seq[txs[i].acc] \in Nat
        BY <1>12, <3>2 DEF AccStates
      <4>4. txs[i].seq < r.seq[txs[i].acc]
        BY <1>12, <3>2, <4>1, <4>2, <4>3
      <4>. QED
        BY <1>7, <3>2, <4>4
    <3>. QED
      BY <1>7, <3>1, <3>2
  <2>3. ASSUME NEW d \in Accounts, NEW l \in Nat, c.seq[d] <= l, l < r.seq[d]
        PROVE  \E i \in DOMAIN q : Same(q[i], d, l)
    <3>1. CASE d = a /\ l = m
      BY <1>1, <1>7, <3>1 DEF Same
    <3>2. CASE ~(d = a /\ l = m)
      <4>1. l < s.seq[d]
        BY <1>2, <1>5, <2>3, <3>2
      <4>2. PICK i \in DOMAIN txs : Same(txs[i], d, l)
        BY <2>3, <4>1 DEF Reached
      <4>. QED
        BY <1>7, <4>2
    <3>. QED
      BY <3>1, <3>2
  <2>. QED
    BY <2>1, <2>2, <2>3 DEF Reached
<1>14. Consecutive(c, q)
  <2>1. ASSUME NEW i \in DOMAIN q PROVE c.seq[q[i].acc] <= q[i].seq
    <3>1. CASE i = n
      BY <1>1, <1>7, <1>8, <3>1
    <3>2. CASE i \in DOMAIN txs
      BY <1>7, <3>2 DEF Consecutive
    <3>. QED
      BY <1>7, <3>1, <3>2
  <2>2. ASSUME NEW i \in DOMAIN q, NEW j \in DOMAIN q, i < j, q[i].acc = q[j].acc
        PROVE  q[i].seq < q[j].seq
    <3>1. i \in DOMAIN txs
      BY <1>7, <2>2
    <3>2. CASE j = n
      BY <1>1, <1>2, <1>7, <2>2, <3>1, <3>2 DEF Reached
    <3>3. CASE j \in DOMAIN txs
      BY <1>7, <2>2, <3>1, <3>3 DEF Consecutive, Ascending
    <3>. QED
      BY <1>7, <3>2, <3>3
  <2>3. ASSUME NEW j \in DOMAIN q, NEW l \in Nat, c.seq[q[j].acc] <= l, l < q[j].seq
        PROVE  \E i \in DOMAIN q : Same(q[i], q[j].acc, l)
    <3>1. PICK i \in DOMAIN txs : Same(txs[i], q[j].acc, l)
      <4>1. CASE j = n
        BY <1>1, <1>2, <1>7, <2>3, <4>1 DEF Reached
      <4>2. CASE j \in DOMAIN txs
        BY <1>7, <2>3, <4>2 DEF Consecutive
      <4>. QED
        BY <1>7, <4>1, <4>2
    <3>. QED
      BY <1>7, <3>1
  <2>. QED
    BY <2>1, <2>2, <2>3 DEF Consecutive, Ascending
<1>. QED
  BY <1>3, <1>13, <1>14

-----------------------------------------------------------------------------
(* The ante handler and funds *)

\* Fee tokens of each account at each of its sequence numbers.
Purses == [Accounts -> [Nat -> Int]]

\* The purses that the fees of the transactions lead to from the state c; they
\* have the fee of each.
Covers(c, g, txs) ==
    /\ \A a \in Accounts : g[a][c.seq[a]] = c.funds[a]
    /\ \A i \in DOMAIN txs :
          /\ AcceptedFee(txs[i])
          /\ PaysFeeToken(txs[i]) => g[txs[i].acc][txs[i].seq] >= Fee
          /\ g[txs[i].acc][txs[i].seq + 1] = g[txs[i].acc][txs[i].seq] - Charge(txs[i])

\* They have the bids, too.
CoversBids(g, txs) ==
    \A i \in DOMAIN txs :
       IsBid(txs[i]) => g[txs[i].acc][txs[i].seq + 1] >= txs[i].shape.spend

\* The funds of s are at most what is in the purses, or just that.
Beneath(g, s) == \A a \in Accounts : s.funds[a] <= g[a][s.seq[a]]
Exact(g, s) == \A a \in Accounts : s.funds[a] = g[a][s.seq[a]]

\* Every transaction of p is one of q.
Within(p, q) == \A i \in DOMAIN p : \E j \in DOMAIN q : p[i] = q[j]

\* The fees of the transactions and the bids of p are covered on the way to s.
Funded(c, s, txs, p) ==
    \E g \in Purses : Covers(c, g, txs) /\ CoversBids(g, p) /\ Beneath(g, s)

\* The purses after one more transaction.
LEMMA CountedCovered ==
    ASSUME NEW c \in AccStates, NEW s \in AccStates, NEW txs \in Seq(Txs), NEW p \in Seq(Txs),
           NEW tx \in Txs, NEW v, v = AnteHandler(s, tx), Countable(s, tx), Reached(c, s, txs),
           NEW q, q = Append(txs, tx), Within(p, txs), Funded(c, s, txs, p)
    PROVE  /\ Funded(c, v.state, q, p)
           /\ v.ok = TRUE => Funded(c, v.state, q, Append(p, tx))
<1>. PICK g \in Purses : Covers(c, g, txs) /\ CoversBids(g, p) /\ Beneath(g, s)
  BY DEF Funded
<1>1. PICK a \in Accounts, m \in Nat : a = tx.acc /\ m = tx.seq
  BY DEF Txs
<1>2. /\ AcceptedFee(tx) /\ HasFunds(s, tx) /\ s.seq[a] = m
      /\ v.state.seq = [s.seq EXCEPT ![a] = m + 1]
      /\ v.state.funds = [s.funds EXCEPT ![a] = @ - Charge(tx)]
      /\ v.ok = TRUE => ~BidRefused(v.state, tx)
  <2>1. /\ AcceptedFee(tx) /\ HasFunds(s, tx) /\ s.seq[tx.acc] = tx.seq
        /\ v.state.seq = [s.seq EXCEPT ![tx.acc] = tx.seq + 1]
        /\ v.state.funds = [s.funds EXCEPT ![tx.acc] = @ - Charge(tx)]
        /\ v.ok = TRUE => ~BidRefused(v.state, tx)
    <3>1. WritesAll(s, tx, v.state) /\ (v.ok = TRUE => ~BidRefused(v.state, tx))
      BY AnteFacts
    <3>. QED
      BY <3>1, Zenon DEF Countable, WritesAll
  <2>. QED
    BY <1>1, <2>1, Zenon
<1>3. PICK r \in AccStates : r = v.state
  BY AnteTypes DEF Verdicts
<1>4. /\ s.seq \in [Accounts -> Nat] /\ s.funds \in [Accounts -> Int]
      /\ c.seq \in [Accounts -> Nat] /\ c.funds \in [Accounts -> Int]
  BY DEF AccStates
<1>5. PICK o \in Nat : o = Charge(tx)
  BY ProposalAssumption DEF Charge
<1>6. /\ r.seq[a] = m + 1 /\ r.funds[a] = s.funds[a] - o
      /\ \A d \in Accounts : d # a => r.seq[d] = s.seq[d] /\ r.funds[d] = s.funds[d]
  BY <1>2, <1>3, <1>4, <1>5
<1>7. \A d \in Accounts : \A l \in Nat : g[d][l] \in Int
  BY DEF Purses
<1>8. PICK x, y \in Int : x = g[a][m] /\ y = s.funds[a] /\ y <= x
  BY <1>2, <1>4, <1>7 DEF Beneath
<1>. DEFINE e == [d \in Accounts |-> [l \in Nat |-> IF d = a /\ l = m + 1 THEN x - o ELSE g[d][l]]]
<1>9. e \in Purses
  <2>1. x - o \in Int
    BY <1>8, <1>5
  <2>2. ASSUME NEW d \in Accounts
        PROVE  [l \in Nat |-> IF d = a /\ l = m + 1 THEN x - o ELSE g[d][l]] \in [Nat -> Int]
    BY <1>7, <2>1
  <2>. QED
    BY <2>2 DEF Purses
<1>10. e[a][m + 1] = x - o /\ e[a][m] = x
  <2>1. m + 1 \in Nat /\ m # m + 1
    OBVIOUS
  <2>. QED
    BY <1>8, <2>1
<1>11. ASSUME NEW d \in Accounts, NEW l \in Nat, l <= s.seq[d] PROVE e[d][l] = g[d][l]
  <2>1. ~(d = a /\ l = m + 1)
    BY <1>2, <1>11
  <2>. QED
    BY <2>1
<1>. HIDE DEF e
<1>12. \A i \in DOMAIN txs : /\ txs[i].acc \in Accounts /\ txs[i].seq \in Nat
                             /\ txs[i].seq < s.seq[txs[i].acc]
  <2>1. \A i \in DOMAIN txs : txs[i] \in Txs
    OBVIOUS
  <2>. QED
    BY <2>1 DEF Txs, Reached
<1>13. ASSUME NEW i \in DOMAIN txs
       PROVE  /\ e[txs[i].acc][txs[i].seq] = g[txs[i].acc][txs[i].seq]
              /\ e[txs[i].acc][txs[i].seq + 1] = g[txs[i].acc][txs[i].seq + 1]
  <2>1. PICK d \in Accounts, l \in Nat : d = txs[i].acc /\ l = txs[i].seq /\ l < s.seq[d]
    BY <1>12
  <2>2. s.seq[d] \in Nat
    BY <1>4
  <2>3. l + 1 \in Nat /\ l <= s.seq[d] /\ l + 1 <= s.seq[d]
    BY <2>1, <2>2
  <2>. QED
    BY <1>11, <2>1, <2>3
<1>14. Covers(c, e, q)
  <2>1. ASSUME NEW d \in Accounts PROVE e[d][c.seq[d]] = c.funds[d]
    <3>1. c.seq[d] \in Nat /\ c.seq[d] <= s.seq[d]
      BY <1>4 DEF Reached
    <3>2. e[d][c.seq[d]] = g[d][c.seq[d]]
      BY <1>11, <3>1
    <3>. QED
      BY <3>2 DEF Covers
  <2>2. ASSUME NEW i \in DOMAIN q
        PROVE  /\ AcceptedFee(q[i])
               /\ PaysFeeToken(q[i]) => e[q[i].acc][q[i].seq] >= Fee
               /\ e[q[i].acc][q[i].seq + 1] = e[q[i].acc][q[i].seq] - Charge(q[i])
    <3>1. CASE i \in DOMAIN txs
      <4>1. q[i] = txs[i]
        BY <3>1, OneMore
      <4>2. /\ AcceptedFee(txs[i])
            /\ PaysFeeToken(txs[i]) => g[txs[i].acc][txs[i].seq] >= Fee
            /\ g[txs[i].acc][txs[i].seq + 1] = g[txs[i].acc][txs[i].seq] - Charge(txs[i])
        BY <3>1 DEF Covers
      <4>. QED
        BY <1>13, <3>1, <4>1, <4>2
    <3>2. CASE i \notin DOMAIN txs
      <4>1. q[i] = tx
        BY <3>2, OneMore
      <4>2. PaysFeeToken(tx) => e[a][m] >= Fee
        <5>1. PaysFeeToken(tx) => y >= Fee
          BY <1>1, <1>2, <1>8 DEF HasFunds
        <5>2. Fee \in Nat
          BY ProposalAssumption
        <5>3. PaysFeeToken(tx) => x >= Fee
          BY <1>8, <5>1, <5>2
        <5>. QED
          BY <1>10, <5>3
      <4>3. e[a][m + 1] = e[a][m] - Charge(tx)
        BY <1>5, <1>10
      <4>. QED
        BY <1>1, <1>2, <4>1, <4>2, <4>3
    <3>. QED
      BY <3>1, <3>2
  <2>. QED
    BY <2>1, <2>2 DEF Covers
<1>15. CoversBids(e, p)
  <2>1. ASSUME NEW i \in DOMAIN p, IsBid(p[i])
        PROVE  e[p[i].acc][p[i].seq + 1] >= p[i].shape.spend
    <3>1. PICK j \in DOMAIN txs : p[i] = txs[j]
      BY DEF Within
    <3>2. g[p[i].acc][p[i].seq + 1] >= p[i].shape.spend
      BY <2>1 DEF CoversBids
    <3>. QED
      BY <1>13, <3>1, <3>2
  <2>. QED
    BY <2>1 DEF CoversBids
<1>16. Beneath(e, r)
  <2>1. ASSUME NEW d \in Accounts PROVE r.funds[d] <= e[d][r.seq[d]]
    <3>1. CASE d = a
      <4>1. y - o <= x - o
        BY <1>8, <1>5
      <4>. QED
        BY <1>6, <1>8, <1>10, <3>1, <4>1
    <3>2. CASE d # a
      <4>1. s.seq[d] \in Nat /\ s.seq[d] <= s.seq[d]
        BY <1>4
      <4>2. e[d][s.seq[d]] = g[d][s.seq[d]]
        BY <1>11, <4>1
      <4>3. s.funds[d] <= g[d][s.seq[d]]
        BY DEF Beneath
      <4>. QED
        BY <1>6, <3>2, <4>2, <4>3
    <3>. QED
      BY <3>1, <3>2
  <2>. QED
    BY <2>1 DEF Beneath
<1>17. ASSUME v.ok = TRUE PROVE CoversBids(e, Append(p, tx))
  <2>1. PICK w : w = Append(p, tx)
    OBVIOUS
  <2>2. ASSUME NEW i \in DOMAIN w, IsBid(w[i])
        PROVE  e[w[i].acc][w[i].seq + 1] >= w[i].shape.spend
    <3>1. CASE i \in DOMAIN p
      <4>1. w[i] = p[i]
        BY <2>1, <3>1, OneMore
      <4>. QED
        BY <1>15, <2>2, <3>1, <4>1 DEF CoversBids
    <3>2. CASE i \notin DOMAIN p
      <4>1. w[i] = tx
        BY <2>1, <3>2, OneMore
      <4>2. PICK b \in Nat : b = tx.shape.spend
        BY ShapeFacts
      <4>3. ~(r.funds[a] < b)
        BY <1>1, <1>2, <1>3, <1>17, <2>2, <4>1, <4>2 DEF BidRefused
      <4>4. PICK z \in Int : z = r.funds[a]
        BY <1>6, <1>4, <1>5
      <4>5. z = y - o /\ ~(z < b)
        BY <1>6, <1>8, <4>3, <4>4
      <4>6. x - o >= b
        BY <1>5, <1>8, <4>5
      <4>. QED
        BY <1>1, <1>10, <4>1, <4>2, <4>6
    <3>. QED
      BY <3>1, <3>2
  <2>. QED
    BY <2>1, <2>2 DEF CoversBids
<1>. QED
  BY <1>3, <1>9, <1>14, <1>15, <1>16, <1>17 DEF Funded

\* A transaction that is not counted leaves less.
LEMMA RefusedBeneath ==
    ASSUME NEW s \in AccStates, NEW tx \in Txs, NEW v, v = AnteHandler(s, tx),
           ~Countable(s, tx), NEW g \in Purses, Beneath(g, s)
    PROVE  Beneath(g, v.state)
<1>1. v.state.seq = s.seq /\ \A a \in Accounts : v.state.funds[a] <= s.funds[a]
  BY AnteFacts DEF WritesLess
<1>2. PICK r \in AccStates : r = v.state
  BY AnteTypes DEF Verdicts
<1>3. ASSUME NEW a \in Accounts PROVE r.funds[a] <= g[a][r.seq[a]]
  <2>1. r.funds[a] \in Int /\ s.funds[a] \in Int /\ s.seq[a] \in Nat
    BY DEF AccStates
  <2>2. g[a][s.seq[a]] \in Int
    BY <2>1 DEF Purses
  <2>3. r.funds[a] <= s.funds[a] /\ s.funds[a] <= g[a][s.seq[a]] /\ r.seq[a] = s.seq[a]
    BY <1>1, <1>2 DEF Beneath
  <2>. QED
    BY <2>1, <2>2, <2>3
<1>. QED
  BY <1>2, <1>3 DEF Beneath

\* Nothing has passed yet.
LEMMA NothingReached ==
    ASSUME NEW c \in AccStates
    PROVE  /\ Reached(c, c, <<>>) /\ Consecutive(c, <<>>) /\ Ascending(<<>>)
           /\ \E g \in Purses : Covers(c, g, <<>>) /\ CoversBids(g, <<>>) /\ Beneath(g, c)
<1>1. c.seq \in [Accounts -> Nat] /\ c.funds \in [Accounts -> Int]
  BY DEF AccStates
<1>2. \A a \in Accounts : c.seq[a] \in Nat /\ c.funds[a] \in Int
  BY <1>1
<1>3. \A a \in Accounts : c.seq[a] <= c.seq[a] /\ c.funds[a] <= c.funds[a]
  BY <1>2
<1>4. ASSUME NEW a \in Accounts, NEW m \in Nat, c.seq[a] <= m, m < c.seq[a] PROVE FALSE
  BY <1>2, <1>4
<1>5. DOMAIN <<>> = {}
  OBVIOUS
<1>6. PICK g : g = [a \in Accounts |-> [l \in Nat |-> c.funds[a]]]
  OBVIOUS
<1>7. g \in Purses /\ \A a \in Accounts : g[a][c.seq[a]] = c.funds[a]
  BY <1>2, <1>6 DEF Purses
<1>8. Covers(c, g, <<>>) /\ CoversBids(g, <<>>) /\ Beneath(g, c)
  BY <1>3, <1>5, <1>7 DEF Covers, CoversBids, Beneath
<1>. QED
  BY <1>3, <1>4, <1>5, <1>7, <1>8 DEF Reached, Consecutive, Ascending

-----------------------------------------------------------------------------
(* The filter *)

\* No normal transaction comes after a blob transaction.
Separate(txs) ==
    \A i, j \in DOMAIN txs : i < j /\ IsBlobTx(txs[i]) => IsBlobTx(txs[j])

AllNormal(txs) == \A i \in DOMAIN txs : ~IsBlobTx(txs[i])
AllBlobs(txs) == \A i \in DOMAIN txs : IsBlobTx(txs[i])

\* What passed is in order, of one kind first.
InOrder(txs, blobs) == (blobs = FALSE => AllNormal(txs)) /\ (blobs = TRUE => Separate(txs))

\* One more of the kind at hand.
LEMMA InOrderStep ==
    ASSUME NEW txs \in Seq(Txs), NEW tx \in Txs, NEW blobs \in BOOLEAN,
           InOrder(txs, blobs), IsBlobTx(tx) = blobs
    PROVE  InOrder(Append(txs, tx), blobs)
<1>1. PICK q, n : q = Append(txs, tx) /\ n = Len(txs) + 1
  OBVIOUS
<1>2. /\ DOMAIN q \subseteq Nat /\ q[n] = tx /\ n \in Nat
      /\ \A i \in DOMAIN q : i <= n /\ (i = n \/ (i \in DOMAIN txs /\ q[i] = txs[i]))
  BY <1>1, OneMore
<1>3. CASE blobs = TRUE
  <2>1. IsBlobTx(tx) /\ Separate(txs)
    BY <1>3 DEF InOrder
  <2>2. ASSUME NEW i \in DOMAIN q, NEW j \in DOMAIN q, i < j, IsBlobTx(q[i])
        PROVE  IsBlobTx(q[j])
    <3>1. CASE j = n
      BY <1>2, <2>1, <3>1
    <3>2. CASE j # n
      <4>1. i \in DOMAIN txs /\ j \in DOMAIN txs /\ q[i] = txs[i] /\ q[j] = txs[j]
        BY <1>2, <2>2, <3>2
      <4>. QED
        BY <2>1, <2>2, <4>1 DEF Separate
    <3>. QED
      BY <3>1, <3>2
  <2>3. Separate(q)
    BY <2>2 DEF Separate
  <2>. QED
    BY <1>1, <1>3, <2>3 DEF InOrder
<1>4. CASE blobs = FALSE
  <2>1. ~IsBlobTx(tx) /\ AllNormal(txs)
    BY <1>4 DEF InOrder
  <2>2. AllNormal(q)
    BY <1>2, <2>1 DEF AllNormal
  <2>. QED
    BY <1>1, <1>4, <2>2 DEF InOrder
<1>. QED
  BY <1>3, <1>4

\* The filter's context, what passed and what was counted belong together.
Filtered(c, f, blobs) ==
    /\ Consecutive(c, f.counted) /\ Reached(c, f.state, f.counted)
    /\ Within(f.passed, f.counted) /\ Ascending(f.passed) /\ InOrder(f.passed, blobs)
    /\ Funded(c, f.state, f.counted, f.passed)

\* One more transaction is counted, and may pass.
LEMMA CountedLists ==
    ASSUME NEW s \in AccStates, NEW c, NEW tx \in Txs, NEW p \in Seq(Txs), NEW txs \in Seq(Txs),
           Reached(c, s, txs), s.seq[tx.acc] = tx.seq, Within(p, txs), Ascending(p)
    PROVE  LET q == Append(txs, tx)
               w == Append(p, tx)
           IN  Within(p, q) /\ Within(w, q) /\ Ascending(w)
<1>1. PICK q, w, n, k : /\ q = Append(txs, tx) /\ w = Append(p, tx)
                        /\ n = Len(txs) + 1 /\ k = Len(p) + 1
  OBVIOUS
<1>2. n \in DOMAIN q /\ q[n] = tx /\ \A i \in DOMAIN txs : i \in DOMAIN q /\ q[i] = txs[i]
  BY <1>1, OneMore
<1>3. /\ DOMAIN w \subseteq Nat /\ w[k] = tx /\ k \in Nat
      /\ \A i \in DOMAIN w : i <= k /\ (i = k \/ (i \in DOMAIN p /\ w[i] = p[i]))
  BY <1>1, OneMore
<1>4. Within(p, q)
  BY <1>2 DEF Within
<1>5. Within(w, q)
  BY <1>2, <1>3, <1>4 DEF Within
<1>6. ASSUME NEW i \in DOMAIN w, NEW j \in DOMAIN w, i < j, w[i].acc = w[j].acc
      PROVE  w[i].seq < w[j].seq
  <2>1. i \in DOMAIN p /\ w[i] = p[i]
    BY <1>3, <1>6
  <2>2. CASE j = k
    <3>1. PICK l \in DOMAIN txs : p[i] = txs[l]
      BY <2>1 DEF Within
    <3>2. txs[l].seq < s.seq[txs[l].acc]
      BY DEF Reached
    <3>. QED
      BY <1>3, <1>6, <2>1, <2>2, <3>1, <3>2
  <2>3. CASE j # k
    <3>1. j \in DOMAIN p /\ w[j] = p[j]
      BY <1>3, <2>3
    <3>. QED
      BY <1>6, <2>1, <3>1 DEF Ascending
  <2>. QED
    BY <2>2, <2>3
<1>. QED
  BY <1>1, <1>4, <1>5, <1>6 DEF Ascending

\* A step of the filter keeps them together.
LEMMA FilterStep ==
    ASSUME NEW c \in AccStates, NEW f \in Filtering, NEW tx \in Txs, NEW blobs \in BOOLEAN,
           Filtered(c, f, blobs), IsBlobTx(tx) = blobs
    PROVE  Filtered(c, Filter(f, tx), blobs)
<1>1. PICK s \in AccStates, p \in Seq(Txs), txs \in Seq(Txs) :
          s = f.state /\ p = f.passed /\ txs = f.counted
  BY DEF Filtering
<1>2. /\ Consecutive(c, txs) /\ Reached(c, s, txs)
      /\ Within(p, txs) /\ Ascending(p) /\ InOrder(p, blobs)
  BY <1>1 DEF Filtered
<1>3. Funded(c, s, txs, p)
  BY <1>1 DEF Filtered
<1>4. PICK v \in Verdicts : v = AnteHandler(s, tx)
  BY AnteTypes
<1>5. PICK n : n = Filter(f, tx)
  OBVIOUS
<1>6. /\ n.state = v.state /\ n.passed = IF v.ok THEN Append(p, tx) ELSE p
      /\ n.counted = IF v.state.seq # s.seq THEN Append(txs, tx) ELSE txs
  BY <1>1, <1>4, <1>5 DEF Filter
<1>7. v.ok \in BOOLEAN
  BY DEF Verdicts
<1>8. CASE Countable(s, tx)
  <2>1. PICK q, w : q = Append(txs, tx) /\ w = Append(p, tx)
    OBVIOUS
  <2>2. v.state.seq # s.seq
    BY <1>4, <1>8, AnteFacts
  <2>3. n.counted = q /\ (v.ok = TRUE => n.passed = w) /\ (v.ok = FALSE => n.passed = p)
    BY <1>6, <2>1, <2>2
  <2>4. Reached(c, v.state, q) /\ Consecutive(c, q)
    BY <1>2, <1>4, <1>8, <2>1, CountedReached
  <2>5. Within(p, q) /\ Within(w, q) /\ Ascending(w)
    <3>1. s.seq[tx.acc] = tx.seq
      BY <1>8 DEF Countable
    <3>. QED
      BY <1>2, <2>1, <3>1, CountedLists
  <2>6. InOrder(w, blobs)
    BY <1>2, <2>1, InOrderStep
  <2>7. Funded(c, v.state, q, p) /\ (v.ok = TRUE => Funded(c, v.state, q, w))
    BY <1>2, <1>3, <1>4, <1>8, <2>1, CountedCovered
  <2>8. CASE v.ok = TRUE
    <3>1. n.passed = w /\ n.counted = q /\ n.state = v.state
      BY <1>6, <2>3, <2>8
    <3>. QED
      BY <1>5, <2>4, <2>5, <2>6, <2>7, <2>8, <3>1 DEF Filtered
  <2>9. CASE v.ok = FALSE
    <3>1. n.passed = p /\ n.counted = q /\ n.state = v.state
      BY <1>6, <2>3, <2>9
    <3>. QED
      BY <1>2, <1>5, <2>4, <2>5, <2>7, <3>1 DEF Filtered
  <2>. QED
    BY <1>7, <2>8, <2>9
<1>9. CASE ~Countable(s, tx)
  <2>1. v.ok = FALSE /\ v.state.seq = s.seq
    BY <1>4, <1>9, AnteFacts DEF WritesLess
  <2>2. n.passed = p /\ n.counted = txs /\ n.state = v.state
    BY <1>6, <2>1
  <2>3. Reached(c, v.state, txs)
    BY <1>2, <1>4, <1>9, RefusedReached
  <2>4. Funded(c, v.state, txs, p)
    BY <1>3, <1>4, <1>9, RefusedBeneath DEF Funded
  <2>. QED
    BY <1>2, <1>3, <1>5, <2>2, <2>3, <2>4 DEF Filtered
<1>. QED
  BY <1>8, <1>9

\* So does the filter for one kind.
LEMMA KindFiltered ==
    ASSUME NEW c \in AccStates, NEW start \in Filtering, NEW txs \in Seq(Txs),
           NEW blobs \in BOOLEAN, Filtered(c, start, blobs)
    PROVE  LET f == FilterKind(start, txs, blobs)
           IN  f \in Filtering /\ Filtered(c, f, blobs)
<1>1. PICK h, n : h = FilterLoop(start, txs, blobs) /\ n = Len(txs)
  OBVIOUS
<1>2. FilterKind(start, txs, blobs) = h[n]
  BY <1>1 DEF FilterKind, FilterLoop
<1>3. /\ h \in [0..n -> Filtering] /\ h[0] = start
      /\ \A k \in 1..n : h[k] = IF IsBlobTx(txs[k]) = blobs THEN Filter(h[k - 1], txs[k])
                                ELSE h[k - 1]
  BY <1>1, FilterSteps
<1>4. n \in Nat /\ \A k \in 1..n : txs[k] \in Txs
  BY <1>1
<1>. DEFINE G == {k \in 0..n : Filtered(c, h[k], blobs)}
<1>5. 0 \in G
  BY <1>3, <1>4
<1>6. ASSUME NEW k \in 1..n, k - 1 \in G PROVE k \in G
  <2>1. PICK f \in Filtering : f = h[k - 1] /\ Filtered(c, f, blobs)
    BY <1>3, <1>4, <1>6
  <2>2. PICK tx \in Txs : tx = txs[k]
    BY <1>4
  <2>3. h[k] = IF IsBlobTx(tx) = blobs THEN Filter(f, tx) ELSE f
    BY <1>3, <2>1, <2>2
  <2>4. IsBlobTx(tx) = blobs => Filtered(c, Filter(f, tx), blobs)
    BY <2>1, FilterStep
  <2>5. Filtered(c, h[k], blobs)
    BY <2>1, <2>3, <2>4
  <2>. QED
    BY <1>4, <2>5
<1>7. \A k \in 0..n : k \in G
  <2>. HIDE DEF G
  <2>. QED
    BY <1>4, <1>5, <1>6, RangeInduction
<1>8. n \in 0..n
  BY <1>4
<1>. QED
  BY <1>2, <1>3, <1>7, <1>8

\* What FilterTxs returns.
LEMMA FilterTxsPasses ==
    ASSUME chain \in AccStates, NEW txs \in Seq(Txs)
    PROVE  /\ NothingFiltered \in Filtering /\ Filtered(chain, NothingFiltered, TRUE)
           /\ FilterTxs(txs) \in Filtering /\ Filtered(chain, FilterTxs(txs), TRUE)
<1>1. PICK c \in AccStates : c = chain
  OBVIOUS
<1>2. PICK s \in Filtering : /\ s = NothingFiltered /\ s.state = c
                             /\ s.passed = <<>> /\ s.counted = <<>>
  <2>1. NothingFiltered = [state |-> c, passed |-> <<>>, counted |-> <<>>]
    BY <1>1 DEF NothingFiltered
  <2>2. [state |-> c, passed |-> <<>>, counted |-> <<>>] \in Filtering
    BY DEF Filtering
  <2>. QED
    BY <2>1, <2>2
<1>3. InOrder(<<>>, FALSE) /\ InOrder(<<>>, TRUE) /\ Within(<<>>, <<>>)
  BY DEF InOrder, AllNormal, Separate, Within
<1>4. Filtered(c, s, FALSE) /\ Filtered(c, s, TRUE)
  BY <1>2, <1>3, NothingReached DEF Filtered, Funded
<1>5. PICK f : f = FilterKind(s, txs, FALSE)
  OBVIOUS
<1>6. f \in Filtering /\ Filtered(c, f, FALSE)
  BY <1>2, <1>4, <1>5, KindFiltered
<1>7. Filtered(c, f, TRUE)
  <2>1. AllNormal(f.passed)
    BY <1>6 DEF Filtered, InOrder
  <2>2. Separate(f.passed)
    BY <2>1 DEF AllNormal, Separate
  <2>3. InOrder(f.passed, TRUE)
    BY <2>2 DEF InOrder
  <2>. QED
    BY <1>6, <2>3 DEF Filtered
<1>8. PICK g : g = FilterKind(f, txs, TRUE)
  OBVIOUS
<1>9. g \in Filtering /\ Filtered(c, g, TRUE)
  BY <1>6, <1>7, <1>8, KindFiltered
<1>10. FilterTxs(txs) = g
  BY <1>2, <1>5, <1>8 DEF FilterTxs
<1>. QED
  BY <1>1, <1>2, <1>4, <1>9, <1>10

-----------------------------------------------------------------------------
(* The validators *)

\* The first k transactions of a list.
First(txs, k) == SubSeq(txs, 1, k)

\* They grow by one at a time.
LEMMA FirstFacts ==
    ASSUME NEW txs \in Seq(Txs)
    PROVE  /\ First(txs, 0) = <<>> /\ First(txs, Len(txs)) = txs
           /\ \A k \in 0..Len(txs) : First(txs, k) \in Seq(Txs)
           /\ \A k \in 1..Len(txs) : First(txs, k) = Append(First(txs, k - 1), txs[k])
<1>1. First(txs, 0) = <<>> /\ First(txs, Len(txs)) = txs
  BY DEF First
<1>2. \A k \in 0..Len(txs) : First(txs, k) \in Seq(Txs)
  BY DEF First
<1>3. ASSUME NEW k \in 1..Len(txs) PROVE First(txs, k) = Append(First(txs, k - 1), txs[k])
  <2>1. PICK p, q : p = First(txs, k) /\ q = Append(First(txs, k - 1), txs[k])
    OBVIOUS
  <2>2. k - 1 \in 0..Len(txs) /\ k \in 0..Len(txs) /\ txs[k] \in Txs
    OBVIOUS
  <2>3. p \in Seq(Txs) /\ q \in Seq(Txs) /\ Len(p) = k /\ Len(q) = k
    BY <1>2, <2>1, <2>2 DEF First
  <2>4. ASSUME NEW i \in 1..k PROVE p[i] = q[i]
    BY <2>1, <2>2 DEF First
  <2>5. p = q
    BY <2>3, <2>4
  <2>. QED
    BY <2>1, <2>5
<1>. QED
  BY <1>1, <1>2, <1>3

\* The validators' verdict after k transactions, and the state.
Agreed(c, txs, v, k) ==
    v.ok = TRUE => Consecutive(c, First(txs, k)) /\ Reached(c, v.state, First(txs, k))

\* As long as the ante handler accepts, the transactions are consecutive.
LEMMA AnteAgreed ==
    ASSUME NEW c \in AccStates, NEW txs \in Seq(Txs), NEW h, h = AnteLoop(c, txs)
    PROVE  \A k \in 0..Len(txs) : Agreed(c, txs, h[k], k)
<1>1. PICK n \in Nat : n = Len(txs)
  OBVIOUS
<1>2. /\ h \in [0..n -> Verdicts] /\ h[0] = Verdict(TRUE, c)
      /\ \A k \in 1..n : h[k] = IF h[k - 1].ok THEN AnteHandler(h[k - 1].state, txs[k])
                                ELSE h[k - 1]
  <2>1. /\ h \in [0..Len(txs) -> Verdicts] /\ h[0] = Verdict(TRUE, c)
        /\ \A k \in 1..Len(txs) : h[k] = IF h[k - 1].ok THEN AnteHandler(h[k - 1].state, txs[k])
                                         ELSE h[k - 1]
    BY AnteSteps, ZenonT(30)
  <2>. QED
    BY <1>1, <2>1, Zenon
<1>3. \A k \in 1..n : txs[k] \in Txs
  BY <1>1
<1>. DEFINE G == {k \in 0..n : Agreed(c, txs, h[k], k)}
<1>4. 0 \in G
  <2>1. h[0].state = c /\ First(txs, 0) = <<>>
    BY <1>2, FirstFacts DEF Verdict
  <2>2. Agreed(c, txs, h[0], 0)
    BY <2>1, NothingReached DEF Agreed
  <2>. QED
    BY <1>1, <2>2
<1>5. ASSUME NEW k \in 1..n, k - 1 \in G PROVE k \in G
  <2>1. k - 1 \in 0..n /\ k \in 0..n
    BY <1>1
  <2>2. PICK u, v \in Verdicts : u = h[k - 1] /\ v = h[k]
    BY <1>2, <2>1
  <2>3. PICK tx \in Txs : tx = txs[k]
    BY <1>3
  <2>4. PICK p \in Seq(Txs) : p = First(txs, k - 1)
    BY <1>1, <2>1, FirstFacts
  <2>5. PICK q : q = First(txs, k) /\ q = Append(p, tx)
    BY <1>1, <2>3, <2>4, FirstFacts
  <2>6. v = IF u.ok THEN AnteHandler(u.state, tx) ELSE u
    BY <1>2, <2>2, <2>3
  <2>7. ASSUME v.ok = TRUE PROVE Consecutive(c, q) /\ Reached(c, v.state, q)
    <3>1. u.ok = TRUE
      BY <2>6, <2>7 DEF Verdicts
    <3>2. PICK s \in AccStates : s = u.state
      BY DEF Verdicts
    <3>3. v = AnteHandler(s, tx)
      BY <2>6, <3>1, <3>2
    <3>4. Consecutive(c, p) /\ Reached(c, s, p)
      BY <1>5, <2>2, <2>4, <3>1, <3>2 DEF Agreed
    <3>5. Countable(s, tx)
      BY <2>7, <3>3, AnteFacts
    <3>. QED
      BY <2>5, <3>3, <3>4, <3>5, CountedReached
  <2>8. Agreed(c, txs, h[k], k)
    BY <2>2, <2>5, <2>7 DEF Agreed
  <2>. QED
    BY <2>1, <2>8
<1>6. \A k \in 0..n : k \in G
  <2>. HIDE DEF G
  <2>. QED
    BY <1>1, <1>4, <1>5, RangeInduction
<1>. QED
  BY <1>1, <1>6

\* The next of consecutive transactions that are covered is accepted.
LEMMA NextAccepted ==
    ASSUME NEW c \in AccStates, NEW s \in AccStates, NEW txs \in Seq(Txs),
           Consecutive(c, txs), NEW k \in DOMAIN txs, Reached(c, s, First(txs, k - 1)),
           NEW g \in Purses, Covers(c, g, txs), CoversBids(g, txs), Exact(g, s),
           NEW v, v = AnteHandler(s, txs[k])
    PROVE  v.ok = TRUE /\ Exact(g, v.state)
<1>1. PICK tx \in Txs : tx = txs[k]
  OBVIOUS
<1>2. PICK a \in Accounts, m \in Nat : a = tx.acc /\ m = tx.seq
  BY DEF Txs
<1>3. PICK p : p = First(txs, k - 1)
  OBVIOUS
<1>4. /\ DOMAIN txs \subseteq Nat /\ DOMAIN p \subseteq DOMAIN txs
      /\ \A i \in DOMAIN p : p[i] = txs[i] /\ i < k
      /\ \A i \in DOMAIN txs : i < k => i \in DOMAIN p
  BY <1>3 DEF First
<1>5. /\ s.seq \in [Accounts -> Nat] /\ s.funds \in [Accounts -> Int]
      /\ c.seq \in [Accounts -> Nat] /\ c.funds \in [Accounts -> Int]
  BY DEF AccStates
<1>6. PICK l, o \in Nat : l = s.seq[a] /\ o = c.seq[a] /\ o <= l
  BY <1>5 DEF Reached
<1>7. o <= m
  BY <1>1, <1>2, <1>6 DEF Consecutive
<1>8. \A i \in DOMAIN txs : txs[i].seq \in Nat /\ txs[i].acc \in Accounts
  <2>1. \A i \in DOMAIN txs : txs[i] \in Txs
    OBVIOUS
  <2>. QED
    BY <2>1 DEF Txs
<1>9. m <= l
  <2>1. SUFFICES ASSUME l < m PROVE FALSE
    OBVIOUS
  <2>2. PICK i \in DOMAIN txs : Same(txs[i], a, l)
    BY <1>1, <1>2, <1>6, <2>1 DEF Consecutive
  <2>3. txs[i].acc = a /\ txs[i].seq = l
    BY <2>2 DEF Same
  <2>4. i # k /\ ~(k < i)
    BY <1>1, <1>2, <2>1, <2>3 DEF Consecutive, Ascending
  <2>5. i \in DOMAIN p /\ p[i] = txs[i]
    BY <1>4, <2>4
  <2>6. p[i].seq < s.seq[p[i].acc]
    BY <1>3, <2>5 DEF Reached
  <2>. QED
    BY <1>6, <2>3, <2>5, <2>6
<1>10. l <= m
  <2>1. SUFFICES ASSUME m < l PROVE FALSE
    OBVIOUS
  <2>2. PICK i \in DOMAIN p : Same(p[i], a, m)
    BY <1>3, <1>6, <1>7, <2>1 DEF Reached
  <2>3. i \in DOMAIN txs /\ i < k /\ txs[i].acc = tx.acc /\ txs[i].seq = tx.seq
    BY <1>2, <1>4, <2>2 DEF Same
  <2>4. txs[i].seq < tx.seq
    BY <1>1, <2>3 DEF Consecutive, Ascending
  <2>. QED
    BY <1>2, <2>3, <2>4
<1>11. s.seq[a] = m
  BY <1>6, <1>9, <1>10
<1>12. /\ AcceptedFee(tx) /\ (PaysFeeToken(tx) => g[a][m] >= Fee)
       /\ g[a][m + 1] = g[a][m] - Charge(tx)
       /\ IsBid(tx) => g[a][m + 1] >= tx.shape.spend
  <2>1. /\ AcceptedFee(txs[k])
        /\ PaysFeeToken(txs[k]) => g[txs[k].acc][txs[k].seq] >= Fee
        /\ g[txs[k].acc][txs[k].seq + 1] = g[txs[k].acc][txs[k].seq] - Charge(txs[k])
    BY DEF Covers
  <2>2. IsBid(txs[k]) => g[txs[k].acc][txs[k].seq + 1] >= txs[k].shape.spend
    BY DEF CoversBids
  <2>. QED
    BY <1>1, <1>2, <2>1, <2>2, Zenon
<1>13. s.funds[a] = g[a][m]
  BY <1>11 DEF Exact
<1>14. Countable(s, tx)
  BY <1>2, <1>11, <1>12, <1>13 DEF Countable, HasFunds
<1>15. PICK r : /\ r = v.state /\ WritesAll(s, tx, r)
                /\ v.ok = TRUE <=> ~BidRefused(r, tx)
  BY <1>1, <1>14, AnteFacts
<1>16. /\ r.seq = [s.seq EXCEPT ![a] = m + 1]
       /\ r.funds = [s.funds EXCEPT ![a] = @ - Charge(tx)]
  BY <1>2, <1>15, Zenon DEF WritesAll
<1>17. /\ r.seq[a] = m + 1 /\ r.funds[a] = g[a][m + 1]
       /\ \A d \in Accounts : d # a => r.seq[d] = s.seq[d] /\ r.funds[d] = s.funds[d]
  BY <1>5, <1>12, <1>13, <1>16
<1>18. Exact(g, r)
  BY <1>17 DEF Exact
<1>19. ~BidRefused(r, tx)
  <2>1. PICK z \in Int, b \in Nat : z = g[a][m + 1] /\ b = tx.shape.spend
    <3>1. m + 1 \in Nat
      OBVIOUS
    <3>2. g[a][m + 1] \in Int
      BY <3>1 DEF Purses
    <3>. QED
      BY <3>2, ShapeFacts
  <2>2. IsBid(tx) => z >= b
    BY <1>12, <2>1
  <2>3. IsBid(tx) => ~(z < b)
    BY <2>2
  <2>. QED
    BY <1>2, <1>17, <2>1, <2>3 DEF BidRefused
<1>. QED
  BY <1>15, <1>18, <1>19

\* The ante handler of the validators accepts consecutive transactions only,
\* and all that are covered.
LEMMA AnteExact ==
    ASSUME NEW c \in AccStates, NEW txs \in Seq(Txs), NEW h, h = AnteLoop(c, txs)
    PROVE  /\ h[Len(txs)].ok \in BOOLEAN
           /\ h[Len(txs)].ok = TRUE => Consecutive(c, txs)
           /\ \A g \in Purses :
                 Consecutive(c, txs) /\ Covers(c, g, txs) /\ CoversBids(g, txs)
                 => h[Len(txs)].ok = TRUE
<1>1. PICK n \in Nat : n = Len(txs)
  OBVIOUS
<1>2. /\ h \in [0..n -> Verdicts] /\ h[0] = Verdict(TRUE, c)
      /\ \A k \in 1..n : h[k] = IF h[k - 1].ok THEN AnteHandler(h[k - 1].state, txs[k])
                                ELSE h[k - 1]
  <2>1. /\ h \in [0..Len(txs) -> Verdicts] /\ h[0] = Verdict(TRUE, c)
        /\ \A k \in 1..Len(txs) : h[k] = IF h[k - 1].ok THEN AnteHandler(h[k - 1].state, txs[k])
                                         ELSE h[k - 1]
    BY AnteSteps, ZenonT(30)
  <2>. QED
    BY <1>1, <2>1, Zenon
<1>3. n \in 0..n /\ h[n] \in Verdicts
  BY <1>1, <1>2
<1>4. h[n].ok \in BOOLEAN
  BY <1>3 DEF Verdicts
<1>5. \A k \in 0..n : Agreed(c, txs, h[k], k)
  BY <1>1, AnteAgreed
<1>6. ASSUME h[n].ok = TRUE PROVE Consecutive(c, txs)
  <2>1. Consecutive(c, First(txs, n))
    BY <1>3, <1>5, <1>6 DEF Agreed
  <2>. QED
    BY <1>1, <2>1, FirstFacts
<1>7. ASSUME NEW g \in Purses, Consecutive(c, txs), Covers(c, g, txs), CoversBids(g, txs)
      PROVE  h[n].ok = TRUE
  <2>. DEFINE G == {k \in 0..n : h[k].ok = TRUE /\ Exact(g, h[k].state)}
  <2>1. 0 \in G
    <3>1. h[0].ok = TRUE /\ h[0].state = c
      BY <1>2 DEF Verdict
    <3>2. 0 \in 0..n
      BY <1>1
    <3>3. \A a \in Accounts : g[a][c.seq[a]] = c.funds[a]
      BY <1>7 DEF Covers
    <3>. QED
      BY <3>1, <3>2, <3>3 DEF Exact
  <2>2. ASSUME NEW k \in 1..n, k - 1 \in G PROVE k \in G
    <3>1. k - 1 \in 0..n /\ k \in 0..n /\ k \in DOMAIN txs
      BY <1>1
    <3>2. PICK u \in Verdicts : u = h[k - 1] /\ u.ok = TRUE /\ Exact(g, u.state)
      BY <1>2, <2>2, <3>1
    <3>3. PICK s \in AccStates : s = u.state
      BY DEF Verdicts
    <3>4. Reached(c, s, First(txs, k - 1))
      BY <1>5, <3>1, <3>2, <3>3 DEF Agreed
    <3>5. PICK v : v = h[k] /\ v = AnteHandler(s, txs[k])
      BY <1>2, <3>2, <3>3
    <3>6. v.ok = TRUE /\ Exact(g, v.state)
      <4>1. Exact(g, s) /\ k \in DOMAIN txs
        BY <3>1, <3>2, <3>3
      <4>2. Consecutive(c, txs) /\ Covers(c, g, txs) /\ CoversBids(g, txs)
        BY <1>7
      <4>. QED
        BY <3>4, <3>5, <4>1, <4>2, NextAccepted, ZenonT(60)
    <3>. QED
      BY <3>1, <3>5, <3>6
  <2>3. \A k \in 0..n : k \in G
    <3>. HIDE DEF G
    <3>. QED
      BY <1>1, <2>1, <2>2, RangeInduction
  <2>. QED
    BY <1>3, <2>3
<1>. QED
  BY <1>1, <1>4, <1>6, <1>7

-----------------------------------------------------------------------------
(* The square *)

\* NewBuilder goes through the transactions one by one.
LEMMA ConstructExtends ==
    ASSUME NEW txs \in Seq(Txs), NEW tx \in Txs
    PROVE  Constructed(Append(txs, tx)) = Appended(Constructed(txs), tx)
<1>1. PICK n \in Nat : n = Len(txs)
  OBVIOUS
<1>2. PICK q \in Seq(Txs) : q = Append(txs, tx) /\ Len(q) = n + 1
  BY <1>1, OneMore
<1>3. q[n + 1] = tx /\ \A k \in 1..n : q[k] = txs[k]
  BY <1>1, <1>2, OneMore
<1>4. PICK h, w : h = ConstructLoop(txs) /\ w = ConstructLoop(q)
  OBVIOUS
<1>5. Constructed(txs) = h[n] /\ Constructed(q) = w[n + 1]
  BY <1>1, <1>2, <1>4 DEF Constructed, ConstructLoop
<1>6. h[0] = EmptyBuilder /\ \A k \in 1..n : h[k] = Appended(h[k - 1], txs[k])
  BY <1>1, <1>4, ConstructSteps
<1>7. w[0] = EmptyBuilder /\ \A k \in 1..(n + 1) : w[k] = Appended(w[k - 1], q[k])
  BY <1>2, <1>4, ConstructSteps
<1>. DEFINE G == {k \in 0..n : w[k] = h[k]}
<1>8. 0 \in G
  BY <1>6, <1>7
<1>9. ASSUME NEW k \in 1..n, k - 1 \in G PROVE k \in G
  <2>1. k \in 1..(n + 1) /\ k \in 0..n
    OBVIOUS
  <2>2. w[k] = Appended(w[k - 1], q[k]) /\ h[k] = Appended(h[k - 1], txs[k])
    BY <1>6, <1>7, <2>1
  <2>3. w[k - 1] = h[k - 1] /\ q[k] = txs[k]
    BY <1>3, <1>9
  <2>. QED
    BY <2>1, <2>2, <2>3
<1>10. \A k \in 0..n : k \in G
  <2>. HIDE DEF G
  <2>. QED
    BY <1>8, <1>9, RangeInduction
<1>11. w[n] = h[n] /\ w[n + 1] = Appended(w[n], tx)
  <2>1. n \in 0..n /\ n + 1 \in 1..(n + 1) /\ (n + 1) - 1 = n
    OBVIOUS
  <2>2. w[n + 1] = Appended(w[(n + 1) - 1], q[n + 1])
    BY <1>7, <2>1
  <2>. QED
    BY <1>3, <1>10, <2>1, <2>2
<1>. QED
  BY <1>2, <1>5, <1>11

\* Appending to the second of two lists, or to the first if there is no second.
LEMMA ConcatAppend ==
    ASSUME NEW s \in Seq(Txs), NEW t \in Seq(Txs), NEW tx \in Txs
    PROVE  s \o Append(t, tx) = Append(s \o t, tx)
<1>1. PICK p, q : p = s \o Append(t, tx) /\ q = Append(s \o t, tx)
  OBVIOUS
<1>2. PICK n, m \in Nat : n = Len(s) /\ m = Len(t)
  OBVIOUS
<1>3. p \in Seq(Txs) /\ q \in Seq(Txs) /\ Len(p) = n + m + 1 /\ Len(q) = n + m + 1
  BY <1>1, <1>2
<1>4. ASSUME NEW i \in 1..(n + m + 1) PROVE p[i] = q[i]
  BY <1>1, <1>2
<1>5. p = q
  BY <1>3, <1>4
<1>. QED
  BY <1>1, <1>5

\* An empty list adds nothing.
LEMMA ConcatEmpty == ASSUME NEW s \in Seq(Txs) PROVE s \o <<>> = s
OBVIOUS

\* The transactions chosen from the first k of p, in an order that respects the
\* sequence numbers of each account.
Chosen(p, txs, k) ==
    /\ \A j \in DOMAIN txs : \E i \in 1..k : txs[j] = p[i]
    /\ \A i, j \in DOMAIN txs : i < j /\ txs[i].acc = txs[j].acc => txs[i].seq < txs[j].seq

\* Choosing the next one, too.
LEMMA ChosenStep ==
    ASSUME NEW p \in Seq(Txs), Ascending(p), NEW k \in 1..Len(p),
           NEW txs \in Seq(Txs), Chosen(p, txs, k - 1)
    PROVE  Chosen(p, txs, k) /\ Chosen(p, Append(txs, p[k]), k)
<1>1. \A j \in DOMAIN txs : \E i \in 1..(k - 1) : txs[j] = p[i]
  BY DEF Chosen
<1>2. Chosen(p, txs, k)
  BY <1>1 DEF Chosen
<1>3. PICK tx \in Txs : tx = p[k]
  OBVIOUS
<1>4. PICK q, n : q = Append(txs, tx) /\ n = Len(txs) + 1
  OBVIOUS
<1>5. /\ DOMAIN q \subseteq Nat /\ q[n] = tx /\ n \in Nat
      /\ \A i \in DOMAIN q : i <= n /\ (i = n \/ (i \in DOMAIN txs /\ q[i] = txs[i]))
  BY <1>4, OneMore
<1>6. ASSUME NEW j \in DOMAIN q PROVE \E i \in 1..k : q[j] = p[i]
  <2>1. CASE j = n
    BY <1>3, <1>5, <2>1
  <2>2. CASE j # n
    BY <1>1, <1>5, <2>2
  <2>. QED
    BY <2>1, <2>2
<1>7. ASSUME NEW i \in DOMAIN q, NEW j \in DOMAIN q, i < j, q[i].acc = q[j].acc
      PROVE  q[i].seq < q[j].seq
  <2>1. i \in DOMAIN txs /\ q[i] = txs[i]
    BY <1>5, <1>7
  <2>2. CASE j = n
    <3>1. PICK l \in 1..(k - 1) : txs[i] = p[l]
      BY <1>1, <2>1
    <3>2. l \in DOMAIN p /\ k \in DOMAIN p /\ l < k
      OBVIOUS
    <3>3. p[l].acc = p[k].acc
      BY <1>3, <1>5, <1>7, <2>1, <2>2, <3>1
    <3>4. p[l].seq < p[k].seq
      BY <3>2, <3>3 DEF Ascending
    <3>. QED
      BY <1>3, <1>5, <2>1, <2>2, <3>1, <3>4
  <2>3. CASE j # n
    <3>1. j \in DOMAIN txs /\ q[j] = txs[j]
      BY <1>5, <2>3
    <3>. QED
      BY <1>7, <2>1, <3>1 DEF Chosen
  <2>. QED
    BY <2>2, <2>3
<1>8. Chosen(p, q, k)
  BY <1>6, <1>7 DEF Chosen
<1>. QED
  BY <1>2, <1>3, <1>4, <1>8

\* Where square.Build is after k of the transactions p: what it chose gives its
\* builder, one entry for each.
BuiltTo(p, sq, k) ==
    LET txs == sq.normalTxs \o sq.blobTxs
    IN  /\ sq.builder = Constructed(txs)
        /\ Len(sq.builder.txs) + Len(sq.builder.pfbs) = Len(txs)
        /\ AllNormal(sq.normalTxs) /\ AllBlobs(sq.blobTxs)
        /\ AllNormal(First(p, k)) => sq.blobTxs = <<>>
        /\ Chosen(p, txs, k)

\* The transactions of the block are transactions.
LEMMA SquareTxs == ASSUME NEW sq \in Squares PROVE sq.normalTxs \o sq.blobTxs \in Seq(Txs)
<1>1. PICK s, t \in Seq(Txs) : s = sq.normalTxs /\ t = sq.blobTxs
  BY DEF Squares
<1>2. s \o t \in Seq(Txs)
  OBVIOUS
<1>. QED
  BY <1>1, <1>2

\* A transaction that does not fit changes nothing.
LEMMA SkippedStep ==
    ASSUME NEW p \in Seq(Txs), Ascending(p), NEW k \in 1..Len(p),
           NEW sq \in Squares, BuiltTo(p, sq, k - 1), NEW next,
           next = Grown(sq, p[k], Appended(sq.builder, p[k])),
           Appended(sq.builder, p[k]) = sq.builder
    PROVE  BuiltTo(p, next, k)
<1>1. /\ next.builder = sq.builder
      /\ next.normalTxs = sq.normalTxs /\ next.blobTxs = sq.blobTxs
  BY DEF Grown
<1>2. PICK txs \in Seq(Txs) : txs = sq.normalTxs \o sq.blobTxs
  BY SquareTxs
<1>3. Chosen(p, txs, k)
  BY <1>2, ChosenStep DEF BuiltTo
<1>4. AllNormal(First(p, k)) => AllNormal(First(p, k - 1))
  BY DEF AllNormal, First
<1>. QED
  BY <1>1, <1>2, <1>3, <1>4 DEF BuiltTo

\* A transaction that fits comes after the others chosen.
LEMMA ChosenNext ==
    ASSUME NEW p \in Seq(Txs), Separate(p), NEW k \in 1..Len(p),
           NEW sq \in Squares, BuiltTo(p, sq, k - 1), NEW next,
           next = Grown(sq, p[k], Appended(sq.builder, p[k])),
           Appended(sq.builder, p[k]) # sq.builder
    PROVE  /\ next.normalTxs \o next.blobTxs = Append(sq.normalTxs \o sq.blobTxs, p[k])
           /\ AllNormal(next.normalTxs) /\ AllBlobs(next.blobTxs)
           /\ AllNormal(First(p, k)) => next.blobTxs = <<>>
<1>1. PICK s, t \in Seq(Txs) : s = sq.normalTxs /\ t = sq.blobTxs
  BY DEF Squares
<1>2. /\ AllNormal(s) /\ AllBlobs(t)
      /\ AllNormal(First(p, k - 1)) => t = <<>>
  BY <1>1 DEF BuiltTo
<1>3. PICK tx \in Txs : tx = p[k]
  OBVIOUS
<1>4. CASE IsBlobTx(tx)
  <2>1. next.normalTxs = s /\ next.blobTxs = Append(t, tx)
    BY <1>1, <1>3, <1>4 DEF Grown
  <2>2. s \o Append(t, tx) = Append(s \o t, tx)
    BY ConcatAppend
  <2>3. AllBlobs(Append(t, tx))
    BY <1>2, <1>4 DEF AllBlobs
  <2>4. ~AllNormal(First(p, k))
    <3>1. k \in DOMAIN First(p, k) /\ First(p, k)[k] = tx
      BY <1>3 DEF First
    <3>. QED
      BY <1>4, <3>1 DEF AllNormal
  <2>. QED
    BY <1>1, <1>2, <1>3, <2>1, <2>2, <2>3, <2>4
<1>5. CASE ~IsBlobTx(tx)
  <2>1. next.normalTxs = Append(s, tx) /\ next.blobTxs = t
    BY <1>1, <1>3, <1>5 DEF Grown
  <2>2. t = <<>>
    <3>1. ASSUME NEW i \in DOMAIN First(p, k - 1) PROVE ~IsBlobTx(First(p, k - 1)[i])
      <4>1. i \in DOMAIN p /\ k \in DOMAIN p /\ i < k /\ First(p, k - 1)[i] = p[i]
        BY <3>1 DEF First
      <4>. QED
        BY <1>3, <1>5, <4>1 DEF Separate
    <3>2. AllNormal(First(p, k - 1))
      BY <3>1 DEF AllNormal
    <3>. QED
      BY <1>2, <3>2
  <2>3. Append(s, tx) \o <<>> = Append(s, tx) /\ s \o <<>> = s
    BY ConcatEmpty
  <2>4. AllNormal(Append(s, tx))
    BY <1>2, <1>5 DEF AllNormal
  <2>. QED
    BY <1>1, <1>2, <1>3, <2>1, <2>2, <2>3, <2>4
<1>. QED
  BY <1>4, <1>5

\* A transaction that fits is one more, for the validators too.
LEMMA FittingStep ==
    ASSUME NEW p \in Seq(Txs), Ascending(p), Separate(p), NEW k \in 1..Len(p),
           NEW sq \in Squares, BuiltTo(p, sq, k - 1), NEW next,
           next = Grown(sq, p[k], Appended(sq.builder, p[k])),
           Appended(sq.builder, p[k]) # sq.builder
    PROVE  BuiltTo(p, next, k)
<1>1. PICK txs \in Seq(Txs) : txs = sq.normalTxs \o sq.blobTxs
  BY SquareTxs
<1>2. PICK tx \in Txs : tx = p[k]
  OBVIOUS
<1>3. PICK b \in GoodBuilders : b = sq.builder
  BY DEF Squares
<1>4. /\ b = Constructed(txs) /\ Len(b.txs) + Len(b.pfbs) = Len(txs)
      /\ Chosen(p, txs, k - 1)
  BY <1>1, <1>3 DEF BuiltTo
<1>5. PICK d, q : d = Appended(b, tx) /\ q = Append(txs, tx) /\ d # b
  BY <1>2, <1>3
<1>6. next.builder = d
  BY <1>2, <1>3, <1>5 DEF Grown
<1>7. /\ next.normalTxs \o next.blobTxs = q
      /\ AllNormal(next.normalTxs) /\ AllBlobs(next.blobTxs)
      /\ AllNormal(First(p, k)) => next.blobTxs = <<>>
  BY <1>1, <1>2, <1>5, ChosenNext
<1>8. d = Constructed(q)
  BY <1>4, <1>5, ConstructExtends
<1>9. Len(d.txs) + Len(d.pfbs) = Len(q)
  <2>1. Len(d.txs) + Len(d.pfbs) = Len(b.txs) + Len(b.pfbs) + 1
    BY <1>5, AppendedGood
  <2>2. Len(q) = Len(txs) + 1
    BY <1>5, OneMore
  <2>. QED
    BY <1>4, <2>1, <2>2
<1>10. Chosen(p, q, k)
  BY <1>2, <1>4, <1>5, ChosenStep
<1>. QED
  BY <1>6, <1>7, <1>8, <1>9, <1>10 DEF BuiltTo

\* What square.Build returns for transactions that passed.
LEMMA BuildChooses ==
    ASSUME NEW p \in Seq(Txs), Ascending(p), Separate(p), NEW sq, sq = Build(p)
    PROVE  sq \in Squares /\ BuiltTo(p, sq, Len(p))
<1>1. PICK h, n : h = BuildLoop(p) /\ n = Len(p)
  OBVIOUS
<1>2. sq = h[n]
  BY <1>1 DEF Build, BuildLoop, EmptySquare
<1>3. /\ h \in [0..n -> Squares] /\ h[0] = EmptySquare
      /\ \A k \in 1..n : h[k] = Grown(h[k - 1], p[k], Appended(h[k - 1].builder, p[k]))
  BY <1>1, BuildSteps
<1>4. n \in Nat
  BY <1>1
<1>. DEFINE G == {k \in 0..n : BuiltTo(p, h[k], k)}
<1>5. 0 \in G
  <2>1. PICK e : e = EmptySquare
    OBVIOUS
  <2>2. e.builder = EmptyBuilder /\ e.normalTxs = <<>> /\ e.blobTxs = <<>>
    BY <2>1 DEF EmptySquare
  <2>3. PICK t \in Seq(Txs) : t = <<>> /\ Len(t) = 0 /\ DOMAIN t = {}
    <3>1. <<>> \in Seq(Txs) /\ Len(<<>>) = 0 /\ DOMAIN <<>> = {}
      OBVIOUS
    <3>. QED
      BY <3>1
  <2>4. e.normalTxs \o e.blobTxs = t
    BY <2>2, <2>3
  <2>5. Constructed(t) = EmptyBuilder
    <3>1. PICK w : w = ConstructLoop(t)
      OBVIOUS
    <3>2. w[0] = EmptyBuilder
      BY <2>3, <3>1, ConstructSteps
    <3>3. Constructed(t) = w[Len(t)]
      BY <3>1 DEF Constructed, ConstructLoop
    <3>. QED
      BY <2>3, <3>2, <3>3
  <2>6. Len(EmptyBuilder.txs) + Len(EmptyBuilder.pfbs) = 0
    BY DEF EmptyBuilder
  <2>7. AllNormal(t) /\ AllBlobs(t) /\ Chosen(p, t, 0)
    BY <2>3 DEF AllNormal, AllBlobs, Chosen
  <2>8. BuiltTo(p, e, 0)
    BY <2>2, <2>3, <2>4, <2>5, <2>6, <2>7 DEF BuiltTo
  <2>. QED
    BY <1>3, <1>4, <2>1, <2>8
<1>6. ASSUME NEW k \in 1..n, k - 1 \in G PROVE k \in G
  <2>1. k - 1 \in 0..n /\ k \in 0..n /\ k \in 1..Len(p)
    BY <1>1, <1>4
  <2>2. PICK s \in Squares : s = h[k - 1] /\ BuiltTo(p, s, k - 1)
    BY <1>3, <1>6, <2>1
  <2>3. PICK next : next = h[k] /\ next = Grown(s, p[k], Appended(s.builder, p[k]))
    BY <1>3, <2>2
  <2>4. BuiltTo(p, next, k)
    BY <2>1, <2>2, <2>3, SkippedStep, FittingStep
  <2>. QED
    BY <2>1, <2>3, <2>4
<1>7. \A k \in 0..n : k \in G
  <2>. HIDE DEF G
  <2>. QED
    BY <1>4, <1>5, <1>6, RangeInduction
<1>8. n \in 0..n
  BY <1>4
<1>. QED
  BY <1>1, <1>2, <1>3, <1>7, <1>8

\* Exporting the square does not change it.
LEMMA ExportedSame ==
    ASSUME NEW b \in GoodBuilders
    PROVE  Header(Exported(b)) = Header(b)
<1>1. Good(b) /\ b \in Builder
  BY DEF GoodBuilders
<1>2. PICK d : d = Exported(b)
  OBVIOUS
<1>3. Good(d) /\ d \in Builder
  <2>1. Good(d)
    BY <1>1, <1>2, ExportedGood
  <2>. QED
    BY <2>1 DEF Good
<1>4. b.pfbs \in Seq(Pfb) /\ b.txs \in Seq(TxLens) /\ d.pfbs \in Seq(Pfb)
  BY <1>1, <1>3 DEF Builder
<1>5. d.txs = b.txs
  BY <1>1, <1>2 DEF Exported, Builder
<1>6. /\ DOMAIN d.pfbs = DOMAIN b.pfbs
      /\ \A p \in DOMAIN b.pfbs : d.pfbs[p].len = b.pfbs[p].len /\ d.pfbs[p].blobs = b.pfbs[p].blobs
  <2>1. CASE IsEmpty(b)
    BY <1>2, <2>1 DEF Exported
  <2>2. CASE ~IsEmpty(b)
    <3>1. PICK pl : pl = Placed(b)
      OBVIOUS
    <3>2. d.pfbs = IndexedPfbs(b, pl)
      BY <1>1, <1>2, <2>2, <3>1 DEF Exported, Builder
    <3>3. DOMAIN d.pfbs = DOMAIN b.pfbs
      BY <3>2 DEF IndexedPfbs
    <3>4. ASSUME NEW p \in DOMAIN b.pfbs
          PROVE  d.pfbs[p].len = b.pfbs[p].len /\ d.pfbs[p].blobs = b.pfbs[p].blobs
      <4>1. PICK x \in Pfb : x = b.pfbs[p]
        BY <1>4
      <4>2. PICK y : y = ShareIndexes(x, p, pl)
        OBVIOUS
      <4>3. d.pfbs[p] = [x EXCEPT !.indexes = y]
        BY <3>2, <4>1, <4>2 DEF IndexedPfbs
      <4>. QED
        BY <4>1, <4>3 DEF Pfb
    <3>. QED
      BY <3>3, <3>4
  <2>. QED
    BY <2>1, <2>2
<1>7. Len(d.pfbs) = Len(b.pfbs) /\ DOMAIN b.pfbs = 1..Len(b.pfbs) /\ Len(b.pfbs) \in Nat
  BY <1>4, <1>6
<1>8. \A p \in DOMAIN b.pfbs : Len(d.pfbs[p].indexes) = Len(b.pfbs[p].indexes)
  <2>1. /\ \A p \in DOMAIN b.pfbs : Len(b.pfbs[p].indexes) = Len(b.pfbs[p].blobs)
        /\ \A p \in DOMAIN d.pfbs : Len(d.pfbs[p].indexes) = Len(d.pfbs[p].blobs)
    BY <1>1, <1>3 DEF Good, Matched
  <2>. QED
    BY <1>6, <2>1
<1>9. Prefix(d, b)
  <2>1. Len(d.txs) <= Len(b.txs) /\ Len(d.pfbs) <= Len(b.pfbs)
    BY <1>4, <1>5, <1>7
  <2>. QED
    BY <1>5, <1>6, <1>7, <1>8, <2>1 DEF Prefix
<1>10. Square(d) = Square(b)
  BY <1>1, <1>3, <1>5, <1>7, <1>9, SameSquare
<1>. QED
  BY <1>2, <1>10 DEF Header

-----------------------------------------------------------------------------
(* Gaps *)

\* Gap, of any lists.
GapIn(q, txs) ==
    \E i \in DOMAIN q, j \in DOMAIN txs :
        /\ \A k \in DOMAIN txs : txs[k] # q[i]
        /\ q[i].acc = txs[j].acc /\ q[i].seq < txs[j].seq

\* Without a gap, the transactions of the block are consecutive like those counted.
LEMMA NoGapConsecutive ==
    ASSUME NEW c \in AccStates, NEW q \in Seq(Txs), NEW txs \in Seq(Txs),
           Consecutive(c, q), Within(txs, q), Ascending(txs), ~GapIn(q, txs)
    PROVE  Consecutive(c, txs)
<1>1. ASSUME NEW i \in DOMAIN txs PROVE c.seq[txs[i].acc] <= txs[i].seq
  <2>1. PICK l \in DOMAIN q : txs[i] = q[l]
    BY DEF Within
  <2>2. c.seq[q[l].acc] <= q[l].seq
    BY DEF Consecutive
  <2>. QED
    BY <2>1, <2>2
<1>2. ASSUME NEW j \in DOMAIN txs, NEW m \in Nat, c.seq[txs[j].acc] <= m, m < txs[j].seq
      PROVE  \E i \in DOMAIN txs : Same(txs[i], txs[j].acc, m)
  <2>1. PICK l \in DOMAIN q : txs[j] = q[l]
    BY DEF Within
  <2>2. PICK i \in DOMAIN q : Same(q[i], q[l].acc, m)
    BY <1>2, <2>1 DEF Consecutive
  <2>3. q[i].acc = txs[j].acc /\ q[i].seq < txs[j].seq
    BY <1>2, <2>1, <2>2 DEF Same
  <2>4. PICK k \in DOMAIN txs : txs[k] = q[i]
    BY <2>3 DEF GapIn
  <2>. QED
    BY <2>1, <2>2, <2>4
<1>. QED
  BY <1>1, <1>2 DEF Consecutive

\* With a gap, they are not.
LEMMA GapNotConsecutive ==
    ASSUME NEW c \in AccStates, NEW q \in Seq(Txs), NEW txs \in Seq(Txs),
           Consecutive(c, q), Within(txs, q), GapIn(q, txs)
    PROVE  ~Consecutive(c, txs)
<1>1. SUFFICES ASSUME Consecutive(c, txs) PROVE FALSE
  OBVIOUS
<1>2. PICK i \in DOMAIN q, j \in DOMAIN txs :
          /\ \A k \in DOMAIN txs : txs[k] # q[i]
          /\ q[i].acc = txs[j].acc /\ q[i].seq < txs[j].seq
  BY DEF GapIn
<1>3. PICK x, y \in Txs : x = q[i] /\ y = txs[j]
  OBVIOUS
<1>4. PICK m \in Nat : m = x.seq
  BY DEF Txs
<1>5. c.seq[x.acc] <= m
  BY <1>3, <1>4 DEF Consecutive
<1>6. PICK k \in DOMAIN txs : Same(txs[k], y.acc, m)
  BY <1>1, <1>2, <1>3, <1>4, <1>5 DEF Consecutive
<1>7. PICK l \in DOMAIN q : txs[k] = q[l]
  BY DEF Within
<1>8. q[l].acc = q[i].acc /\ q[l].seq = q[i].seq
  BY <1>2, <1>3, <1>4, <1>6, <1>7 DEF Same
<1>9. q[i].seq \in Nat
  BY <1>3, <1>4
<1>10. ~(l < i) /\ ~(i < l)
  BY <1>8, <1>9 DEF Consecutive, Ascending
<1>11. l = i
  BY <1>10
<1>. QED
  BY <1>2, <1>7, <1>11

\* The purses that have what was counted have what is in the block.
LEMMA WithinCovered ==
    ASSUME NEW c, NEW g, NEW q \in Seq(Txs), NEW p \in Seq(Txs), NEW txs \in Seq(Txs),
           Covers(c, g, q), CoversBids(g, p), Within(p, q), Within(txs, p)
    PROVE  Within(txs, q) /\ Covers(c, g, txs) /\ CoversBids(g, txs)
<1>1. Within(txs, q)
  BY DEF Within
<1>2. ASSUME NEW i \in DOMAIN txs
      PROVE  /\ AcceptedFee(txs[i])
             /\ PaysFeeToken(txs[i]) => g[txs[i].acc][txs[i].seq] >= Fee
             /\ g[txs[i].acc][txs[i].seq + 1] = g[txs[i].acc][txs[i].seq] - Charge(txs[i])
  <2>1. PICK j \in DOMAIN q : txs[i] = q[j]
    BY <1>1 DEF Within
  <2>2. /\ AcceptedFee(q[j])
        /\ PaysFeeToken(q[j]) => g[q[j].acc][q[j].seq] >= Fee
        /\ g[q[j].acc][q[j].seq + 1] = g[q[j].acc][q[j].seq] - Charge(q[j])
    BY DEF Covers
  <2>. QED
    BY <2>1, <2>2
<1>3. ASSUME NEW i \in DOMAIN txs, IsBid(txs[i])
      PROVE  g[txs[i].acc][txs[i].seq + 1] >= txs[i].shape.spend
  <2>1. PICK j \in DOMAIN p : txs[i] = p[j]
    BY DEF Within
  <2>2. g[p[j].acc][p[j].seq + 1] >= p[j].shape.spend
    BY <1>3, <2>1 DEF CoversBids
  <2>. QED
    BY <2>1, <2>2
<1>4. \A a \in Accounts : g[a][c.seq[a]] = c.funds[a]
  BY DEF Covers
<1>. QED
  BY <1>1, <1>2, <1>3, <1>4 DEF Covers, CoversBids

-----------------------------------------------------------------------------
(* The invariant *)

\* A proposal that PrepareProposal made, for validators with this state.
Prepared ==
    /\ proposal.counted \in Seq(Txs) /\ proposal.txs \in Seq(Txs)
    /\ Consecutive(chain, proposal.counted)
    /\ Within(proposal.txs, proposal.counted) /\ Ascending(proposal.txs)
    /\ \E g \in Purses : Covers(chain, g, proposal.txs) /\ CoversBids(g, proposal.txs)
    /\ ~ConstructFails(Constructed(proposal.txs), proposal.txs)
    /\ ~ExportFails(Constructed(proposal.txs))
    /\ Header(Constructed(proposal.txs)) = Header(builder)

ProposalInv ==
    /\ chain \in AccStates /\ check \in AccStates /\ mempool \in Seq(Txs)
    /\ phase \in {"idle", "proposed", "accepted", "rejected"}
    /\ phase # "idle" => Prepared
    /\ phase = "accepted" => Accepts(proposal.txs, Header(builder))
    /\ phase = "rejected" => ~Accepts(proposal.txs, Header(builder))

\* Validators accept what was prepared if it has no gap and no PFB without its
\* blobs.
LEMMA AcceptsExact ==
    ASSUME chain \in AccStates, Prepared
    PROVE  Accepts(proposal.txs, Header(builder)) <=> ~Gap /\ ~BarePfb
<1>1. PICK c \in AccStates : c = chain
  OBVIOUS
<1>2. PICK q, txs \in Seq(Txs) : q = proposal.counted /\ txs = proposal.txs
  BY DEF Prepared
<1>3. Consecutive(c, q) /\ Within(txs, q) /\ Ascending(txs)
  BY <1>1, <1>2 DEF Prepared
<1>4. PICK g \in Purses : Covers(c, g, txs) /\ CoversBids(g, txs)
  BY <1>1, <1>2 DEF Prepared
<1>5. Gap <=> GapIn(q, txs)
  BY <1>2 DEF Gap, GapIn
<1>6. PICK h : h = AnteLoop(c, txs)
  OBVIOUS
<1>7. AnteFails(txs) <=> ~h[Len(txs)].ok
  BY <1>1, <1>6 DEF AnteFails, AnteLoop
<1>8. h[Len(txs)].ok \in BOOLEAN /\ (h[Len(txs)].ok = TRUE <=> Consecutive(c, txs))
  <2>1. /\ h[Len(txs)].ok \in BOOLEAN
        /\ h[Len(txs)].ok = TRUE => Consecutive(c, txs)
    BY <1>6, AnteExact
  <2>2. Consecutive(c, txs) => h[Len(txs)].ok = TRUE
    BY <1>4, <1>6, AnteExact
  <2>. QED
    BY <2>1, <2>2
<1>9. Consecutive(c, txs) <=> ~GapIn(q, txs)
  BY <1>3, NoGapConsecutive, GapNotConsecutive
<1>10. AnteFails(txs) <=> Gap
  BY <1>5, <1>7, <1>8, <1>9
<1>11. Accepts(txs, Header(builder)) <=> txs = <<>> \/ (~AnteFails(txs) /\ ~BarePfb)
  BY <1>2 DEF Accepts, Prepared, BarePfb
<1>12. txs = <<>> => ~Gap /\ ~BarePfb
  <2>1. ~GapIn(q, <<>>)
    BY DEF GapIn
  <2>2. txs = <<>> => ~BarePfb
    BY <1>2 DEF BarePfb
  <2>. QED
    BY <1>5, <2>1, <2>2
<1>. QED
  BY <1>2, <1>10, <1>11, <1>12

\* What does not touch the block and the committed state keeps the invariant.
LEMMA BlockKept ==
    ASSUME ProposalInv, chain' = chain, builder' = builder, proposal' = proposal,
           phase' = phase, check' \in AccStates, mempool' \in Seq(Txs)
    PROVE  ProposalInv'
<1>1. Prepared' <=> Prepared
  BY DEF Prepared
<1>2. Accepts(proposal.txs, Header(builder))' <=> Accepts(proposal.txs, Header(builder))
  BY DEF Accepts, AnteFails
<1>. QED
  BY <1>1, <1>2 DEF ProposalInv

\* So does a new transaction, at any time.
LEMMA CheckTxKeeps ==
    ASSUME ProposalInv, NEW req \in Txs, CheckTx(req)
    PROVE  ProposalInv'
<1>1. PICK tx \in Txs : tx = WithoutBlobs(req)
  BY WithoutBlobsType
<1>2. PICK v \in Verdicts : v = Checked(check, tx)
  BY CheckedType DEF ProposalInv
<1>3. check' = v.state /\ mempool' = Append(mempool, tx)
  BY <1>1, <1>2 DEF CheckTx
<1>4. check' \in AccStates
  BY <1>3 DEF Verdicts
<1>5. mempool' \in Seq(Txs)
  BY <1>3 DEF ProposalInv
<1>6. chain' = chain /\ builder' = builder /\ proposal' = proposal /\ phase' = phase
  BY DEF CheckTx
<1>. QED
  BY <1>4, <1>5, <1>6, BlockKept

\* So do the rechecks.
LEMMA RecheckKeeps ==
    ASSUME ProposalInv, RecheckTxs
    PROVE  ProposalInv'
<1>1. PICK s \in AccStates, pool \in Seq(Txs) : s = check /\ pool = mempool
  BY DEF ProposalInv
<1>2. PICK h : h = RecheckLoop(s, pool)
  OBVIOUS
<1>3. PICK left : left = Rechecked(pool)
  OBVIOUS
<1>4. left = h[Len(pool)]
  BY <1>1, <1>2, <1>3 DEF Rechecked, RecheckLoop
<1>5. h \in [0..Len(pool) -> Rechecking]
  BY <1>2, RecheckSteps, Zenon DEF ProposalInv
<1>6. Len(pool) \in 0..Len(pool)
  OBVIOUS
<1>7. left \in Rechecking
  BY <1>4, <1>5, <1>6
<1>8. check' = left.state /\ mempool' = left.passed
  BY <1>1, <1>3 DEF RecheckTxs
<1>9. check' \in AccStates /\ mempool' \in Seq(Txs)
  BY <1>7, <1>8 DEF Rechecking
<1>10. chain' = chain /\ builder' = builder /\ proposal' = proposal /\ phase' = phase
  BY DEF RecheckTxs
<1>. QED
  BY <1>9, <1>10, BlockKept

\* The transactions of a selection are those of the mempool.
LEMMA SelectionsType ==
    ASSUME mempool \in Seq(Txs), NEW selected \in Selections
    PROVE  selected \in Seq(Txs)
<1>1. PICK pool \in Seq(Txs) : pool = mempool
  OBVIOUS
<1>2. PICK I \in SUBSET DOMAIN pool : \E q \in SetToSeqs(I) :
          selected = [i \in DOMAIN q |-> pool[q[i]]]
  BY <1>1 DEF Selections
<1>3. PICK n : n = Cardinality(I)
  OBVIOUS
<1>4. n \in Nat
  <2>1. DOMAIN pool = 1..Len(pool) /\ Len(pool) \in Nat
    OBVIOUS
  <2>2. IsFiniteSet(I)
    BY <2>1, RangeFinite, FS_Subset
  <2>. QED
    BY <1>3, <2>2, FS_CardinalityType
<1>5. PICK o \in [1..n -> I] : selected = [i \in DOMAIN o |-> pool[o[i]]]
  BY <1>2, <1>3 DEF SetToSeqs
<1>6. \A i \in 1..n : o[i] \in DOMAIN pool /\ pool[o[i]] \in Txs
  OBVIOUS
<1>7. selected = [i \in 1..n |-> pool[o[i]]]
  BY <1>5
<1>8. selected \in [1..n -> Txs]
  BY <1>6, <1>7
<1>. QED
  BY <1>4, <1>8

\* What PrepareProposal makes is prepared.
LEMMA PrepareKeeps ==
    ASSUME ProposalInv, NEW selected \in Selections, PrepareProposal(selected)
    PROVE  ProposalInv'
<1>1. PICK c \in AccStates : c = chain /\ c = chain'
  BY DEF ProposalInv, PrepareProposal
<1>2. selected \in Seq(Txs)
  BY SelectionsType DEF ProposalInv
<1>3. PICK f : /\ f = IF height = 0 THEN NothingFiltered ELSE FilterTxs(selected)
               /\ builder' = Exported(Build(f.passed).builder)
               /\ proposal' = [counted |-> f.counted,
                               txs |-> Build(f.passed).normalTxs \o Build(f.passed).blobTxs]
  BY DEF PrepareProposal
<1>4. PICK p, q \in Seq(Txs) : /\ p = f.passed /\ q = f.counted
                               /\ Consecutive(c, q) /\ Within(p, q) /\ Ascending(p) /\ Separate(p)
                               /\ \E g \in Purses : Covers(c, g, q) /\ CoversBids(g, p)
  <2>1. f \in Filtering /\ Filtered(c, f, TRUE)
    BY <1>1, <1>2, <1>3, FilterTxsPasses
  <2>2. f.passed \in Seq(Txs) /\ f.counted \in Seq(Txs)
    BY <2>1 DEF Filtering
  <2>3. Separate(f.passed)
    BY <2>1 DEF Filtered, InOrder
  <2>. QED
    BY <2>1, <2>2, <2>3 DEF Filtered, Funded
<1>5. PICK sq : sq = Build(p)
  OBVIOUS
<1>6. sq \in Squares /\ BuiltTo(p, sq, Len(p))
  BY <1>4, <1>5, BuildChooses
<1>7. PICK txs \in Seq(Txs) : txs = sq.normalTxs \o sq.blobTxs
  BY <1>6, SquareTxs
<1>8. PICK b \in GoodBuilders : b = sq.builder
  BY <1>6 DEF Squares
<1>9. /\ b = Constructed(txs) /\ Len(b.txs) + Len(b.pfbs) = Len(txs)
      /\ AllNormal(sq.normalTxs) /\ AllBlobs(sq.blobTxs) /\ Chosen(p, txs, Len(p))
  BY <1>6, <1>7, <1>8 DEF BuiltTo
<1>10. Separate(txs)
  <2>1. PICK s, t \in Seq(Txs) : s = sq.normalTxs /\ t = sq.blobTxs
    BY <1>6 DEF Squares
  <2>2. ASSUME NEW i \in DOMAIN txs, NEW j \in DOMAIN txs, i < j, IsBlobTx(txs[i])
        PROVE  IsBlobTx(txs[j])
    <3>1. AllNormal(s) /\ AllBlobs(t) /\ txs = s \o t
      BY <1>7, <1>9, <2>1
    <3>2. PICK n, m \in Nat : n = Len(s) /\ m = Len(t)
      OBVIOUS
    <3>3. DOMAIN txs = 1..(n + m)
      BY <3>1, <3>2
    <3>4. i > n
      <4>1. SUFFICES ASSUME i <= n PROVE FALSE
        BY <3>3
      <4>2. i \in DOMAIN s /\ txs[i] = s[i]
        BY <3>1, <3>2, <3>3, <4>1
      <4>. QED
        BY <2>2, <3>1, <4>2 DEF AllNormal
    <3>5. PICK l \in 1..m : l = j - n
      BY <2>2, <3>3, <3>4
    <3>6. l \in DOMAIN t /\ txs[j] = t[l]
      BY <3>1, <3>2, <3>3, <3>5
    <3>. QED
      BY <3>1, <3>6 DEF AllBlobs
  <2>. QED
    BY <2>2 DEF Separate
<1>11. ~ConstructFails(b, txs)
  BY <1>9, <1>10 DEF ConstructFails, Separate
<1>12. ~ExportFails(b)
  BY ExportCovered DEF GoodBuilders
<1>13. Header(Exported(b)) = Header(b)
  BY ExportedSame
<1>14. proposal'.counted = q /\ proposal'.txs = txs /\ builder' = Exported(b)
  BY <1>3, <1>4, <1>5, <1>7, <1>8
<1>15. Within(txs, q) /\ Ascending(txs)
       /\ \E g \in Purses : Covers(c, g, txs) /\ CoversBids(g, txs)
  <2>1. Within(txs, p) /\ Ascending(txs)
    <3>1. Chosen(p, txs, Len(p)) /\ DOMAIN p = 1..Len(p)
      BY <1>9
    <3>. QED
      BY <3>1, Zenon DEF Chosen, Within, Ascending
  <2>2. PICK g \in Purses : Covers(c, g, q) /\ CoversBids(g, p)
    BY <1>4
  <2>3. Within(txs, q) /\ Covers(c, g, txs) /\ CoversBids(g, txs)
    BY <1>4, <2>1, <2>2, WithinCovered
  <2>. QED
    BY <2>1, <2>3
<1>16. Prepared'
  BY <1>1, <1>4, <1>9, <1>11, <1>12, <1>13, <1>14, <1>15 DEF Prepared
<1>17. phase' = "proposed" /\ check' \in AccStates /\ mempool' \in Seq(Txs)
  BY DEF ProposalInv, PrepareProposal
<1>. QED
  BY <1>1, <1>16, <1>17 DEF ProposalInv

\* The verdict of the validators keeps the invariant.
LEMMA ProcessKeeps ==
    ASSUME ProposalInv, ProcessProposal
    PROVE  ProposalInv'
<1>1. /\ chain' = chain /\ check' = check /\ mempool' = mempool
      /\ builder' = builder /\ proposal' = proposal
      /\ phase' = IF Accepts(proposal.txs, Header(builder)) THEN "accepted" ELSE "rejected"
  BY DEF ProcessProposal
<1>2. Prepared'
  BY <1>1 DEF ProposalInv, ProcessProposal, Prepared
<1>3. Accepts(proposal.txs, Header(builder))' <=> Accepts(proposal.txs, Header(builder))
  BY <1>1 DEF Accepts, AnteFails
<1>. QED
  BY <1>1, <1>2, <1>3 DEF ProposalInv

\* So does the commit of a block.
LEMMA CommitKeeps ==
    ASSUME ProposalInv, Commit
    PROVE  ProposalInv'
<1>1. PICK c \in AccStates : c = chain
  BY DEF ProposalInv
<1>2. PICK txs, pool \in Seq(Txs) : txs = proposal.txs /\ pool = mempool
  BY DEF ProposalInv, Commit, Prepared
<1>3. PICK s : s = Finalized(txs)
  OBVIOUS
<1>4. PICK left : left = Remaining(pool, Range(txs))
  OBVIOUS
<1>5. chain' = s /\ check' = s /\ mempool' = left /\ phase' = "idle"
  BY <1>2, <1>3, <1>4 DEF Commit
<1>6. s \in AccStates
  <2>1. PICK h : h = FinalizeLoop(c, txs)
    OBVIOUS
  <2>2. s = h[Len(txs)]
    BY <1>1, <1>3, <2>1 DEF Finalized, FinalizeLoop
  <2>3. h \in [0..Len(txs) -> AccStates]
    BY <2>1, FinalizeSteps
  <2>4. Len(txs) \in 0..Len(txs)
    OBVIOUS
  <2>. QED
    BY <2>2, <2>3, <2>4
<1>7. left \in Seq(Txs)
  <2>1. PICK included : included = Range(txs)
    OBVIOUS
  <2>2. PICK h : h = RemainLoop(pool, included)
    OBVIOUS
  <2>3. left = h[Len(pool)]
    BY <1>4, <2>1, <2>2 DEF Remaining, RemainLoop
  <2>4. h \in [0..Len(pool) -> Seq(Txs)]
    BY <2>2, RemainSteps, Zenon
  <2>5. Len(pool) \in 0..Len(pool)
    OBVIOUS
  <2>. QED
    BY <2>3, <2>4, <2>5
<1>. QED
  BY <1>5, <1>6, <1>7 DEF ProposalInv

\* Validators reject what an honest proposer prepared if, and only if, it has a
\* PFB that lost its blobs in CheckTx, or a hole in the sequence numbers of an
\* account: for any accounts, funds, fees, bids, sizes and lengths, and however
\* mempool and chain came about.
THEOREM RejectionsAreExplained == Spec => []RejectionsExplained
<1>1. Init => ProposalInv
  <2>1. SUFFICES ASSUME Init PROVE ProposalInv
    OBVIOUS
  <2>2. chain \in AccStates /\ check \in AccStates
    BY <2>1, ProposalAssumption DEF Init, AccState, AccStates
  <2>3. mempool \in Seq(Txs) /\ phase = "idle"
    BY <2>1 DEF Init
  <2>. QED
    BY <2>2, <2>3 DEF ProposalInv
<1>2. ProposalInv /\ [Next]_vars => ProposalInv'
  <2>1. SUFFICES ASSUME ProposalInv, [Next]_vars PROVE ProposalInv'
    OBVIOUS
  <2>2. CASE UNCHANGED vars
    <3>1. /\ chain' = chain /\ check' = check /\ mempool' = mempool
          /\ builder' = builder /\ proposal' = proposal /\ phase' = phase
      BY <2>2 DEF vars
    <3>2. check' \in AccStates /\ mempool' \in Seq(Txs)
      BY <2>1, <3>1 DEF ProposalInv
    <3>. QED
      BY <2>1, <3>1, <3>2, BlockKept
  <2>3. ASSUME NEW a \in Accounts, NEW shape \in Shapes, NEW seq \in {check.seq[a], chain.seq[a]},
               CheckTx([acc |-> a, seq |-> seq, shape |-> shape])
        PROVE  ProposalInv'
    <3>1. seq \in Nat
      BY <2>1 DEF ProposalInv, AccStates
    <3>2. PICK req \in Txs : req = [acc |-> a, seq |-> seq, shape |-> shape]
      BY <3>1 DEF Txs, KnownShapes
    <3>. QED
      BY <2>1, <2>3, <3>2, CheckTxKeeps
  <2>4. ASSUME NEW selected \in Selections, PrepareProposal(selected) PROVE ProposalInv'
    BY <2>1, <2>4, PrepareKeeps
  <2>5. CASE ProcessProposal
    BY <2>1, <2>5, ProcessKeeps
  <2>6. CASE NewRound
    BY <2>1, <2>6 DEF ProposalInv, NewRound
  <2>7. CASE Commit
    BY <2>1, <2>7, CommitKeeps
  <2>8. CASE RecheckTxs
    BY <2>1, <2>8, RecheckKeeps
  <2>. QED
    BY <2>1, <2>2, <2>3, <2>4, <2>5, <2>6, <2>7, <2>8 DEF Next
<1>3. ProposalInv => RejectionsExplained
  <2>1. SUFFICES ASSUME ProposalInv PROVE RejectionsExplained
    OBVIOUS
  <2>2. phase # "idle" => (Accepts(proposal.txs, Header(builder)) <=> ~Gap /\ ~BarePfb)
    BY <2>1, AcceptsExact DEF ProposalInv
  <2>. QED
    BY <2>1, <2>2 DEF ProposalInv, RejectionsExplained
<1>. QED
  BY <1>1, <1>2, <1>3, PTL DEF Spec

=============================================================================
