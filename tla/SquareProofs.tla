----------------------------- MODULE SquareProofs -----------------------------
(***************************************************************************)
(* Proofs about Square: every builder a proposer reaches is good, so that  *)
(* exporting it succeeds, the share ranges and indexes lead to what they   *)
(* name, share commitments are nodes of row trees, and the validators      *)
(* rebuild the proposer's square.                                          *)
(***************************************************************************)
EXTENDS Square, SquareTheorems

-----------------------------------------------------------------------------
(* The invariant *)

Inv == Good(builder) /\ Len(builder.txs) <= MaxTxs

\* AppendTx keeps the invariant.
LEMMA AppendTxGood ==
    ASSUME Inv, NEW len \in TxLens, AppendTx(len)
    PROVE  Inv'
<1>1. PICK b, d : b = builder /\ d = builder'
  OBVIOUS
<1>2. Good(b) /\ Len(b.txs) < MaxTxs /\ d = WithTx(b, len) /\ b \in Builder
  BY <1>1 DEF Inv, AppendTx, Good
<1>3. PICK c : c = TxAdded(b, len, CounterAdd(b.txCounter, len))
  OBVIOUS
<1>4. /\ c.txs = Append(b.txs, len)
      /\ c.currentSize <= MaxSquareSize * MaxSquareSize => Good(c)
      /\ d = IF c.currentSize <= MaxSquareSize * MaxSquareSize THEN c ELSE b
  BY <1>2, <1>3, TxAddedGood
<1>5. Good(d) /\ (d = c \/ d = b)
  BY <1>2, <1>4
<1>6. Len(c.txs) = Len(b.txs) + 1 /\ Len(b.txs) \in Nat /\ MaxTxs \in Nat
  BY <1>2, <1>4, AppendFacts, PfbTypes, BoundsAssumption DEF Builder
<1>7. Len(d.txs) <= MaxTxs
  BY <1>2, <1>5, <1>6
<1>. QED
  BY <1>1, <1>5, <1>7 DEF Inv

\* AppendBlobTx keeps the invariant.
LEMMA AppendBlobTxGood ==
    ASSUME Inv, NEW len \in PfbLens, NEW blobs \in BlobLists, AppendBlobTx(len, blobs)
    PROVE  Inv'
<1>1. PICK b, d : b = builder /\ d = builder'
  OBVIOUS
<1>2. Good(b) /\ Len(b.txs) <= MaxTxs /\ d = WithBlobTx(b, len, blobs)
  BY <1>1 DEF Inv, AppendBlobTx
<1>3. PICK c : /\ c.txs = b.txs
               /\ c.currentSize <= MaxSquareSize * MaxSquareSize => Good(c)
               /\ d = IF c.currentSize <= MaxSquareSize * MaxSquareSize THEN c ELSE b
  BY <1>2, PfbAddedGood
<1>4. Good(d) /\ Len(d.txs) <= MaxTxs
  BY <1>2, <1>3
<1>. QED
  BY <1>1, <1>4 DEF Inv

\* Export keeps the invariant.
LEMMA ExportGood ==
    ASSUME Inv, Export
    PROVE  Inv'
<1>1. PICK b, d : b = builder /\ d = builder'
  OBVIOUS
<1>2. Good(b) /\ Len(b.txs) <= MaxTxs /\ d = Exported(b) /\ b \in Builder
  BY <1>1 DEF Inv, Export, Good
<1>3. Good(d)
  BY <1>2, ExportedGood
<1>4. d.txs = b.txs
  BY <1>2 DEF Exported, Builder
<1>. QED
  BY <1>1, <1>2, <1>3, <1>4 DEF Inv

\* The invariant holds of every builder reached.
LEMMA InvHolds == Spec => []Inv
<1>1. Init => Inv
  <2>1. SUFFICES ASSUME Init PROVE Inv
    OBVIOUS
  <2>2. builder = EmptyBuilder
    BY <2>1 DEF Init
  <2>3. Len(EmptyBuilder.txs) = 0 /\ 0 <= MaxTxs
    BY BoundsAssumption DEF EmptyBuilder
  <2>. QED
    BY <2>2, <2>3, EmptyGood DEF Inv
<1>2. Inv /\ [Next]_builder => Inv'
  <2>1. SUFFICES ASSUME Inv, [Next]_builder PROVE Inv'
    OBVIOUS
  <2>2. CASE UNCHANGED builder
    BY <2>1, <2>2 DEF Inv
  <2>3. CASE \E len \in TxLens : AppendTx(len)
    BY <2>1, <2>3, AppendTxGood
  <2>4. CASE \E len \in PfbLens, blobs \in BlobLists : AppendBlobTx(len, blobs)
    BY <2>1, <2>4, AppendBlobTxGood
  <2>5. CASE Export
    BY <2>1, <2>5, ExportGood
  <2>. QED
    BY <2>1, <2>2, <2>3, <2>4, <2>5 DEF Next
<1>. QED
  BY <1>1, <1>2, PTL DEF Spec

-----------------------------------------------------------------------------
(* The theorems *)

\* Whatever is appended, rejected and exported, the builder has its type, and
\* its estimate stays within the capacity of the largest square.
THEOREM BuilderTypes == Spec => []TypeOK
<1>1. Inv => TypeOK
  <2>1. SUFFICES ASSUME Inv PROVE TypeOK
    OBVIOUS
  <2>2. PICK b : b = builder
    OBVIOUS
  <2>3. b \in Builder /\ Sized(b) /\ Matched(b) /\ Len(b.txs) <= MaxTxs
    BY <2>1, <2>2 DEF Inv, Good
  <2>4. ASSUME NEW p \in DOMAIN b.pfbs
        PROVE  /\ b.pfbs[p].len \in PfbLens /\ b.pfbs[p].blobs \in BlobLists
               /\ Len(b.pfbs[p].indexes) = Len(b.pfbs[p].blobs)
    <3>1. b.pfbs[p] \in Pfb
      BY <2>3, SeqFacts DEF Builder
    <3>. QED
      BY <2>3, <3>1 DEF Pfb, Matched
  <2>5. b.currentSize \in 0..(MaxSquareSize * MaxSquareSize)
    <3>1. PICK top \in Nat : top = MaxSquareSize * MaxSquareSize
      <4>1. MaxSquareSize \in Nat
        BY PowersPositive, SquareAssumption
      <4>. QED
        BY <4>1
    <3>2. b.currentSize \in Nat /\ b.currentSize <= top
      BY <2>3, <3>1 DEF Builder, Sized
    <3>. QED
      BY <3>1, <3>2
  <2>6. /\ b.txs \in Seq(TxLens) /\ b.blobs \in Seq(Element) /\ b.txCounter \in Counter
        /\ b.pfbCounter \in Counter /\ b.done \in BOOLEAN
    BY <2>3 DEF Builder
  <2>. QED
    BY <2>2, <2>3, <2>4, <2>5, <2>6 DEF TypeOK
<1>. QED
  BY <1>1, InvHolds, PTL

\* Whatever has been appended and exported before, the defensive checks of
\* Export and WriteSquare never fail: the real paddings, share indexes and
\* sizes are covered by the worst case that the estimate counts.
THEOREM ExportNeverFails == Spec => []ExportSucceeds
<1>1. Inv => ExportSucceeds
  BY ExportCovered DEF Inv, ExportSucceeds
<1>. QED
  BY <1>1, InvHolds, PTL

\* The counters, which see one unit at a time and are reverted when it does not
\* fit, are exact for all of the units together.
THEOREM CountersAgree == Spec => []CountersExact
<1>1. Inv => CountersExact
  <2>1. SUFFICES ASSUME Inv PROVE CountersExact
    OBVIOUS
  <2>2. PICK b : b = builder
    OBVIOUS
  <2>3. b \in Builder /\ Sized(b)
    BY <2>1, <2>2 DEF Inv, Good
  <2>4. PICK n \in Nat : n = Len(b.pfbs) /\ DOMAIN b.pfbs = 1..n
    BY <2>3, PfbTypes
  <2>5. PICK worst : worst = [p \in DOMAIN b.pfbs |->
                                [b.pfbs[p] EXCEPT !.indexes = WorstCaseShareIndexes(Len(@))]]
    OBVIOUS
  <2>6. ASSUME NEW p \in 1..n
        PROVE  /\ worst[p].len = b.pfbs[p].len
               /\ worst[p].indexes = WorstCaseShareIndexes(Len(b.pfbs[p].indexes))
    <3>1. b.pfbs[p] \in Pfb
      BY <2>3, <2>4, PfbTypes
    <3>. QED
      BY <2>4, <2>5, <3>1 DEF Pfb
  <2>7. DOMAIN worst = 1..n
    BY <2>4, <2>5
  <2>8. PfbBytes(worst) = SumSeq(WorstBytes(b.pfbs))
    <3>1. [p \in DOMAIN worst |-> Delimited(WrapperSize(worst[p].len, worst[p].indexes))]
            = WorstBytes(b.pfbs)
      BY <2>4, <2>6, <2>7 DEF WorstBytes
    <3>. QED
      BY <3>1 DEF PfbBytes
  <2>9. /\ CounterSize(b.txCounter) = CompactSharesNeeded(TxBytes(b.txs))
        /\ CounterSize(b.pfbCounter) = CompactSharesNeeded(SumSeq(WorstBytes(b.pfbs)))
    BY <2>3, SizedNat, CounterSizeAt DEF Sized
  <2>. QED
    BY <2>2, <2>5, <2>8, <2>9 DEF CountersExact
<1>. QED
  BY <1>1, InvHolds, PTL

\* After an export, the share indexes recorded in a wrapped PFB lead to blobs of
\* the namespaces and sizes it paid for, in the square that is exported then.
THEOREM IndexesLead == Spec => []IndexesFound
<1>1. Inv => IndexesFound
  <2>1. SUFFICES ASSUME Inv PROVE IndexesFound
    OBVIOUS
  <2>2. PICK b : b = builder
    OBVIOUS
  <2>3. Good(b) /\ b \in Builder
    BY <2>1, <2>2 DEF Inv, Good
  <2>4. PICK n, pl : n = Len(b.blobs) /\ n \in Nat /\ pl = Placed(b) /\ WellPlaced(pl, b, n)
    BY <2>3, GoodPlaced
  <2>5. PICK s : s = Square(b)
    OBVIOUS
  <2>6. s.blobs = pl /\ DOMAIN pl = 1..n
    BY <2>4, <2>5 DEF Square, SquareWith, WellPlaced
  <2>7. ASSUME b.done, NEW p \in DOMAIN b.pfbs, NEW i \in DOMAIN b.pfbs[p].blobs
        PROVE  \E k \in DOMAIN s.blobs :
                  /\ s.blobs[k].start = b.pfbs[p].indexes[i]
                  /\ s.blobs[k].element.ns = b.pfbs[p].blobs[i].ns
                  /\ s.blobs[k].element.numShares = SparseSharesNeeded(b.pfbs[p].blobs[i].len)
    <3>1. PICK k \in 1..n : /\ pl[k].element = NewElement(b.pfbs[p].blobs[i], p, i)
                            /\ ShareIndexes(b.pfbs[p], p, pl)[i] = pl[k].start
      BY <2>3, <2>4, OwnPlace
    <3>2. b.pfbs[p].indexes = ShareIndexes(b.pfbs[p], p, pl)
      BY <2>3, <2>4, <2>7 DEF Good, Pointed
    <3>3. b.pfbs[p].blobs \in BlobLists /\ p \in Nat
      <4>1. DOMAIN b.pfbs = 1..Len(b.pfbs) /\ Len(b.pfbs) \in Nat
        BY <2>3, PfbTypes
      <4>2. p \in 1..Len(b.pfbs) /\ p \in Nat
        BY <4>1
      <4>. QED
        BY <2>3, <4>2, PfbTypes
    <3>4. /\ pl[k].element.ns = b.pfbs[p].blobs[i].ns
          /\ pl[k].element.numShares = SparseSharesNeeded(b.pfbs[p].blobs[i].len)
      BY <3>1, <3>3, NewElementGood
    <3>. QED
      BY <2>6, <3>1, <3>2, <3>4
  <2>. QED
    BY <2>2, <2>5, <2>7 DEF IndexesFound
<1>. QED
  BY <1>1, InvHolds, PTL

\* The range of a unit, by its counters and by its bytes.
LEMMA RangeExact ==
    ASSUME NEW lens, NEW n, Numbers(lens, n), Len(lens) = n, NEW i \in 1..n, NEW offset \in Nat
    PROVE  FindTxShareRange(lens, i, offset) = BytesRange(lens, i, offset)
<1>1. n \in Nat /\ i \in 0..n /\ i - 1 \in 0..n
  BY DEF Numbers
<1>2. PICK x, y, d \in Nat : /\ x = BytesTo(lens, i - 1) /\ y = BytesTo(lens, i)
                             /\ d = Delimited(lens[i]) /\ d # 0
  <2>1. Delimited(lens[i]) \in Nat \ {0}
    BY DelimitedNat DEF Numbers
  <2>2. BytesTo(lens, i - 1) \in Nat /\ BytesTo(lens, i) \in Nat
    BY <1>1, BytesStep, Zenon
  <2>. QED
    BY <2>1, <2>2
<1>3. y = x + d /\ y > 0
  BY <1>2, BytesStep
<1>4. Counters(lens)[i - 1] = CounterAt(x) /\ Counters(lens)[i] = CounterAt(y)
  BY <1>1, <1>2, CountersAt
<1>5. RangeStart(CounterAt(x)) = ShareOf(x) /\ CounterSize(CounterAt(y)) = ShareOf(y - 1) + 1
  BY <1>3, RangeEdges
<1>6. FindTxShareRange(lens, i, offset) =
        [start |-> offset + ShareOf(x), end |-> offset + (ShareOf(y - 1) + 1)]
  BY <1>4, <1>5 DEF FindTxShareRange
<1>7. BytesRange(lens, i, offset) =
        [start |-> offset + ShareOf(x), end |-> offset + ShareOf(y - 1) + 1]
  BY <1>2 DEF BytesRange, BytesTo, ShareOf, F, C
<1>8. ShareOf(y - 1) \in Nat
  <2>1. y - 1 \in Nat
    BY <1>3
  <2>2. CounterAt(y - 1).shares \in Nat
    BY <2>1, CounterAtType
  <2>. QED
    BY <2>2 DEF CounterAt, ShareOf
<1>9. offset + (ShareOf(y - 1) + 1) = offset + ShareOf(y - 1) + 1
  BY <1>8
<1>. QED
  BY <1>6, <1>7, <1>9

\* FindTxShareRange answers with the shares a transaction is written to, for
\* every transaction and every PFB with the indexes it has in the square.
THEOREM ShareRangesExact == Spec => []TxRangesExact
<1>1. Inv => TxRangesExact
  <2>1. SUFFICES ASSUME Inv PROVE TxRangesExact
    OBVIOUS
  <2>2. PICK b : b = builder
    OBVIOUS
  <2>3. b \in Builder /\ Sized(b)
    BY <2>1, <2>2 DEF Inv, Good
  <2>4. PICK n, m \in Nat : /\ n = Len(b.txs) /\ DOMAIN b.txs = 1..n
                            /\ m = Len(b.pfbs) /\ DOMAIN b.pfbs = 1..m
    BY <2>3, PfbTypes
  <2>5. Numbers(b.txs, n)
    BY <2>3, <2>4, PfbTypes DEF Numbers
  <2>6. PICK sizes : sizes = [p \in DOMAIN b.pfbs |-> WrapperSize(b.pfbs[p].len, b.pfbs[p].indexes)]
    OBVIOUS
  <2>7. ASSUME NEW p \in 1..m PROVE sizes[p] \in Nat
    <3>1. b.pfbs[p].len \in Nat /\ b.pfbs[p].indexes \in Seq(Nat)
      BY <2>3, <2>4, PfbTypes
    <3>2. PICK len \in Nat, indexes \in Seq(Nat) : len = b.pfbs[p].len /\ indexes = b.pfbs[p].indexes
      BY <3>1
    <3>3. Numbers(indexes, Len(indexes)) /\ \A i \in 1..Len(indexes) : indexes[i] <= indexes[i]
      BY SeqFacts DEF Numbers
    <3>4. WrapperSize(len, indexes) \in Nat
      BY <3>3, WrapperGrows
    <3>. QED
      BY <2>4, <2>6, <3>2, <3>4
  <2>8. Numbers(sizes, m) /\ Len(sizes) = m /\ DOMAIN sizes = 1..m
    <3>1. sizes = [p \in 1..m |-> sizes[p]] /\ DOMAIN sizes = 1..m
      BY <2>4, <2>6
    <3>2. sizes \in [1..m -> Nat]
      BY <2>7, <3>1
    <3>. QED
      BY <2>7, <3>1, <3>2, FunctionIsSeq DEF Numbers
  <2>9. PICK offset \in Nat : offset = CounterSize(b.txCounter)
    BY <2>3, SizedNat
  <2>10. \A i \in DOMAIN b.txs : FindTxShareRange(b.txs, i, 0) = BytesRange(b.txs, i, 0)
    BY <2>4, <2>5, RangeExact
  <2>11. \A p \in DOMAIN sizes :
            FindTxShareRange(sizes, p, offset) = BytesRange(sizes, p, offset)
    BY <2>8, RangeExact
  <2>. QED
    BY <2>2, <2>6, <2>9, <2>10, <2>11 DEF TxRangesExact
<1>. QED
  BY <1>1, InvHolds, PTL

\* The validators, who build the square from the transactions of the proposal,
\* accept every one of them and get the proposer's square, whatever he tried in
\* between, in whatever order, and however often he exported.
THEOREM ProposalsAccepted == Spec => []ProposalAccepted
<1>1. Inv => ProposalAccepted
  <2>1. SUFFICES ASSUME Inv PROVE ProposalAccepted
    OBVIOUS
  <2>2. PICK b : b = builder
    OBVIOUS
  <2>3. Good(b)
    BY <2>1, <2>2 DEF Inv
  <2>4. PICK n, m : n = Len(b.txs) /\ m = Len(b.pfbs)
    OBVIOUS
  <2>5. PICK h : h = TxLoop(b, n)
    OBVIOUS
  <2>6. PICK w : w = PfbLoop(b, m, h[n])
    OBVIOUS
  <2>7. Construct(b) = w[m]
    BY <2>4, <2>5, <2>6 DEF Construct, TxLoop, PfbLoop
  <2>8. Good(h[n]) /\ Prefix(h[n], b) /\ Len(h[n].txs) = n /\ Len(h[n].pfbs) = 0
    BY <2>3, <2>4, <2>5, TxsConstructed
  <2>9. Good(w[m]) /\ Prefix(w[m], b) /\ Len(w[m].pfbs) = m /\ w[m].txs = h[n].txs
    BY <2>3, <2>4, <2>6, <2>8, PfbsConstructed
  <2>10. PICK c : c = w[m]
    OBVIOUS
  <2>11. Len(c.txs) = Len(b.txs) /\ Len(c.pfbs) = Len(b.pfbs)
    BY <2>4, <2>8, <2>9, <2>10
  <2>12. c.currentSize = b.currentSize /\ Square(c) = Square(b)
    BY <2>3, <2>9, <2>10, <2>11, SameSquare
  <2>. QED
    BY <2>2, <2>7, <2>10, <2>11, <2>12 DEF ProposalAccepted
<1>. QED
  BY <1>1, InvHolds, PTL

\* Every subtree of every share commitment is a node of the tree over one row,
\* wherever its blob was placed and whatever size the square has.
THEOREM CommitmentsAligned == Spec => []CommitmentsInRows
<1>1. ASSUME Inv PROVE CommitmentsInRows
  <2>1. PICK b : b = builder /\ Good(b)
    BY <1>1 DEF Inv
  <2>2. b \in Builder /\ Sized(b) /\ Matched(b) /\ Stable(b)
    BY <2>1 DEF Good
  <2>3. PICK n, pl : n = Len(b.blobs) /\ n \in Nat /\ pl = Placed(b) /\ WellPlaced(pl, b, n)
    BY <2>1, GoodPlaced
  <2>4. PICK s : s = Square(b)
    OBVIOUS
  <2>5. s.blobs = pl /\ s.size = IF IsEmpty(b) THEN 1 ELSE BlobMinSquareSize(b.currentSize)
    BY <2>3, <2>4 DEF Square, SquareWith
  <2>6. ASSUME NEW k \in 1..n, NEW t \in CommitmentSubtrees(pl[k].element.numShares)
        PROVE  /\ (pl[k].start + t.offset) % t.size = 0
               /\ (pl[k].start + t.offset) \div s.size
                    = (pl[k].start + t.offset + t.size - 1) \div s.size
    <3>1. PICK m \in Nat : m = pl[k].element.numShares /\ m <= PowerOfTwo[MaxPower]
      <4>1. PICK j \in 1..n : SortedBlobs(b)[k] = b.blobs[j]
        BY <2>2, <2>3, SortedIncreasing
      <4>2. pl[k].element = b.blobs[j]
        BY <2>3, <4>1 DEF WellPlaced
      <4>. QED
        BY <2>1, <2>3, <4>2, ElementShares
    <3>2. PICK start, end, size \in Nat :
              /\ start = pl[k].start /\ end = pl[k].end /\ size = b.currentSize
              /\ end = start + m /\ end <= size /\ start % SubTreeWidth(m) = 0
      <4>1. b.currentSize = Reserved(b) + SumSeq(Offsets(b.blobs)) /\ b.currentSize \in Nat
        BY <2>1, <2>2, GoodPlaced DEF Builder
      <4>2. /\ pl[k].start \in Nat /\ pl[k].end \in Nat
            /\ pl[k].end = pl[k].start + pl[k].element.numShares
            /\ pl[k].end <= Reserved(b) + SumSeq(Offsets(b.blobs))
            /\ pl[k].start % SubTreeWidth(pl[k].element.numShares) = 0
        BY <2>3, Zenon DEF WellPlaced
      <4>. QED
        BY <3>1, <4>1, <4>2, Zenon
    <3>3. m <= size /\ size <= MaxSquareSize * MaxSquareSize
      <4>1. size <= MaxSquareSize * MaxSquareSize
        BY <2>2, <3>2 DEF Sized
      <4>. QED
        BY <3>2, <4>1
    <3>4. ~IsEmpty(b)
      BY <2>1, <2>3, <2>6, EmptyHasNoBlobs
    <3>5. PICK side \in Nat \ {0} : side = s.size /\ Multiple(side, SubTreeWidth(m))
      <4>1. /\ BlobMinSquareSize(size) \in Nat \ {0}
            /\ Multiple(BlobMinSquareSize(size), SubTreeWidth(m))
        BY <3>1, <3>3, WidthInSquare
      <4>. QED
        BY <2>5, <3>2, <3>4, <4>1
    <3>6. /\ start + t.offset \in Nat /\ t.size \in Nat \ {0}
          /\ Multiple(start + t.offset, t.size) /\ Multiple(side, t.size)
      <4>1. t \in CommitmentSubtrees(m)
        BY <2>6, <3>1
      <4>. QED
        BY <3>1, <3>2, <3>5, <4>1, SubtreeAligned
    <3>7. PICK a \in Nat, z \in Nat \ {0} : a = start + t.offset /\ z = t.size
      BY <3>6
    <3>8. a % z = 0 /\ a \div side = (a + z - 1) \div side
      BY <3>6, <3>7, OneRow
    <3>. QED
      BY <3>2, <3>5, <3>7, <3>8
  <2>7. DOMAIN s.blobs = 1..n
    BY <2>3, <2>5 DEF WellPlaced
  <2>. QED
    BY <2>1, <2>4, <2>5, <2>6, <2>7 DEF CommitmentsInRows
<1>. QED
  BY <1>1, InvHolds, PTL

\* The subtrees of a commitment cover the blob's shares, each once, and the
\* blobs follow each other without overlap behind the reserved namespaces, in
\* the order of their namespaces.
THEOREM NamespacesOrdered == Spec => []NamespaceOrder
<1>1. ASSUME Inv PROVE NamespaceOrder
  <2>1. PICK b : b = builder /\ Good(b)
    BY <1>1 DEF Inv
  <2>2. b \in Builder /\ Sized(b) /\ Matched(b) /\ Stable(b)
    BY <2>1 DEF Good
  <2>3. PICK n, pl : n = Len(b.blobs) /\ n \in Nat /\ pl = Placed(b) /\ WellPlaced(pl, b, n)
    BY <2>1, GoodPlaced
  <2>4. PICK s : s = Square(b)
    OBVIOUS
  <2>5. s.blobs = pl /\ Len(pl) = n
    BY <2>3, <2>4 DEF Square, SquareWith, WellPlaced
  <2>6. ASSUME NEW k \in 2..n
        PROVE  pl[k - 1].element.ns <= pl[k].element.ns /\ pl[k - 1].end <= pl[k].start
    <3>1. PICK j \in 1..n : j = k - 1 /\ k \in 1..n /\ j < k
      BY <2>3
    <3>2. Increasing(SortedBlobs(b), n)
      BY <2>2, <2>3, SortedIncreasing
    <3>3. PICK t : t = SortedBlobs(b) /\ Increasing(t, n)
      BY <3>2
    <3>4. t[j].ns \in Nat /\ t[k].ns \in Nat /\ Less(t[j], t[k])
      BY <3>1, <3>3 DEF Increasing
    <3>5. t[j].ns <= t[k].ns
      BY <3>4 DEF Less
    <3>6. pl[j].element = t[j] /\ pl[k].element = t[k] /\ pl[j].end <= pl[k].start
      BY <2>3, <3>1, <3>3 DEF WellPlaced
    <3>. QED
      BY <3>1, <3>5, <3>6
  <2>7. pl # <<>> => s.txShares + s.pfbShares <= pl[1].start
    BY <2>1, <2>3, <2>4, ExportCovered
  <2>8. ASSUME NEW k \in 1..n
        PROVE  Tiles(CommitmentSubtrees(b.blobs[k].numShares), 0, b.blobs[k].numShares)
    <3>1. PICK m \in Nat : m = b.blobs[k].numShares /\ m <= PowerOfTwo[MaxPower]
      BY <2>1, <2>3, ElementShares
    <3>2. PICK w \in Powers : w = SubTreeWidth(m)
      BY <3>1, WidthType
    <3>3. Tiles(MerkleMountainRangeSizes(m, w), 0, m)
      BY <3>2, RangeSizes
    <3>. QED
      BY <3>1, <3>2, <3>3 DEF CommitmentSubtrees
  <2>9. ASSUME NEW k \in 1..n
        PROVE  LET trees == CommitmentSubtrees(b.blobs[k].numShares)
               IN  /\ UNION {Under(t) : t \in trees} = 0..(b.blobs[k].numShares - 1)
                   /\ \A t, u \in trees : t # u => Under(t) \cap Under(u) = {}
    <3>1. b.blobs[k].numShares \in Nat
      BY <2>1, <2>3, ElementShares
    <3>. QED
      BY <2>8, <3>1, TilesCover
  <2>10. DOMAIN b.blobs = 1..n
    BY <2>2, <2>3, PfbTypes
  <2>. QED
    BY <2>1, <2>4, <2>5, <2>6, <2>7, <2>9, <2>10 DEF NamespaceOrder, Under
<1>. QED
  BY <1>1, InvHolds, PTL

=============================================================================
