---------------------------- MODULE SquareBuilder ----------------------------
(***************************************************************************)
(* The builder of the data square (pkg/square, with the share counting of  *)
(* pkg/shares and the blob share commitment rules of pkg/inclusion), as    *)
(* operators.  A builder keeps transactions and an overestimate of the     *)
(* shares they need, and exports the square: the transactions, the wrapped *)
(* PFBs and the blobs, in the order of their namespaces and aligned so     *)
(* that the share commitments are nodes of the row trees.                  *)
(*                                                                         *)
(* A transaction stands for its length in bytes, a blob for its namespace  *)
(* and length.  The square is the position of everything in it.            *)
(***************************************************************************)
EXTENDS Integers, Sequences, SequencesExt

CONSTANTS
    MaxSquareSize,    \* the governance bound on the square size
    SquareSizeUpperBound, \* the hard bound, from which worst-case indexes come
    SubtreeRootThreshold,
    FirstCompactShareContentSize, ContinuationCompactShareContentSize,
    FirstSparseShareContentSize, ContinuationSparseShareContentSize,
    VarintBase,       \* values in one byte of a varint (128)
    WrapperOverhead,  \* bytes an index wrapper adds besides its varying parts
    TxLens,           \* lengths of normal transactions
    PfbLens,          \* lengths of PFB transactions, without the blobs
    BlobLists,        \* the blobs of a blob transaction: sequences of [ns, len]
    MaxPower          \* bound: 2^MaxPower is the largest power of two looked at

PowerOfTwo[k \in 0..MaxPower] == IF k = 0 THEN 1 ELSE 2 * PowerOfTwo[k - 1]
Powers == {PowerOfTwo[k] : k \in 0..MaxPower}

-----------------------------------------------------------------------------
(***************************************************************************)
(* Powers of two and lengths                                               *)
(***************************************************************************)
RoundUpPowerOfTwo(n) == Min({p \in Powers : p >= n})

\* The smallest power of two whose square is at least n.
BlobMinSquareSize(n) == Min({p \in Powers : p * p >= n})

\* Bytes of the varint that encodes n; four suffice for the values looked at.
DelimLen(n) == 1 + Cardinality({k \in 1..3 : n >= VarintBase^k})

\* Shares that hold len bytes, the first with a smaller capacity than the rest.
SharesNeeded(len, first, continuation) ==
    IF len = 0 THEN 0
    ELSE IF len <= first THEN 1
    ELSE 1 + (len - first + continuation - 1) \div continuation

SparseSharesNeeded(len) ==
    SharesNeeded(len, FirstSparseShareContentSize, ContinuationSparseShareContentSize)

CompactSharesNeeded(len) ==
    SharesNeeded(len, FirstCompactShareContentSize, ContinuationCompactShareContentSize)

SumSeq(s) == SumFunction(s)

\* Bytes of n bytes with the delimiter in front of them.
Delimited(n) == n + DelimLen(n)

(* The code finds powers of two by doubling; MaxPower is enough of them. *)
ASSUME SquareAssumption ==
    /\ MaxPower \in Nat
    /\ MaxSquareSize \in Powers /\ SquareSizeUpperBound \in Powers
    /\ MaxSquareSize <= SquareSizeUpperBound
    /\ SubtreeRootThreshold \in Nat \ {0}
    /\ {ContinuationCompactShareContentSize, ContinuationSparseShareContentSize} \subseteq Nat
    /\ FirstCompactShareContentSize \in 1..(ContinuationCompactShareContentSize - 1)
    /\ FirstSparseShareContentSize \in 1..(ContinuationSparseShareContentSize - 1)
    /\ VarintBase \in Nat \ {0, 1} /\ WrapperOverhead \in Nat
    /\ TxLens \subseteq Nat /\ PfbLens \subseteq Nat
    /\ BlobLists \subseteq Seq([ns : Nat, len : Nat])
    /\ \A blobs \in BlobLists :
          \A i \in DOMAIN blobs : SparseSharesNeeded(blobs[i].len) <= PowerOfTwo[MaxPower]

-----------------------------------------------------------------------------
(***************************************************************************)
(* The compact share counter                                               *)
(***************************************************************************)
EmptyCounter == [shares |-> 0, remainder |-> 0]

\* Fill the last share, which takes "room" bytes, with what is left of a unit.
Fill(c, room) ==
    IF c.left >= room - c.remainder
    THEN [shares |-> c.shares + 1, remainder |-> 0, left |-> c.left - (room - c.remainder)]
    ELSE [shares |-> c.shares, remainder |-> c.remainder + c.left, left |-> 0]

FillFirst(c) == IF c.shares = 0 THEN Fill(c, FirstCompactShareContentSize) ELSE c

FillRest(c) ==
    [shares |-> c.shares + c.left \div ContinuationCompactShareContentSize,
     remainder |-> IF c.left > 0 THEN c.left % ContinuationCompactShareContentSize
                   ELSE c.remainder]

\* Put a unit of n bytes, its delimiter included, after what c has counted.
Count(c, n) ==
    FillRest(Fill(FillFirst([shares |-> c.shares, remainder |-> c.remainder, left |-> n]),
                  ContinuationCompactShareContentSize))

\* Mutant: the delimiter in front of a unit is not counted.
CounterAddUndelimited(c, len) == Count(c, len)

CounterAdd(c, len) == Count(c, Delimited(len))

CounterSize(c) == c.shares + (IF c.remainder = 0 THEN 0 ELSE 1)

-----------------------------------------------------------------------------
(***************************************************************************)
(* The blob share commitment rules                                         *)
(***************************************************************************)
SubTreeWidth(n) ==
    Min({RoundUpPowerOfTwo((n + SubtreeRootThreshold - 1) \div SubtreeRootThreshold),
         BlobMinSquareSize(n)})

\* Mutant: the blob starts right after the previous one.
NextShareIndexUnaligned(cursor, n) == cursor

RoundUpByMultipleOf(cursor, v) == IF cursor % v = 0 THEN cursor ELSE (cursor \div v + 1) * v

\* The next multiple of the width of the blob's first subtree.
NextShareIndex(cursor, n) == RoundUpByMultipleOf(cursor, SubTreeWidth(n))

\* The trees of a mountain range over n leaves, as [offset, size]: as many of
\* width w as fit, then one for each binary digit of the rest.
MerkleMountainRangeSizes(n, w) ==
    LET Digits(rest) ==
            {[offset |-> n - rest + (rest \div (2 * p)) * (2 * p), size |-> p] :
               p \in {q \in Powers : (rest \div q) % 2 = 1}}
    IN  {[offset |-> i * w, size |-> w] : i \in 0..(n \div w - 1)} \cup Digits(n % w)

\* The subtrees of the commitment to a blob of n shares.
CommitmentSubtrees(n) == MerkleMountainRangeSizes(n, SubTreeWidth(n))

-----------------------------------------------------------------------------
(***************************************************************************)
(* The builder                                                             *)
(***************************************************************************)
Element == [ns : Nat, pfb : Nat, idx : Nat, numShares : Nat, maxPadding : Nat]
Counter == [shares : Nat, remainder : 0..(ContinuationCompactShareContentSize - 1)]

EmptyBuilder ==
    [txs |-> <<>>, pfbs |-> <<>>, blobs |-> <<>>, txCounter |-> EmptyCounter,
     pfbCounter |-> EmptyCounter, currentSize |-> 0, done |-> FALSE]

\* Mutant: off by one.
CanFitOneMore(b, n) == b.currentSize + n <= MaxSquareSize * MaxSquareSize + 1

CanFit(b, n) == b.currentSize + n <= MaxSquareSize * MaxSquareSize

\* The size of an index wrapper grows with the varints of its share indexes.
WrapperSize(len, indexes) ==
    WrapperOverhead + Delimited(len)
      + Delimited(SumSeq([i \in DOMAIN indexes |-> DelimLen(indexes[i])]))

\* Mutant: the indexes are not expected to grow beyond one byte.
WorstCaseShareIndexesZero(n) == [i \in 1..n |-> 0]

WorstCaseShareIndexes(n) == [i \in 1..n |-> SquareSizeUpperBound * SquareSizeUpperBound]

NewElement(blob, pfb, idx) ==
    LET WithShares(n) == [ns |-> blob.ns, pfb |-> pfb, idx |-> idx, numShares |-> n,
                          maxPadding |-> SubTreeWidth(n) - 1]
    IN  WithShares(SparseSharesNeeded(blob.len))

MaxShareOffset(e) == e.numShares + e.maxPadding

\* What does not fit leaves the builder as it was.
IfFits(b, next) == IF CanFit(b, next.currentSize - b.currentSize) THEN next ELSE b

TxAdded(b, len, counter) ==
    [b EXCEPT !.txs = Append(@, len), !.txCounter = counter,
              !.currentSize = @ + CounterSize(counter) - CounterSize(b.txCounter),
              !.done = FALSE]

\* Mutant: the counter is not reverted when the transaction does not fit.
WithTxUnreverted(b, len) ==
    IfFits([b EXCEPT !.txCounter = CounterAdd(@, len)],
           TxAdded(b, len, CounterAdd(b.txCounter, len)))

\* AppendTx.
WithTx(b, len) == IfFits(b, TxAdded(b, len, CounterAdd(b.txCounter, len)))

\* A wrapper keeps the length of its PFB, the blobs and their share indexes.
PfbAdded(b, pfb, elements, counter) ==
    [b EXCEPT !.pfbs = Append(@, pfb), !.blobs = @ \o elements, !.pfbCounter = counter,
              !.currentSize = @ + CounterSize(counter) - CounterSize(b.pfbCounter)
                                + SumSeq([i \in DOMAIN elements |-> MaxShareOffset(elements[i])]),
              !.done = FALSE]

\* AppendBlobTx.
WithBlobTx(b, len, blobs) ==
    LET Wrapped(indexes) ==
            PfbAdded(b, [len |-> len, blobs |-> blobs, indexes |-> indexes],
                     [i \in DOMAIN blobs |-> NewElement(blobs[i], Len(b.pfbs) + 1, i)],
                     CounterAdd(b.pfbCounter, WrapperSize(len, indexes)))
    IN  IfFits(b, Wrapped(WorstCaseShareIndexes(Len(blobs))))

\* Mutant: blobs are left in the order of their transactions.
SortedBlobsUnsorted(b) == b.blobs

\* A stable sort by namespace: what comes before the i-th blob.
Before(blobs, i) ==
    {j \in DOMAIN blobs : \/ blobs[j].ns < blobs[i].ns
                          \/ blobs[j].ns = blobs[i].ns /\ j < i}

SortedBlobs(b) ==
    [k \in DOMAIN b.blobs |->
        b.blobs[CHOOSE i \in DOMAIN b.blobs : Cardinality(Before(b.blobs, i)) = k - 1]]

\* The end of the shares set aside for transactions and wrapped PFBs.
Reserved(b) == CounterSize(b.txCounter) + CounterSize(b.pfbCounter)

\* Where each of some blobs ends, one after the other from the cursor on.
EndsFrom(cursor, blobs) ==
    LET end[k \in 0..Len(blobs)] ==
            IF k = 0 THEN cursor
            ELSE NextShareIndex(end[k - 1], blobs[k].numShares) + blobs[k].numShares
    IN  end

PlacedAt(e, cursor, start) ==
    [element |-> e, start |-> start, padding |-> start - cursor, end |-> start + e.numShares]

PlacedWith(blobs, ends) ==
    [k \in DOMAIN blobs |->
        PlacedAt(blobs[k], ends[k - 1], NextShareIndex(ends[k - 1], blobs[k].numShares))]

\* The blobs with the position of each and the padding before it.
Placed(b) == PlacedWith(SortedBlobs(b), EndsFrom(Reserved(b), SortedBlobs(b)))

\* Mutant: a PFB's indexes are listed in the order of the square.
ShareIndexesByPosition(pfb, p, placed) ==
    LET own == {k \in DOMAIN placed : placed[k].element.pfb = p}
    IN  [i \in DOMAIN pfb.indexes |->
            placed[CHOOSE k \in own : Cardinality({l \in own : l < k}) = i - 1].start]

\* The starting index of each blob, recorded in the p-th PFB, which paid for it.
ShareIndexes(pfb, p, placed) ==
    [i \in DOMAIN pfb.indexes |->
        placed[CHOOSE k \in DOMAIN placed :
                 placed[k].element.pfb = p /\ placed[k].element.idx = i].start]

IndexedPfbs(b, placed) ==
    [p \in DOMAIN b.pfbs |->
        [b.pfbs[p] EXCEPT !.indexes = ShareIndexes(b.pfbs[p], p, placed)]]

TxBytes(txs) == SumSeq([i \in DOMAIN txs |-> Delimited(txs[i])])

PfbBytes(pfbs) ==
    SumSeq([p \in DOMAIN pfbs |-> Delimited(WrapperSize(pfbs[p].len, pfbs[p].indexes))])

IsEmpty(b) == CounterSize(b.txCounter) = 0 /\ CounterSize(b.pfbCounter) = 0

\* What Export leaves in the builder.
Exported(b) ==
    IF IsEmpty(b) THEN b
    ELSE [b EXCEPT !.blobs = SortedBlobs(b), !.done = TRUE, !.pfbs = IndexedPfbs(b, Placed(b))]

\* The square: its size, the shares written for transactions and for PFBs, where
\* the blobs start and end, and every blob.
SquareWith(b, placed) ==
    [size |-> IF IsEmpty(b) THEN 1 ELSE BlobMinSquareSize(b.currentSize),
     txShares |-> CompactSharesNeeded(TxBytes(b.txs)),
     pfbShares |-> CompactSharesNeeded(PfbBytes(IndexedPfbs(b, placed))),
     nonReservedStart |-> IF placed = <<>> THEN Reserved(b) ELSE placed[1].start,
     end |-> IF placed = <<>> THEN Reserved(b) ELSE placed[Len(placed)].end,
     blobs |-> placed]

Square(b) == SquareWith(b, Placed(b))

\* The defensive checks of Export and WriteSquare.
ExportFails(b) ==
    LET Fails(s) ==
            \/ \E k \in DOMAIN s.blobs : s.blobs[k].padding > s.blobs[k].element.maxPadding
            \/ CounterSize(b.pfbCounter) < s.pfbShares
            \/ s.nonReservedStart < s.txShares + s.pfbShares
            \/ s.size * s.size < s.end
    IN  Fails(Square(b))

\* Construct: the validators' builder, from the transactions of the block.
Construct(b) ==
    LET withTxs[k \in 0..Len(b.txs)] ==
            IF k = 0 THEN EmptyBuilder ELSE WithTx(withTxs[k - 1], b.txs[k])
        withPfbs[k \in 0..Len(b.pfbs)] ==
            IF k = 0 THEN withTxs[Len(b.txs)]
            ELSE WithBlobTx(withPfbs[k - 1], b.pfbs[k].len, b.pfbs[k].blobs)
    IN  withPfbs[Len(b.pfbs)]

\* Mutant: a transaction is taken to start in the share where the last one ended.
RangeStartInLastShare(c) == IF c.shares = 0 THEN 0 ELSE CounterSize(c) - 1

RangeStart(c) == CounterSize(c) - 1 + (IF c.remainder = 0 THEN 1 ELSE 0)

\* The counter before and after each of some units.
Counters(lens) ==
    LET counter[k \in 0..Len(lens)] ==
            IF k = 0 THEN EmptyCounter ELSE CounterAdd(counter[k - 1], lens[k])
    IN  counter

\* FindTxShareRange, for a transaction of either kind: counters run over the
\* transactions before it, and then over itself.
FindTxShareRange(lens, i, offset) ==
    [start |-> offset + RangeStart(Counters(lens)[i - 1]),
     end |-> offset + CounterSize(Counters(lens)[i])]

=============================================================================
