-------------------------------- MODULE Square --------------------------------
(***************************************************************************)
(* The data square over time: a proposer appends transactions to a builder *)
(* in any order, and may export the square at any time; what does not fit  *)
(* is refused.  Validators rebuild the square from the transactions of the *)
(* block.                                                                  *)
(***************************************************************************)
EXTENDS SquareBuilder

CONSTANTS MaxTxs, MaxPfbs  \* bounds: transactions of each kind appended

ASSUME BoundsAssumption == {MaxTxs, MaxPfbs} \subseteq Nat

VARIABLE builder

AppendTx(len) ==
    /\ Len(builder.txs) < MaxTxs
    /\ builder' = WithTx(builder, len)

AppendBlobTx(len, blobs) ==
    /\ Len(builder.pfbs) < MaxPfbs
    /\ builder' = WithBlobTx(builder, len, blobs)

\* Errors are returned to PrepareProposal, which panics.
Export ==
    /\ ~ExportFails(builder)
    /\ builder' = Exported(builder)

Init == builder = EmptyBuilder

Next ==
    \/ \E len \in TxLens : AppendTx(len)
    \/ \E len \in PfbLens, blobs \in BlobLists : AppendBlobTx(len, blobs)
    \/ Export

Spec == Init /\ [][Next]_builder

-----------------------------------------------------------------------------
(***************************************************************************)
(* Properties                                                              *)
(***************************************************************************)
\* The builder has its type, and its estimate never exceeds the capacity of the
\* largest square allowed.
TypeOK ==
    /\ builder.txs \in Seq(TxLens) /\ Len(builder.txs) <= MaxTxs
    /\ \A p \in DOMAIN builder.pfbs :
          /\ builder.pfbs[p].len \in PfbLens /\ builder.pfbs[p].blobs \in BlobLists
          /\ Len(builder.pfbs[p].indexes) = Len(builder.pfbs[p].blobs)
    /\ builder.blobs \in Seq(Element)
    /\ builder.txCounter \in Counter /\ builder.pfbCounter \in Counter
    /\ builder.currentSize \in 0..(MaxSquareSize * MaxSquareSize)
    /\ builder.done \in BOOLEAN

\* Whatever has been appended, and however often the square was exported before,
\* Export succeeds: the worst-case share indexes and paddings that the estimate
\* is made of cover the real ones, for every order the blobs are sorted into.
ExportSucceeds == ~ExportFails(builder)

\* Validators who build the square from the proposed transactions, normal ones
\* first, get the proposer's square, although he tried others in between, in
\* another order, that did not fit.
ProposalAccepted ==
    LET Same(c) == /\ Len(c.txs) = Len(builder.txs) /\ Len(c.pfbs) = Len(builder.pfbs)
                   /\ c.currentSize = builder.currentSize
                   /\ Square(c) = Square(builder)
    IN  Same(Construct(builder))

\* Every subtree of every blob's share commitment is a node of the tree over
\* one row of the square: it starts at a multiple of its size and does not
\* cross a row, wherever the blob was placed and whatever size the square has.
CommitmentsInRows ==
    LET InRow(first, size, width) ==
            /\ first % size = 0
            /\ first \div width = (first + size - 1) \div width
        InRows(s) ==
            \A k \in DOMAIN s.blobs :
              \A t \in CommitmentSubtrees(s.blobs[k].element.numShares) :
                InRow(s.blobs[k].start + t.offset, t.size, s.size)
    IN  InRows(Square(builder))

\* The subtrees of a commitment cover the blob's shares, each once, and the
\* blobs follow each other without overlap after the reserved namespaces, in
\* the order of their namespaces.
NamespaceOrder ==
    LET Ordered(s) ==
            /\ \A k \in 2..Len(s.blobs) :
                  /\ s.blobs[k - 1].element.ns <= s.blobs[k].element.ns
                  /\ s.blobs[k - 1].end <= s.blobs[k].start
            /\ s.blobs # <<>> => s.txShares + s.pfbShares <= s.blobs[1].start
        Under(t) == t.offset..(t.offset + t.size - 1)
        Covered(n, trees) ==
            /\ UNION {Under(t) : t \in trees} = 0..(n - 1)
            /\ \A t, u \in trees : t # u => Under(t) \cap Under(u) = {}
    IN  /\ Ordered(Square(builder))
        /\ \A k \in DOMAIN builder.blobs :
              Covered(builder.blobs[k].numShares, CommitmentSubtrees(builder.blobs[k].numShares))

\* Once exported, the share indexes of a wrapped PFB lead to its own blobs: a
\* reader who cuts the PFB's lengths out of the square at these indexes, as
\* Deconstruct does, finds the namespaces the PFB paid for.
IndexesFound ==
    LET Found(blob, index, s) ==
            \E k \in DOMAIN s.blobs :
                /\ s.blobs[k].start = index
                /\ s.blobs[k].element.ns = blob.ns
                /\ s.blobs[k].element.numShares = SparseSharesNeeded(blob.len)
        AllFound(s) ==
            \A p \in DOMAIN builder.pfbs :
              \A i \in DOMAIN builder.pfbs[p].blobs :
                Found(builder.pfbs[p].blobs[i], builder.pfbs[p].indexes[i], s)
    IN  builder.done => AllFound(Square(builder))

\* The counters, which see one transaction at a time, agree with the length of
\* all of them together, delimiters included.
CountersExact ==
    LET worstCase == [p \in DOMAIN builder.pfbs |->
                        [builder.pfbs[p] EXCEPT !.indexes = WorstCaseShareIndexes(Len(@))]]
    IN  /\ CounterSize(builder.txCounter) = CompactSharesNeeded(TxBytes(builder.txs))
        /\ CounterSize(builder.pfbCounter) = CompactSharesNeeded(PfbBytes(worstCase))

\* The shares that hold the bytes of the i-th of some units written one after
\* the other.
BytesRange(lens, i, offset) ==
    LET ShareAt(k) ==
            IF k < FirstCompactShareContentSize THEN 0
            ELSE 1 + (k - FirstCompactShareContentSize) \div ContinuationCompactShareContentSize
        Bytes(j) == SumSeq([l \in 1..j |-> Delimited(lens[l])])
    IN  [start |-> offset + ShareAt(Bytes(i - 1)), end |-> offset + ShareAt(Bytes(i) - 1) + 1]

\* FindTxShareRange answers with exactly the shares a transaction is written to,
\* for PFBs with the indexes that Export filled in.  The end of the range is the
\* share after the last one, as the comments of shares.Range (range.go) and of
\* square.TxShareRange say; the comment of the method itself, "The indexes are
\* both inclusive" (builder.go:268), is wrong about it.
TxRangesExact ==
    LET Exact(lens, offset) ==
            \A i \in DOMAIN lens :
                FindTxShareRange(lens, i, offset) = BytesRange(lens, i, offset)
        wrapperSizes == [p \in DOMAIN builder.pfbs |->
                           WrapperSize(builder.pfbs[p].len, builder.pfbs[p].indexes)]
    IN  builder.done => /\ Exact(builder.txs, 0)
                        /\ Exact(wrapperSizes, CounterSize(builder.txCounter))

=============================================================================
