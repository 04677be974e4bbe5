------------------------------- MODULE Proposal -------------------------------
(***************************************************************************)
(* Blocks from the mempool to the committed state (app/abci_check_tx.go,   *)
(* abci_prepare_proposal.go, abci_process_proposal.go, das_validate_txs.go *)
(* and the ante handler of app/ante), composed with the data square.       *)
(*                                                                         *)
(* CheckTx takes the blobs off a blob transaction before the laned mempool *)
(* of the application sees it.  The proposer runs the ante handler over    *)
(* the transactions it selected from that mempool, in one context, and     *)
(* then builds the square from those that passed.  The validators run the  *)
(* same ante handler over the transactions of the block, refuse a PFB      *)
(* without its blobs, and rebuild the square.  Of the ante handler the     *)
(* model keeps what carries over from one transaction to the next, in the  *)
(* order of its decorators: the fee is deducted, the sequence number       *)
(* compared with the account's, then incremented, and last a bid of the    *)
(* block auction compared with the bidder's funds.                         *)
(*                                                                         *)
(* app.go gives this ante handler to the proposals and to the CheckTx of   *)
(* bids.  CheckTx of the rest and FinalizeBlock run the SDK's own          *)
(* (external), which takes fees in any denomination.                       *)
(***************************************************************************)
EXTENDS SquareBuilder

CONSTANTS
    Accounts,
    Shapes,        \* what users submit: [kind, len, blobs, feeDenom, spend]
    Fee,           \* the fee of every transaction
    InitialFunds,  \* fee tokens of each account
    MaxMempool, MaxSequence, MaxHeight  \* bounds

(* What CheckTx lets through: normal transactions, bids and blob            *)
(* transactions, whose lengths are without the blobs.  Fees and amounts are *)
(* not negative.                                                            *)
ASSUME ProposalAssumption ==
    /\ {Fee, InitialFunds} \subseteq Nat
    /\ \A shape \in Shapes :
          /\ shape.kind \in {"normal", "bid", "blob"}
          /\ shape.kind = "blob" => shape.len \in PfbLens /\ shape.blobs \in BlobLists
          /\ shape.len \in TxLens
          /\ shape.spend \in Nat

VARIABLES
    chain,     \* committed state: sequence number and funds of each account
    check,     \* the state CheckTx works on
    height,    \* LastBlockHeight
    mempool,   \* the application's: what passed CheckTx, in that order
    rechecked, \* has the mempool been checked since the last commit
    builder,   \* the proposer's square
    proposal,  \* transactions of the block, and those the filter counted
    phase      \* "idle", "proposed", "accepted" or "rejected"

vars == <<chain, check, height, mempool, rechecked, builder, proposal, phase>>

NoProposal == [counted |-> <<>>, txs |-> <<>>]

IsBlobTx(tx) == tx.shape.kind = "blob"
IsBarePfb(tx) == tx.shape.kind = "pfb"
IsBid(tx) == tx.shape.kind = "bid"

\* btx.Tx: a blob transaction without its blobs is a normal transaction with a
\* PFB in it.
BareShape(shape) ==
    [kind |-> "pfb", len |-> shape.len, blobs |-> <<>>,
     feeDenom |-> shape.feeDenom, spend |-> shape.spend]

WithoutBlobs(tx) ==
    IF IsBlobTx(tx) THEN [acc |-> tx.acc, seq |-> tx.seq, shape |-> BareShape(tx.shape)] ELSE tx

-----------------------------------------------------------------------------
(***************************************************************************)
(* Ante handlers: the verdict on a transaction and the state it leaves     *)
(* behind, which is not the old one if the sequence number was wrong or    *)
(* the bid refused.                                                        *)
(***************************************************************************)
AccState(seq, funds) == [seq |-> seq, funds |-> funds]

Paid(s, tx) == AccState(s.seq, [s.funds EXCEPT ![tx.acc] = @ - Fee])

Signed(s, tx) == AccState([s.seq EXCEPT ![tx.acc] = @ + 1], s.funds)

PaysFeeToken(tx) == tx.shape.feeDenom = "fee"

\* The fee denomination, or one of BypassDenoms.  Of the others the accounts
\* are taken to have enough.
AcceptedFee(tx) == tx.shape.feeDenom \in {"fee", "bypass"}

HasFunds(s, tx) == PaysFeeToken(tx) => s.funds[tx.acc] >= Fee

AfterFee(s, tx) == IF PaysFeeToken(tx) THEN Paid(s, tx) ELSE s

Verdict(ok, s) == [ok |-> ok, state |-> s]

SequenceChecked(s, tx) ==
    IF s.seq[tx.acc] = tx.seq THEN Verdict(TRUE, Signed(s, tx)) ELSE Verdict(FALSE, s)

\* AuctionDecorator (external): a bidder needs the funds for his bid.
BidRefused(s, tx) == IsBid(tx) /\ s.funds[tx.acc] < tx.shape.spend

\* It comes after the sequence number was incremented.
BidChecked(v, tx) ==
    IF v.ok /\ BidRefused(v.state, tx) THEN Verdict(FALSE, v.state) ELSE v

\* NewAnteHandler.  RedundantRelayDecorator acts on CheckTx only.
AnteHandler(s, tx) ==
    IF AcceptedFee(tx) /\ HasFunds(s, tx)
    THEN BidChecked(SequenceChecked(AfterFee(s, tx), tx), tx)
    ELSE Verdict(FALSE, s)

\* The SDK's ante handler.
SDKAnteHandler(s, tx) ==
    IF HasFunds(s, tx) THEN SequenceChecked(AfterFee(s, tx), tx) ELSE Verdict(FALSE, s)

\* CheckTx in the state s: BaseApp keeps the writes of an ante handler that
\* succeeded.  The handler of the MEV lane checks a bid on the committed state
\* and keeps nothing.
Checked(s, tx) ==
    LET Kept(v) == IF v.ok THEN v ELSE Verdict(FALSE, s)
    IN  IF IsBid(tx) THEN Verdict(AnteHandler(chain, tx).ok, s)
        ELSE Kept(SDKAnteHandler(s, tx))

\* FinalizeBlock: after the ante handler the messages run; a normal
\* transaction may move funds out of its account.
Delivered(s, tx) ==
    LET Executed(v) ==
            IF v.ok /\ v.state.funds[tx.acc] >= tx.shape.spend
            THEN AccState(v.state.seq, [v.state.funds EXCEPT ![tx.acc] = @ - tx.shape.spend])
            ELSE IF v.ok THEN v.state ELSE s
    IN  Executed(SDKAnteHandler(s, tx))

-----------------------------------------------------------------------------
(***************************************************************************)
(* PrepareProposal                                                         *)
(***************************************************************************)
\* The context, what passed, and (history) what incremented the sequence number
\* of its account in this context.
NothingFiltered == [state |-> chain, passed |-> <<>>, counted |-> <<>>]

\* Mutant: every transaction is checked on the committed state.
FilterFresh(f, tx) ==
    LET Next(v) == [state |-> f.state,
                    passed |-> IF v.ok THEN Append(f.passed, tx) ELSE f.passed,
                    counted |-> IF v.ok THEN Append(f.counted, tx) ELSE f.counted]
    IN  Next(AnteHandler(f.state, tx))

Filter(f, tx) ==
    LET Next(v) ==
          [state |-> v.state,
           passed |-> IF v.ok THEN Append(f.passed, tx) ELSE f.passed,
           counted |-> IF v.state.seq # f.state.seq THEN Append(f.counted, tx) ELSE f.counted]
    IN  Next(AnteHandler(f.state, tx))

\* filterStdTxs or filterBlobTxs, over those of one kind that separateTxs found.
FilterKind(start, txs, blobs) ==
    LET f[k \in 0..Len(txs)] ==
            IF k = 0 THEN start
            ELSE IF IsBlobTx(txs[k]) = blobs THEN Filter(f[k - 1], txs[k]) ELSE f[k - 1]
    IN  f[Len(txs)]

\* FilterTxs: normal transactions first, blob transactions after them, in one
\* context from the first to the last, whether they pass or not.
FilterTxs(txs) == FilterKind(FilterKind(NothingFiltered, txs, FALSE), txs, TRUE)

Appended(b, tx) ==
    IF IsBlobTx(tx) THEN WithBlobTx(b, tx.shape.len, tx.shape.blobs)
    ELSE WithTx(b, tx.shape.len)

\* A transaction that does not fit leaves the builder as it was.
Grown(sq, tx, b) ==
    [builder |-> b,
     normalTxs |-> IF b # sq.builder /\ ~IsBlobTx(tx) THEN Append(sq.normalTxs, tx)
                   ELSE sq.normalTxs,
     blobTxs |-> IF b # sq.builder /\ IsBlobTx(tx) THEN Append(sq.blobTxs, tx)
                 ELSE sq.blobTxs]

\* square.Build: a transaction that does not fit is left out, and the next
\* one tried.
Build(txs) ==
    LET sq[k \in 0..Len(txs)] ==
            IF k = 0 THEN [builder |-> EmptyBuilder, normalTxs |-> <<>>, blobTxs |-> <<>>]
            ELSE Grown(sq[k - 1], txs[k], Appended(sq[k - 1].builder, txs[k]))
    IN  sq[Len(txs)]

\* NewBuilder with the transactions of a block.
Constructed(txs) ==
    LET b[k \in 0..Len(txs)] ==
            IF k = 0 THEN EmptyBuilder ELSE Appended(b[k - 1], txs[k])
    IN  b[Len(txs)]

\* square.Construct fails if a transaction does not fit, or a normal one comes
\* after a blob transaction.
ConstructFails(b, txs) ==
    \/ Len(b.txs) + Len(b.pfbs) # Len(txs)
    \/ \E i, j \in DOMAIN txs : i < j /\ IsBlobTx(txs[i]) /\ ~IsBlobTx(txs[j])

\* What the proposer publishes of its square: size and data root.
Header(b) == Square(b)

-----------------------------------------------------------------------------
Init ==
    /\ chain = AccState([a \in Accounts |-> 0], [a \in Accounts |-> InitialFunds])
    /\ check = chain
    /\ height = 0
    /\ mempool = <<>> /\ rechecked = TRUE
    /\ builder = EmptyBuilder
    /\ proposal = NoProposal
    /\ phase = "idle"

\* CheckTx of a new transaction, after the rechecks that CometBFT has sent
\* before, at any time of a round.  A transaction with a PFB and no blobs, or
\* with blobs that do not belong to it, is refused and not among the shapes.
\* What CometBFT has seen already it does not send again.
CheckTx(req) ==
    /\ height > 0 /\ rechecked
    /\ Len(mempool) < MaxMempool /\ req.seq < MaxSequence
    /\ \E tx \in {WithoutBlobs(req)} :
          /\ tx \notin Range(mempool)
          /\ Checked(check, tx).ok
          /\ check' = Checked(check, tx).state
          /\ mempool' = Append(mempool, tx)
    /\ UNCHANGED <<chain, height, rechecked, builder, proposal, phase>>

\* The selection of BaseApp (external): lanes may put a transaction before
\* an earlier one of the same account, or leave some out.
Selections ==
    LET Orders(I) == SetToSeqs(I)
    IN  {[i \in DOMAIN o |-> mempool[o[i]]] :
           o \in UNION {Orders(I) : I \in SUBSET DOMAIN mempool}}

PrepareProposal(selected) ==
    /\ phase = "idle" /\ height < MaxHeight
    /\ \E f \in {IF height = 0 THEN NothingFiltered ELSE FilterTxs(selected)} :
       \E sq \in {Build(f.passed)} :
          /\ ~ExportFails(sq.builder)
          /\ builder' = Exported(sq.builder)
          /\ proposal' = [counted |-> f.counted, txs |-> sq.normalTxs \o sq.blobTxs]
    /\ phase' = "proposed"
    /\ UNCHANGED <<chain, check, height, mempool, rechecked>>

\* The ante handler of the validators, which stops at the first failure.
AnteFails(txs) ==
    LET v[k \in 0..Len(txs)] ==
            IF k = 0 THEN Verdict(TRUE, chain)
            ELSE IF v[k - 1].ok THEN AnteHandler(v[k - 1].state, txs[k]) ELSE v[k - 1]
    IN  ~v[Len(txs)].ok

Accepts(txs, header) ==
    \/ txs = <<>>
    \/ /\ ~AnteFails(txs)
       /\ \A k \in DOMAIN txs : ~IsBarePfb(txs[k])
       /\ \E b \in {Constructed(txs)} :
            ~ConstructFails(b, txs) /\ ~ExportFails(b) /\ Header(b) = header

ProcessProposal ==
    /\ phase = "proposed"
    /\ phase' = IF Accepts(proposal.txs, Header(builder)) THEN "accepted" ELSE "rejected"
    /\ UNCHANGED <<chain, check, height, mempool, rechecked, builder, proposal>>

\* CometBFT starts another round (external).
NewRound ==
    /\ phase = "rejected"
    /\ phase' = "idle" /\ proposal' = NoProposal /\ builder' = EmptyBuilder
    /\ UNCHANGED <<chain, check, height, mempool, rechecked>>

\* FinalizeBlock.
Finalized(txs) ==
    LET s[k \in 0..Len(txs)] == IF k = 0 THEN chain ELSE Delivered(s[k - 1], txs[k])
    IN  s[Len(txs)]

\* What is left of the mempool without the transactions of a block.
Remaining(txs, included) ==
    LET left[k \in 0..Len(txs)] ==
            IF k = 0 THEN <<>>
            ELSE IF txs[k] \in included THEN left[k - 1] ELSE Append(left[k - 1], txs[k])
    IN  left[Len(txs)]

\* FinalizeBlock and Commit, which wait for the rechecks of the block before,
\* and take the block out of the mempool.
Commit ==
    /\ phase = "accepted" /\ rechecked
    /\ \E s \in {Finalized(proposal.txs)} : chain' = s /\ check' = s
    /\ mempool' = Remaining(mempool, Range(proposal.txs)) /\ rechecked' = FALSE
    /\ height' = height + 1
    /\ phase' = "idle" /\ proposal' = NoProposal /\ builder' = EmptyBuilder

\* CheckTx of what is in the mempool already.
Recheck(f, tx) ==
    LET Next(v) == [state |-> v.state,
                    passed |-> IF v.ok THEN Append(f.passed, tx) ELSE f.passed]
    IN  Next(Checked(f.state, tx))

Rechecked(txs) ==
    LET f[k \in 0..Len(txs)] ==
            IF k = 0 THEN [state |-> check, passed |-> <<>>] ELSE Recheck(f[k - 1], txs[k])
    IN  f[Len(txs)]

\* CometBFT rechecks its mempool after a commit, on a connection of its own:
\* the next proposal may be prepared before (external).
RecheckTxs ==
    /\ ~rechecked
    /\ \E left \in {Rechecked(mempool)} : check' = left.state /\ mempool' = left.passed
    /\ rechecked' = TRUE
    /\ UNCHANGED <<chain, height, builder, proposal, phase>>

\* A user signs for the check state, or for the committed state.
Next ==
    \/ \E a \in Accounts, shape \in Shapes : \E seq \in {check.seq[a], chain.seq[a]} :
          CheckTx([acc |-> a, seq |-> seq, shape |-> shape])
    \/ \E selected \in Selections : PrepareProposal(selected)
    \/ ProcessProposal
    \/ NewRound
    \/ Commit
    \/ RecheckTxs

Spec == Init /\ [][Next]_vars

-----------------------------------------------------------------------------
(***************************************************************************)
(* Properties                                                              *)
(***************************************************************************)
\* A transaction that incremented its account's sequence number in the proposer's
\* context and is not in the block, although a later one of the account is.
Gap ==
    \E i \in DOMAIN proposal.counted, j \in DOMAIN proposal.txs :
        LET out == proposal.counted[i]
            in  == proposal.txs[j]
        IN  /\ \A k \in DOMAIN proposal.txs : proposal.txs[k] # out
            /\ out.acc = in.acc /\ out.seq < in.seq

BarePfb == \E k \in DOMAIN proposal.txs : IsBarePfb(proposal.txs[k])

\* Validators reject what an honest proposer prepared in two cases only, and
\* always in these.  The block has a PFB that lost its blobs in CheckTx.  Or it
\* has a hole in the sequence numbers of an account: PrepareProposal runs the
\* ante handler before square.Build chooses, and in a context that keeps the
\* sequence number of a bid refused by the last decorator.  In particular no
\* fee that a failing transaction paid in the proposer's context, no order of
\* the selection and no entry of the mempool that a commit made stale can make
\* the two sides disagree on sequence numbers, fees, bids, the square's size or
\* its root.
RejectionsExplained ==
    /\ phase = "rejected" => Gap \/ BarePfb
    /\ phase = "accepted" => ~Gap /\ ~BarePfb

\* PrepareProposal: "filter out invalid transactions."  What it proposes has no
\* PFB without its blobs, which ProcessProposal calls invalid.
InvalidFilteredOut == phase = "proposed" => ~BarePfb

=============================================================================
