# Sunrise in TLA+

A specification of the parts of the Sunrise node that carry its own logic, with
TLC models of small instances and TLAPS proofs for all instances. Source paths
are relative to the repository.

## 1. The system

Sunrise is a Cosmos SDK chain with a data availability layer. CometBFT decides
on blocks; the application orders transactions and blobs into a *data square*
whose root is the block's data hash. The modules under `x/` are ordinary state
machines: transactions of a block run one after the other, then EndBlockers.
What makes the code hard is not threads but *orders*: of transactions within and
across blocks, of packets, acknowledgements and timeouts between chains, of
governance changes, of pruning; and values that are computed before what they
depend on is known.

| Component | State | Operations | Hard behaviour | What makes it correct |
|---|---|---|---|---|
| `x/blobstream` | attestations by nonce, latest and earliest nonce, EVM address per operator, last unbonding height, window parameter | EndBlocker (validator set request, data commitment loop, pruning), staking hooks, `RegisterEvmAddress`, `UpdateParams`, genesis | pruning by age against look-ups by recency; hooks and EndBlockers in one block; default addresses that collide; a loop in the EndBlocker | nonces without gaps; ranges tile the chain; no panic; the last requested set is the bonded one |
| `x/swap` IBC middleware | waiting incoming packets, outgoing packets with retries | `OnRecvPacket`, `OnAcknowledgementPacket`, `OnTimeoutPacket` around the transfer module | two legs answered in any order, resends under new sequence numbers, refunds, panics that roll a transaction back | every received packet is answered exactly once; records match packets; retries are bounded; escrow adds up |
| `pkg/square`, `pkg/shares`, `pkg/inclusion` | a builder: pending transactions, PFBs, blobs, counters, size estimate | `AppendTx`, `AppendBlobTx`, `Export`, `Construct`, share ranges, commitments | estimates made before the order is known, varints whose length depends on the layout, boundaries of shares, rows and powers of two | export never fails; proposer and validators get one square; commitments are nodes of row trees |
| `app` proposals | mempool lanes, ante state | `CheckTx`, `PrepareProposal`, `ProcessProposal` | the proposer's filter and the validators' check run on different transaction lists, and on a mempool of transactions that lost their blobs | an honest proposal is accepted |
| `x/swap` routes | none (pure, over pools) | exact-in and exact-out over nested series and parallel routes | rounding, weights, recursion | amounts are conserved |
| `x/liquiditypool` | pools, positions, ticks, accumulators | create, increase, decrease, collect, swap, allocate incentives | ticks crossed while accumulators grow, boundaries of a position's range | active liquidity is the sum of the positions in range; claims never exceed what came in |
| `x/liquidityincentive` | votes, gauges, epochs | vote, tally, EndBlocker, BeginBlocker | epochs created and removed, delegations deducted from validators | votes are counted once; an epoch outlives its payouts |
| `x/fee`, `x/tokenconverter` | parameters, supplies | fee deduction and burning, conversion | truncation, supply cap, cap changed by governance | supply stays below the cap; burnt and distributed fees add up |
| `x/blob` | parameters | `PayForBlobs`, ante checks | none of its own | gas covers the blob |
| `pkg/da`, `pkg/wrapper`, `pkg/proof`, `pkg/namespace`, `pkg/user`, `cmd`, `api`, tests | | encoding, hashing, clients, generated code | | not modelled |

Interactions: `x/staking` calls the hooks of `x/blobstream` and its EndBlocker
runs before; IBC core calls the swap middleware, which calls the transfer module
and the swap keeper; `x/swap` calls `x/liquiditypool`; `x/liquidityincentive`
allocates to `x/liquiditypool`; `app` builds squares with `pkg/square` and runs
the ante handlers of `x/fee` and `x/blob`.

`PROJECT.json` lists all components, and every hazard of the code at its line.

## 2. The modules

| Module | Models | Kind |
|---|---|---|
| `Blobstream` | `x/blobstream` | state machine, properties, mutants |
| `AttestationLog` | what its readers rely on | abstract specification |
| `MCBlobstream` | two operators, two EVM addresses | instance |
| `BlobstreamProofs` | type, store, pruning, panics, what holds at the end of a block, ranges and refinement | proofs |
| `SwapIBC` | the middleware of `x/swap` | state machine, properties, mutants |
| `MCSwapIBC` | two incoming packets | instance |
| `SquareBuilder` | the builder of `pkg/square` with its counters and commitment rules | operators, mutants |
| `Square` | appends and exports in any order | state machine over `SquareBuilder`, properties |
| `MCSquare` | blob lists | instance |
| `SquareTheorems` | what the operators of the builder do | proofs (a library of the next and of `ProposalProofs`) |
| `SquareProofs` | estimate, counters, indexes, ranges, commitments and reconstruction of the square | proofs |
| `SwapIBCProofs` | answers, retries, records, escrow and types of the middleware | proofs |
| `Proposal` | `CheckTx`, `PrepareProposal`, `ProcessProposal`; composed with `SquareBuilder` | state machine, properties, mutant |
| `MCProposal` | two accounts, five kinds of transactions | instance |
| `ProposalProofs` | what validators reject | proofs |
| `LegacyDec` | decimals of `cosmossdk.io/math` (external) | operators |
| `LiquidityPool` | `x/liquiditypool` | state machine over pure operators, mutants |
| `MCLiquidityPool` | four ticks, two ranges | instance |
| `FeeSupply` | `x/fee`, `x/tokenconverter` | state machine, properties, mutants |
| `Incentives` | `x/liquidityincentive`; composes `FeeSupply` with the block hooks | state machine, properties, mutants |
| `MCIncentives` | one validator, one delegator, two pools | instance |
| `IncentivesProofs` | supply cap, ledger, epochs and gauges, tally, payouts covered | proofs |
| `LiquidityPoolProofs` | stores, price and active liquidity of a pool | proofs |
| `SumTheorems` | sums over finite sets | proofs (a library of the others) |
| `Routes` | swap routes of `x/swap` | recursive algorithm in a state machine |
| `MCRoutes` | three pools, five routes | instance |

Definitions that stand for faulty variants of the code are commented
"Mutant"; `PROJECT.json` says which property each of them breaks. They are not
part of the specifications.

### Blobstream

A block is a row of phases. In `deliver`, transactions come in any order
(`CreateValidator`, `RemoveValidator`, `RegisterEvmAddress`, `UpdateParams`).
`StakingEndBlocker` installs a new power table and, through the hook, the
unbonding height. The module's EndBlocker is the sequence
`HandleValsetRequest`, `HandleDataCommitmentRequest` (one iteration of its loop
per step, so that its termination can be asked for), `PruneAttestations`.
`NextBlock` moves the clock. A panic in the EndBlocker is the phase `halted`;
the guards of each panic in the code are operators (`ValsetPanics`,
`ScanDownFails`, `OverwritesAttestation`). The scans for the latest validator
set and data commitment are written as the nonce they stop at. Powers are
normalised with the code's truncating quotient, with `PowerScale` for 2^32.

`emitted` is the history of attestation events. It is what orchestrators have
seen, and what the store is compared with.

`HooksRegistered` is a constant: `keeper.Hooks()` exists and is tested, but
nothing in `app/` registers it with `x/staking`. The design is checked with the
hooks; the run `blobstream_no_hooks` shows what follows without them.

### SwapIBC

One action per transaction that a relayer or user submits. A handler that fails
or panics leaves no trace, so such a step is not enabled. `OnRecvSwap` is the
whole of `receiveFunds`, `SwapIncomingFund` and `ProcessSwappedFund`; its memo
says which legs are wanted, how many retries, and how much input the swap used.
IBC core, the transfer module and the counterparty are modelled as the
middleware sees them: receipts, commitments, escrow, refunds. The initial states
are an empty store and one imported by `InitGenesis` with a packet that waits
for two legs, whose timeout height can be parsed; only with the latter does an
acknowledgement get written (see the findings). `SymmetricChannel` says whether
the channel has the same identifier at both ends, which decides whether the
look-up in the resend succeeds.

### SquareBuilder and Square

A builder is a value and its methods are operators (`SquareBuilder`), because two
modules use it: `Square`, where it is the state, and `Proposal`, where proposer
and validators each have one. A transaction is its length, a blob a namespace and a length; a square is the
position of everything in it. `WithTx` and `WithBlobTx` are `AppendTx` and
`AppendBlobTx` with the estimate, `Placed` the loop of `Export`, `ExportFails`
its defensive checks and those of `WriteSquare`, `Construct` the validators'
reconstruction. `WrapperSize` is the length of a protobuf message and keeps what
matters about it: a varint per length and per share index, so that it changes
when the indexes do. The share counter is translated branch by branch and
compared with the length of all units together.

### Proposal

The application's mempool, the committed state and the state of `CheckTx`, and a
round of one proposer and its validators. `CheckTx` hands a blob transaction on
as `btx.Tx`, without its blobs (`WithoutBlobs`), and this is what the
application's mempool holds, so no blob transaction ever gets from it into a
proposal. The branches of `FilterTxs`, `Build` and `Construct` for blob
transactions are translated nevertheless; they are exercised by the proofs,
which are about any list, not by the run. `PrepareProposal` is the filter
(`FilterTxs`: normal transactions first, one context for all, also past a
failure) followed by `square.Build`, which tries every transaction, keeps what
fits and puts normal transactions first; `ProcessProposal` runs the ante handler
over the block, stops at the first failure, refuses a PFB without its blobs,
rebuilds the square (`Constructed`, which fails on a transaction that does not
fit or a normal one after a blob transaction, `ConstructFails`) and compares it
with the header. The loops are recursive functions over the positions of a list.

Of the ante handler the model keeps what one transaction leaves for the next, in
the order of the decorators: the fee, in the fee denomination or one of
`BypassDenoms`; the sequence number, so that a failing check leaves the fee
deducted; and last the decorator of the block auction, which comes after the
increment, so that a refused bid leaves its sequence number counted in the
proposer's context. The redundancy check of IBC relays acts in `CheckTx` only.
What the mempool selects, and in which order, is arbitrary. CometBFT rechecks the
mempool after a commit on a connection of its own (`RecheckTxs`), so a proposal
may be prepared from stale entries. `app.go` never installs the custom ante
handler with `SetAnteHandler`; `CheckTx` and `FinalizeBlock` therefore run the
SDK's, as the model has it, except for bids, whose handler checks them with the
custom one on the committed state.

### LiquidityPool

One pool. Its store is one record; a message is a function from store to store
with a flag for errors and panics, and only a store that is still good is
committed. The functions follow the code's: `UpdatePosition`,
`SetFeeAccumulator`, `CollectFees`, `SwapLoop` (the loop of
`computeOutAmtGivenIn` and `computeInAmtGivenOut`, told apart by `kind`, as
`Iteration` repeated at most `MaxIterations` times), `CrossTick`,
`UpdatePoolForSwap`. All arithmetic is that of `LegacyDec`, with
each rounding as in the code and a coarser precision. `TickSqrtPrice` is the
table that `TickToSqrtPrice` computes with a power, and `TickOf` its inverse.
`RemovePosition` leaves the entries of the pool's index behind, as the code
does; this is what keeps `resetPool` from ever running.

A swap stops at the least or the greatest price (`SqrtPriceLimit`,
`GetSqrtTargetPrice`, `Ended`), and a fee rate may be zero, where a bucket charges
no fee at all instead of what remains (`FeeGivenIn`). `CreatePool` does not look
at the rate, which is a variable that no message changes; rates below zero or from one on are left out, since with them a swap
of a given amount panics or divides by what is not positive. All swaps of the
modules charge the pool's rate; only tests pass `feeEnabled` as false. The bounds
`TICK_MIN` and `TICK_MAX` are the limits of a 64-bit integer, so the range check
in `ApplySwap` never fails and is not in the model; `TICK_MIN` itself is left out
as a tick, because the tick below it, where a downward crossing ends, wraps.

### FeeSupply and Incentives

`FeeSupply` is the bank as fees, burns and conversions see it. `Incentives`
extends it: a block is `BeginBlock` (x/mint, the payouts, x/distribution),
transactions, `EndBlock` (the tally and the epochs). The tally is written as
sums over the delegations it visits; epochs and gauges are two stores, as in the
code, and gauges are keyed by the *previous* epoch. The weights of a ballot are any decimals with a total of at
most one, negative ones included, as `VoteGauge` checks no more; a pool named twice
in one vote is modelled by the sum of its weights, which is what the tally makes of
it up to rounding. Staking and the liquidity of
the pools change between the hooks. An error of a hook halts the chain.

### Routes

A route is a tree. `InspectRoute` walks it with the bank as state (exact in) or
without trading (exact out), and `SwapRouteExactAmountOut` then trades the
calculated tree. Pools have a constant price and round against the trader.

## 3. The runs

| Run | Checks | Result |
|---|---|---|
| `blobstream` | 9 invariants, refinement of `AttestationLog`, an action property, termination of the EndBlocker | holds, 61,000 states |
| `blobstream_stopped` | `DataCommitmentsContiguous` when the chain may pause | violated |
| `blobstream_valset_pruned` | `ValsetCurrent` without regard to pruning | violated |
| `blobstream_no_hooks` | `NeverHalts` as the application is wired | violated |
| `swap_ibc` | 5 invariants | holds, 1,470,000 states |
| `swap_ibc_stuck` | `WaitingIsAnswered` under a fair relayer | violated |
| `square` | 8 invariants | holds, 16,800 states |
| `proposal` | when an honest proposal is rejected | holds, 314,000 states |
| `proposal_pfb` | `InvalidFilteredOut` | violated |
| `liquidity_pool` | 6 invariants: stores, price, solvency of both accounts | holds, 96,000 states |
| `incentives` | 5 invariants, two action properties, progress of epochs | holds, 74,700 states |
| `routes_split` | `TradeAsOrdered` | violated |

**Bounds.** *Blobstream*: five blocks, windows of one and two blocks, expiry
after three: two to four ranges, a window that grows and one that shrinks, and
requests of both types pruned while others stay. Two operators are enough for a
departure, a collision of addresses and a change above and below the threshold
(the third power table differs by less than 5%). *SwapIBC*: two incoming
packets, four sends: both legs of one packet in flight with a resend of each,
or the legs of two packets together; retries of zero (give up at once) and two
(one resend). Receipts that exceed the bound are not taken, as with a channel
nobody uses any more, so the model may stop and deadlock is not checked.
*Square*: shares of six and seven bytes and varints of base four put every
boundary (share exactly full, varint one byte longer, row full, square full)
within reach of two transactions and three PFBs in a square of side four; the
threshold two makes subtree widths of one and two. Lengths are otherwise free,
and the operators do not depend on the values of these constants.
*Proposal*: four transactions in the mempool (`MaxMempool`), of two accounts with
two fees' worth of funds each, in a square of side two, over three blocks: two of
one account with a third that does not fit between them, accounts that run out of
funds, bids refused in the filter after `CheckTx` passed them, PFBs without blobs,
fees the proposal's ante handler refuses while `CheckTx` accepts them, and a
mempool not yet rechecked. Lengths of 4 and 13 fill one share and more than half
of the square. Accounts are symmetric. *LiquidityPool*: a pool with a fee of an
eighth and one without; five transactions with up to three positions in
two overlapping ranges: a swap can leave one range, cross both boundaries, stop
exactly on a tick or at either limit of the price, come back, and meet ticks that were removed and created
again. No swap is cut short by `MaxIterations`, 20 here: a swap meets at most four
ticks, and a larger bound gives the same states. A precision of 64 with roots that are powers of two makes prices exact
at ticks and inexact between them, so both branches of every comparison occur;
the last sums are off by single units, where rounding errors show.
*Incentives*: a ballot for two pools and one
against a single pool; three transactions between the hooks of four blocks with epochs of
two blocks: three epochs, the first of them removed; a delegator and his
operator both voting; a slash, a departure, a pool that loses its liquidity; a
cap lowered below the supply. Blocks after `MaxHeight` repeat it without
rewards, so that behaviours are infinite. *Routes*: two swaps over a pool, a
series, a parallel route, one inside a series, and one route that is refused.

**Fairness.** `EndBlockerFairness`: the application calls the handlers of an
EndBlocker one after the other, without waiting for anything; nothing is assumed
of transactions or of the next block. `RelayerFairness`: a packet is delivered or
expires, and its proof is submitted again until it is accepted; the refutation
needs this, since without it any packet may simply stay where it is.

`Incentives` assumes that blocks keep coming as long as no hook fails
(`WF_vars(Block)`, consensus); nothing is assumed of votes or transactions, and
`EndedEpochReplaced` says only what follows once votes have weight.

**What the refuted properties say of the code.** Each states a comment of the
source; `PROJECT.json` quotes it.

1. *Ranges start over.* `NextDataCommitment` starts at block 1 when the store
   has no data commitment. After a pause longer than the expiry time all of them
   are pruned if a newer validator set is kept, so old blocks are committed
   again. `RangesContiguous` proves that a window's worth of block delays below
   the expiry time is enough to exclude it.
2. *A pruned validator set is taken for the current one.* After that no change
   of powers leads to a request, until a validator leaves.
3. *Default addresses.* The fallback in `GetCurrentValset` does not check that
   the address is free. `HooksSuffice` proves that registering the hooks
   excludes the panic.
4. *The held-back acknowledgement is never written.* `ProcessSwappedFund` leaves
   `TimeoutHeight` empty, and `MustParseHeight` panics on it.
5. *Parallel routes.* The sum that the last route's share is computed from is
   never accumulated: it trades the whole amount on top of what the others
   trade. The exact-out direction has a second deviation in the same property:
   the amount that covers the interface fee is computed and then not used, so
   the receiver ends with less than he ordered.
6. *Blobs lost in `CheckTx`.* The application's mempool gets the inner
   transaction of a blob transaction. The ante handler accepts it, so the
   proposer's filter does, and every validator rejects the proposal because of a
   PFB without blobs.

More observations, visible in the invariants:
`TxRangesExact` takes the end of a share range as exclusive, which is what the code
returns and what the comments of `shares.Range` (`pkg/shares/range.go:3`) and
`TxShareRange` (`pkg/square/square.go:159`) say; the comment of the builder's
`FindTxShareRange`, "The indexes are both inclusive" (`pkg/square/builder.go:268`),
is wrong about the end.
`RejectionsExplained` is exact: an honest proposal *is* rejected when it has a PFB
without its blobs, and also when a transaction that a later one of the same
account depends on is missing. The square may have had no room for it, because
the filter runs before the square is built and is not repeated; or it was a bid
that the last decorator refused after its sequence number had been counted.
`HaltsNotByRounding` admits that the chain stops: a gauge of a pool without
liquidity at its current tick makes `AllocateIncentive` fail or divide by zero
inside `BeginBlocker`, and a vote needs only that the pool exists; and a vote
with a negative weight can leave a gauge that weighs against the total, whose
allocation is a negative coin, or makes the others exceed what there is.
`EpochStoresAgree` bounds stored epochs by two, while
`x/liquidityincentive/README.md` speaks of three concurrent ones. Further, after
a resend the sender has been refunded although the packet is in flight again
(`EscrowAccounting` subtracts the resends), and the first acknowledgement answers
both legs (`InFlightRecorded` admits records whose incoming packet is answered).

## 4. The proofs

`SumTheorems` is what the proofs know of sums. The library's induction theorems
have an operator as a parameter, which the provers cannot instantiate, so
`SubsetInduction` is stated with a *set* instead: a set of subsets that contains
the empty set, and with each of its members every larger one by an element,
contains the finite set itself. From it follow that a sum exists and is unique,
how it changes with one summand, and what the properties need: bounds, union,
padding with zeros, exchange of the order of two sums, grouping by a key.

`BlobstreamProofs` holds for every set of operators, every power table, window,
delay and number of blocks, under two assumptions on the constants: `StakingAssumption` (the bonded set is
never empty and no power is normalised to zero, where the code would panic) and
`BlockAssumption` (windows and delays are positive).

*The inductive invariant* `IInv` adds to `TypeOK` and `StoreContiguous` that only
existing validators are bonded, that the latest request is always available, and
that the first request is a validator set. `StoreContiguous` alone is not
inductive: which nonce the pruning loop stops at depends on the latest request
being there, and without the head of the log nothing says that a scan for a
validator set ends well. From `IInv` follow

- `TypeCorrect`, `StoreCorrect`: the store is the unpruned end of the log;
- `PruningSafe`: the action property on what pruning may remove;
- `NoFutureCommitment`: needs only that the last range in the *store* has ended;
- `HooksSuffice`: `HInv`, unique addresses for all operators that ever existed,
  is inductive relative to `IInv` if the hooks are registered, and makes every
  panicking branch unreachable; `AddressesUnique` states the first half alone.

Its second part is about the end of a block. `PruningComplete`: the store
holds exactly the unexpired requests and the latest. The loop looks at a prefix
only, so this needs the invariant `TInv`: requests are stored in the order of
their times, and whatever was pruned has expired. It holds for any block delays,
`TimelyBlocks` or not. `ValsetFollowsBonded` (`ValsetCurrentWhileStored`) needs
`CloseToBonded`: once the module's EndBlocker has looked at it, the last
*emitted* set is close to the bonded one as long as some set is stored, and the
last emitted set is the last stored one. `DepartedRemoved` (`NoDepartedSigner`)
counts: the members of a set that have power are images of the bonded operators
under their addresses, and `SignersBonded` says that between two departures the
last set has no more of them than there are bonded operators.

Its third part adds `CInv`: the last data commitment of the log is no
older than the blocks since its end allow, and is still stored. When blocks come
in time (`TimelyBlocks`: window times delay is below the expiry), it is too young
to be pruned, so the next range starts at its end. That gives
`RangesContiguous`, and with it `LogImplemented`, the refinement of
`AttestationLog` under the mapping `log <- emitted, first <- earliestNonce,
now <- time`: every step of the module is a step of the log or a stutter.

`SwapIBCProofs` holds for every set of incoming packets, memos and bounds.
`AckedOrWaiting` is inductive by itself (`AnswersInductive`): receipt stores a
record or an acknowledgement, and completion moves one into the other.
`RetriesCounted` and `InFlightRecorded` are not: a resend allocates the next
sequence number, and without knowing that sequence numbers are `1 .. n` and that
every waiting leg names one of them (`SentWF`) it might overwrite a record. The
inductive invariant is `SentWF /\ AckedOrWaiting /\ RetriesCounted /\
InFlightRecorded`, with one lemma per action. `RetriesBounded` says that a leg
is never sent more often than its memo asked, over all its sequence numbers.
`EscrowExact` and `TypesCorrect` rest on `MInv`, which adds `Balances` (what the
swap account holds covers what it will send) and `EscrowAccounting` itself. A
step changes the sums over sent packets by the packets it sends (one, or the two
legs of `ProcessSwappedFund`) and by the one it closes. A packet that an
imported genesis waits for was sent once per leg, hence the part of
`SwapAssumption` that leaves room for two sends.

`IncentivesProofs` holds for all amounts, rates, delegations and lengths of
epochs, for all ballots with a total of at most one, negative weights included, and for any finite sets of accounts, validators and pools.
`SupplyCapped` needs only that supplies and cap are numbers (`SupplyNumbers`):
each action either mints within the space or does not mint fee tokens.
`EpochStores` rests on `EpochInv`: stored identifiers are consecutive, epochs do
not overlap, and the gauges are exactly those of the stored epochs (`AgreeAdd`,
`AgreeDrop`); that gauges of different epochs have different keys is what makes
their removal safe. `LedgerBalanced` keeps the books of `FeeSupply` on its own
(`SpecBank`), from the lemma that a burn never exceeds its fee.

`BooksBalanced`, `IncentivesTypes` and `PowerCountedOnce` are about the composed
system and share the inductive invariant `LedgerInv`. Its parts need each other:
a payout is a transfer only if it does not exceed what the fee collector holds,
so the gauges that share a payout need the types of `EpochsWF`; the tally that
writes gauges needs that shares and tokens of validators fit (`Staked`: the
shares of a validator are the sum of its delegations, and it has tokens only
with shares); and balances need to be numbers. `PowerCountedOnce` then is an
argument about sums. Each voter's ballot is worth at most what he has voted with
(`VoterRowBound`, `ValidatorRowBound`: the rounded parts of a power exceed it by
at most a unit each, the slack in the property). The sum over pools of sums over
voters is turned round (`DelegatorsByPool`, `ValidatorsByPool`), the voters'
delegations are collected by validator (`DelegatorsOfValidator`), and for one
validator what its delegators vote with, and what is left to it after
`DeductionsCounted`, add up to its tokens (`OneValidator`).

`HaltsExplained` and `StakersGetTheirPart` are about the payout in `BeginBlocker`.
`HaltsNotByRounding` says that a halt has a cause in one gauge: it weighs against
the total, or its pool has no liquidity.
Neither holds for every precision: `Quo` rounds to the nearest, so the weights of
n gauges can add up to as many units of the last decimal more than one, and a
negative share of less than a unit is truncated to nothing
(`WeightsBound`), and with many pools, large fees and few decimals the gauges get
more than the voters' part. The theorems therefore name the condition. A block
collects at most `MaxCollected`, because users and collector together never hold
more bond tokens than at genesis plus one reward (`Funded`, an inductive
invariant over the ledger of all accounts). Truncated allocations are at most
collected times the sum of the weights (`AllocationsBound`). If the excess is
below a token (`RoundingBelowToken`: fees and one token more, times pools, less
than 10^18 in the code) and no gauge weighs against the total, the collector
covers every allocation, and the only failure left is a pool without liquidity. `StakersPaid` is stricter, as it compares decimals; it needs
the excess below the step in which the ratio divides amounts
(`RoundingBelowStep`). `MCIncentives` has TLC evaluate both conditions for its
instance.

`LiquidityPoolProofs` holds for every finite table of increasing prices between
the two limits, every precision, fee rate of at least zero and below one, range, deposit and number of iterations (`PoolAssumption`).
The inductive invariant `Good` has three parts. `Book` is `StoresAgree` with the
shape of the store, over all positions, also those without liquidity: gross and
net liquidity of every tick, stored or not, the shares and their sum are those
of the positions. `Positive`, that no position is without liquidity, is
separate because it does not hold within a message: a new position is appended
empty, before its ticks and shares exist (`Opening`), and one that is closed has
lost its liquidity before its record and its ticks go (`CloseBook`). Between
messages it is needed: a tick is removed when its gross and net are zero, and
only when every position has liquidity does that mean that nothing ends there
(`EndsHold`, `RemoveTicksBook`). `Priced` is `PriceInTick` with the fact that a
pool with positions has a price; the guard of `resetPool` enters here. Each
message has its lemma (`CreateGood`, `IncreaseGood`, `DecreaseGood`,
`ClaimGood`, `SwapGood`, `AllocateGood`). `SwapGood` needs an invariant of the
loop, `SwapInv`: an iteration changes nothing of the stores but the fee growth
of a tick, and leaves price and tick together, also when it crosses. The loop is
a recursive function; that it is defined is proved without induction over an
operator (`RunExists`: the set of lengths for which a run exists is all of the
naturals).

`ActiveLiquidity` and `TypeOK` need a second invariant, `Sound`, kept next to
`Good`. `Active` is `ActiveLiquidity`; `Money` says that balances, fees and
accumulators are not negative, which it needs of every share and tick too. The
argument for swaps is a further invariant of the loop, `Counted`: the liquidity
of the swap state is that of the positions around *its* tick (`AtTick`), and the
ticks ahead of the iterator are exactly the stored ones on the far side of it. A
step that stays in its bucket passes no end of a position (`AtTickBetween`), and
one that crosses a tick adds or takes off its net liquidity, which `Book` makes
the difference of the two sums (`AtTickCrossed`). Both need that the price never
moves against the swap, as the iterator does not look back (`GivenInMoves`,
`GivenOutMoves`). Three of the four price formulas cannot end on the wrong side of
the old price. The fourth, `NextPriceGivenIn` when base is sold,
rounds up, and can end one unit *above* the old price; the code checks only the
other side (`edgeCaseInequalityBasedOnSwapHelper`). What stops such a bucket is
its price: the amount in for one unit, rounded up to a whole coin, is more than
what remains (`RoundedUpRefused`). Where there is a fee it is negative and the
bucket refused; without fees the bucket is taken, what remains is negative, and
the check after the loop refuses the swap. `Counted` therefore promises the
liquidity only as long as what remains is not negative. That holds at every price of one or more, and below it when
the liquidity, less the part of the fee rate, is at least ten. Hence the
hypothesis: `DeepPool` says that every position that reaches below the price one
has that liquidity, and `PoolActiveLiquidity` and `PoolTypes` are about behaviours
in which it always holds. `PoolAboveOne` has no such hypothesis and is about the
pools whose ticks all lie at the price one or above. The
instance has states of both kinds: a position opened at the price one is deep,
half of it, or one opened after a swap, may not be, and there the properties are
checked by TLC only.

`SquareTheorems` and `SquareProofs` hold for all capacities of shares (the first smaller than the
others), every threshold, base of varints, lengths and lists of blobs, and sides
that are powers of two (`SquareAssumption`; `MaxPower` says how many powers there
are, and a blob needs no more shares than the largest). The inductive invariant
`Good` speaks of one builder, because `Construct` builds another:

- `Sized`: a counter is `CounterAt` of the bytes added so far, and the estimate
  is the reserved shares plus what each PFB has paid for its blobs (shares and
  worst padding), within the capacity. It is tied to the *PFBs*, whose order an
  export leaves alone; that the sum over the sorted elements is the same is
  `SumRenamed`;
- `Matched`: the elements are the blobs of the PFBs, each once;
- `Stable`: elements of a namespace are in the order they were appended in,
  which makes the sorted order a function of the set of elements
  (`SortedIncreasing`, `SortedSame`), so an earlier export and a further append
  do not change what comes out;
- `Pointed`: if the square was exported, the indexes are those of the placement.

`CountAt` is the arithmetic of the counter: counting m bytes after n is counting
n + m, through every branch that fills a share exactly. `StartBounds` bounds the
padding of one blob by its `maxPadding`, and by induction over the blobs the last
one ends within the estimate. Worst-case indexes have the longest varints
(`IndexedBytes`), so the written PFBs are no longer than the counted ones. For
`ProposalsAccepted` the validators' builder is followed transaction by
transaction: each prefix of the block needs no more than the whole, which fitted,
so no transaction is rejected (`PrefixFits`, `TxAccepted`, `PfbAccepted`), and the builders
agree in everything the square depends on. The recursive functions over
sequences are shown to exist with `RecursionExists`, and what they compute with
`RangeInduction`, inductions over a *set* of numbers as in `SumTheorems`.

`CommitmentsAligned` and `NamespacesOrdered` add the arithmetic of powers of two.
Of two powers the smaller divides the larger (`PowersDivide`), so a start that is
a multiple of the blob's width is a multiple of each subtree's size, and so is
the side of the square, which holds the blob (`WidthInSquare`); then a subtree
does not cross a row (`OneRow`). That the subtrees cover a blob exactly is proved
digit by digit (`DigitTreesTile`): the trees of the lowest k binary digits of the
remainder cover what is above `Above(rest, 2^k)`.

`ProposalProofs` holds for every set of accounts, kinds of transactions, fee,
initial funds, bounds and size of the square. Its one theorem,
`RejectionsAreExplained`, is `RejectionsExplained`. The argument is about two
lists: what the proposer's filter counted, that is what incremented a sequence
number in its context, and what the square kept of those that passed.

- A list is `Consecutive` when the sequence numbers of an account in it increase
  and none from the chain's on is missing. What the filter counted is so, for any
  order of selection.
- Purses say how much an account has at each sequence number if all it counted
  was paid (`Covers`). A transaction that fails its sequence check leaves its fee
  deducted in the proposer's context, so the funds in it are *at most* those
  (`Beneath`), and fees and bids that passed are covered by the purses too. The
  validators, who stop at the first failure, never carry a fee of a failed
  transaction along, and see the purses exactly (`Exact`).
- Hence the validators' ante handler accepts a list that was filtered if and only
  if it is `Consecutive` (`AnteExact`).
- A pair of account and sequence number was counted once. Therefore the part the
  square kept is `Consecutive` if and only if no account has a kept transaction
  after a counted one left out, which is `~Gap` (`NoGapConsecutive`,
  `GapNotConsecutive`).
- The rest of the validators' check fails on a PFB without blobs only. `Build`'s builder is a builder
  that `SquareTheorems` calls `Good`, so `Export` succeeds; the validators'
  builder over the same list keeps everything (`ConstructFails` is false) and
  arrives at a square that equals the proposer's, exported or not.

The invariant `ProposalInv` carries the first and the last fact from
`PrepareProposal` to `ProcessProposal` (`Prepared`), with the types of the
committed state and of the mempool.

*Only model-checked*: liveness (`EndBlockerEnds`, `EndedEpochReplaced`), which
is out of the prover's reach, and `Routes`, whose recursion over a tree of routes
needs a RECURSIVE operator. Of `LiquidityPool`, `PositionsCovered` and
`RewardsCovered` compare sums of rounded products along a whole history.
`ActiveLiquidity` and `TypeOK` are proved for deep pools; of shallower ones only
the instance is checked.

## 5. Plan

Done: Blobstream, SwapIBC, Incentives, LiquidityPool and Square with their
proofs, Proposal with its proof, FeeSupply, Routes. What could follow:

1. `CommitmentPaths` and parsing of shares: pure algorithms against a reference
   definition (`pkg/inclusion/paths.go`, `pkg/shares/parse*.go`).
2. Several pools under `Routes`, with `LiquidityPool` in place of the constant
   price.

## 6. Not modelled

- Hashing, erasure coding, Merkle trees and proofs (`pkg/da`, `pkg/wrapper`,
  `pkg/proof`): arithmetic of third-party libraries. Two squares with the same
  layout have the same root.
- Protobuf beyond lengths, share headers and parsing, namespaces as bytes.
- The power function behind the price of a tick (`types/tick.go`), whose
  precision is that of a series expansion; `LiquidityPool` assumes that it is
  increasing.
- Gas, minimum gas prices, fee grants, events other than attestations.
- The lanes of the mempool: `Proposal` allows any selection and order. Of a bid
  only the bidder's funds are checked; its bundle of transactions is left out.
- The least tick of 64 bits, fee rates below zero or from one on, and more than
  one entry for a pool in a vote (its weights are summed).
- `PayForBlobs`, which only consumes gas; `CollectVoteRewards`, which is empty.
- Genesis export and import, except for the imported packet of `SwapIBC`.
  (`x/blobstream` exports its parameters only, so nonces and registered addresses
  do not survive an export. `x/liquidityincentive` exports its epochs with a count
  that nothing writes, since `CreateEpoch` calls `SetEpoch`; `GenesisState.Validate`
  refuses the result, though `InitGenesis` does not call it.)
- Queries, among them the search for the data commitment of a height.
- Inflation (`app/inflation.go`), a closed formula; the signing client,
  commands, generated code and simulations, which are most of the lines of the
  repository.
