----------------------------- MODULE Incentives -----------------------------
(***************************************************************************)
(* Liquidity incentives (x/liquidityincentive): token holders vote on how  *)
(* the pools share a part of the block rewards; the votes are tallied into *)
(* the gauges of an epoch, and every block pays the pools of the latest    *)
(* epoch from the fee collector, before x/distribution takes the rest.     *)
(*                                                                         *)
(* The module composes with FeeSupply, whose transactions fill the same    *)
(* fee collector.  x/staking, x/mint, x/distribution and the liquidity of  *)
(* the pools are environment: modelled by what the tally and the block     *)
(* hooks read of them or leave them.                                       *)
(***************************************************************************)
EXTENDS FeeSupply, LegacyDec, FiniteSetsExt, Functions

CONSTANTS
  Pools,            \* liquidity pools that exist
  Accounts,         \* accounts that may vote
  Validators,       \* validators
  Operator,         \* validator -> the account of its operator
  Delegations,      \* delegations staking may hold: <<account, validator>> -> shares
  Ballots,          \* weights a MsgVoteGauge may carry: pools -> decimals, of
                    \* which ValidateBasic bounds the total only (a pool
                    \* named twice in a vote has the sum of its weights)
  EpochBlocks,      \* parameter: length of an epoch
  StakingRatio,     \* parameter: StakingRewardRatio, a decimal
  BlockReward,      \* bond tokens x/mint creates per block
  MaxHeight,        \* bound: later blocks keep this height, without rewards
  MaxTxs            \* bound: transactions and changes of the environment

ASSUME IncentivesAssumption ==
  /\ IsFiniteSet(Pools) /\ IsFiniteSet(Accounts) /\ IsFiniteSet(Validators)
  /\ Operator \in [Validators -> Accounts]
  /\ Delegations \subseteq [Accounts \X Validators -> Nat]
  /\ \A b \in Ballots : /\ DOMAIN b \subseteq Pools
                        /\ \A p \in DOMAIN b : b[p] \in Int
                        /\ SumFunction(b) <= One
  /\ EpochBlocks \in Nat \ {0}
  /\ StakingRatio \in 0 .. One
  /\ BlockReward \in Nat
  /\ MaxHeight \in Nat \ {0} /\ MaxTxs \in Nat

VARIABLES
  height,      \* block height
  inBlock,     \* between BeginBlock and EndBlock?
  votes,       \* store: the latest vote of each sender
  epochs,      \* store: epoch id -> epoch
  gauges,      \* store: <<previousEpochId, poolId>> -> ratio
  deleg,       \* staking: delegation shares
  tokens,      \* staking: tokens of a validator (fewer than shares once slashed)
  bonded,      \* staking: the bonded validators
  usable,      \* pools: those that have had a position
  active,      \* pools: those with liquidity at the current tick
  halted,      \* did a block hook fail, which stops the chain?
  txs          \* transactions and environment steps so far, for the bound

incentiveVars == <<votes, epochs, gauges>>
stakingVars == <<deleg, tokens, bonded>>
poolVars == <<usable, active>>
blockVars == <<height, inBlock, halted>>
vars == <<bankVars, incentiveVars, stakingVars, poolVars, blockVars, txs>>

------------------------------------------------------------------------------
(* Tally *)

DelegatorShares(v) == SumFunction([a \in Accounts |-> deleg[a, v]])
Voters == DOMAIN votes
Voted(a, p) == a \in Voters /\ p \in DOMAIN votes[a]

(* delegation shares * bonded / total shares *)
VotingPower(shares, v) == Quo(Dec(shares) * tokens[v], Dec(DelegatorShares(v)))

(* Delegations the tally visits: of voters, to bonded validators. *)
Counted == {c \in Voters \X bonded : deleg[c] > 0}

\* Mutant: delegators who vote are not deducted.
DelegatorDeductionsForgotten(v) == 0

DelegatorDeductions(v) ==
  SumFunction([a \in {b \in Voters : <<b, v>> \in Counted} |-> deleg[a, v]])

(* Validators whose operator cast a vote that names a pool. *)
VotingValidators == {v \in bonded : \E p \in Pools : Voted(Operator[v], p)}

DelegatorWeight(p) ==
  SumFunction([c \in {k \in Counted : Voted(k[1], p)} |->
                 Mul(VotingPower(deleg[c], c[2]), votes[c[1]][p])])
ValidatorWeight(p) ==
  SumFunction([v \in {u \in VotingValidators : Voted(Operator[u], p)} |->
                 Mul(VotingPower(DelegatorShares(v) - DelegatorDeductions(v), v),
                     votes[Operator[v]][p])])

(* The pools the tally has an entry for, even of weight zero. *)
TalliedPools ==
  {p \in Pools : \/ \E c \in Counted : Voted(c[1], p)
                 \/ \E v \in VotingValidators : Voted(Operator[v], p)}

TotalBonded == SumFunction([v \in bonded |-> tokens[v]])

WeighedPools == IF TotalBonded = 0 THEN {} ELSE TalliedPools
Tally == [p \in WeighedPools |-> DelegatorWeight(p) + ValidatorWeight(p)]

------------------------------------------------------------------------------
(* Epochs *)

HasEpoch == DOMAIN epochs # {}
LastId == Max(DOMAIN epochs)
LastEpoch == epochs[LastId]

(* Stores are finite functions. *)
Drop(f, S) == [k \in DOMAIN f \ S |-> f[k]]
Put(f, g) == [k \in DOMAIN f \cup DOMAIN g |-> IF k \in DOMAIN g THEN g[k] ELSE f[k]]

NewGauges(previousId, weights) == [k \in {previousId} \X DOMAIN weights |-> weights[k[2]]]
NewEpoch(weights) == [start |-> height, end |-> height + EpochBlocks, gauges |-> weights]

(* CreateEpoch: no weights, no epoch. *)
CreateEpoch(previousId, id, weights) ==
  IF weights = <<>>
  THEN UNCHANGED <<epochs, gauges>>
  ELSE /\ epochs' = Put(epochs, [i \in {id} |-> NewEpoch(weights)])
       /\ gauges' = Put(gauges, NewGauges(previousId, weights))

\* Mutant: the gauges of the removed epoch stay.
CreateAndPruneKeepingGauges(weights) ==
  LET all == Put(epochs, IF weights = <<>> THEN <<>>
                         ELSE [i \in {LastId + 1} |-> NewEpoch(weights)])
  IN /\ epochs' = IF Cardinality(DOMAIN all) > 2 THEN Drop(all, {Min(DOMAIN all)}) ELSE all
     /\ gauges' = Put(gauges, NewGauges(LastId, weights))

(* The same, followed by the removal of the oldest epoch and its gauges when
   more than two are stored. *)
CreateAndPrune(weights) ==
  LET all == Put(epochs, IF weights = <<>> THEN <<>>
                         ELSE [i \in {LastId + 1} |-> NewEpoch(weights)])
      kept == Put(gauges, NewGauges(LastId, weights))
      oldest == Min(DOMAIN all)
  IN IF Cardinality(DOMAIN all) > 2
     THEN /\ epochs' = Drop(all, {oldest})
          /\ gauges' = Drop(kept, {oldest - 1} \X DOMAIN all[oldest].gauges)
     ELSE /\ epochs' = all
          /\ gauges' = kept

\* Mutant: the end is looked at in its own block only.
EndedExactly == HasEpoch /\ height = LastEpoch.end

Ended == HasEpoch /\ height >= LastEpoch.end

EndBlocker ==
  \E weights \in {Tally} :
    CASE ~HasEpoch -> CreateEpoch(0, 1, weights)
      [] Ended -> CreateAndPrune(weights)
      [] OTHER -> UNCHANGED <<epochs, gauges>>

------------------------------------------------------------------------------
(* Paying the pools *)

\* Mutant: stakers' part is not set aside.
IncentiveFeesAll(fees) == Dec(fees)

IncentiveFees(fees) == MulTruncate(Dec(fees), One - StakingRatio)
TotalWeight == SumFunction(LastEpoch.gauges)

\* Mutant: the weights are not divided by their total.
AllocationsUnweighted(fees) ==
  [p \in {q \in (IF HasEpoch THEN DOMAIN LastEpoch.gauges ELSE {}) : TotalWeight # 0} |->
     TruncateInt(MulTruncate(IncentiveFees(fees), LastEpoch.gauges[p]))]

(* What the gauge of a pool is worth of the fees, as a decimal. *)
Share(fees, p) == MulTruncate(IncentiveFees(fees), Quo(LastEpoch.gauges[p], TotalWeight))

(* What each gauge of the latest epoch is allocated of the fees, truncated to
   whole tokens. *)
Allocations(fees) ==
  [p \in {q \in (IF HasEpoch THEN DOMAIN LastEpoch.gauges ELSE {}) : TotalWeight # 0} |->
     TruncateInt(Share(fees, p))]

(* TruncateDecimal panics on a negative share, of a gauge that weighs against
   the total.  AllocateIncentive of a positive amount fails for a pool that
   never had a position, and divides by the liquidity at the current tick. *)
AllocationFails(alloc, fees) ==
  \/ \E p \in DOMAIN alloc : Share(fees, p) < 0
  \/ \E p \in DOMAIN alloc : alloc[p] > 0 /\ (p \notin usable \/ p \notin active)
  \/ SumFunction(alloc) > fees

------------------------------------------------------------------------------
Init ==
  /\ InitBank
  /\ height = 1
  /\ inBlock = FALSE
  /\ votes = <<>>
  /\ epochs = <<>>
  /\ gauges = <<>>
  /\ deleg \in Delegations
  /\ tokens = [v \in Validators |-> DelegatorShares(v)]
  /\ bonded = {v \in Validators : tokens[v] > 0}
  /\ usable \in SUBSET Pools
  /\ active = usable
  /\ halted = FALSE
  /\ txs = 0

(* x/mint, and the fee collector after it. *)
Reward == IF height < MaxHeight THEN BlockReward ELSE 0
Collected == bal["feeCollector"][BondDenom] + Reward

(* BeginBlock: x/mint, then x/liquidityincentive, then x/distribution, which
   empties the fee collector.  An error or a panic in a block hook stops the
   chain. *)
BeginBlock ==
  /\ ~inBlock /\ ~halted
  /\ \E alloc \in {Allocations(Collected)} :
       IF AllocationFails(alloc, Collected)
       THEN halted' = TRUE /\ UNCHANGED <<bal, supply, inBlock>>
       ELSE /\ bal' = [bal EXCEPT
                 !["feeCollector"] = [d \in Denoms |-> 0],
                 !["poolFees"][BondDenom] = @ + SumFunction(alloc),
                 !["distribution"] = [d \in Denoms |->
                     @[d] + bal["feeCollector"][d]
                     + (IF d = BondDenom THEN Reward - SumFunction(alloc) ELSE 0)]]
            /\ supply' = [supply EXCEPT ![BondDenom] = @ + Reward]
            /\ inBlock' = TRUE
            /\ UNCHANGED halted
  /\ UNCHANGED <<maxSupplyFee, height, incentiveVars, stakingVars, poolVars, txs>>

(* EndBlock of x/liquidityincentive.  Heights past MaxHeight are all alike. *)
EndBlock ==
  /\ inBlock
  /\ inBlock' = FALSE
  /\ EndBlocker
  /\ height' = Min({height + 1, MaxHeight})
  /\ UNCHANGED <<bankVars, votes, stakingVars, poolVars, halted, txs>>

(* Transactions run between the two hooks. *)
InTx ==
  /\ inBlock
  /\ txs < MaxTxs
  /\ txs' = txs + 1

(* MsgVoteGauge: every pool exists, the weights add up to one at most (each may
   be negative or above one); a vote replaces the previous one. *)
VoteGauge(a, b) ==
  /\ InTx
  /\ votes' = Put(votes, [x \in {a} |-> b])
  /\ UNCHANGED <<bankVars, epochs, gauges, stakingVars, poolVars, blockVars>>

(* x/staking: delegations and slashing; the bonded set follows the tokens. *)
Restake ==
  /\ \E d \in Delegations :
       /\ d # deleg
       /\ deleg' = d
       /\ tokens' = [v \in Validators |-> SumFunction([a \in Accounts |-> d[a, v]])]
       /\ bonded' = {v \in Validators : tokens'[v] > 0}
  /\ UNCHANGED poolVars
Slash ==
  /\ \E v \in bonded :
       /\ tokens' = [tokens EXCEPT ![v] = @ \div 2]
       /\ bonded' = bonded \ (IF tokens[v] < 2 THEN {v} ELSE {})
  /\ UNCHANGED <<deleg, poolVars>>
Unbond ==
  /\ \E v \in bonded : bonded' = bonded \ {v}
  /\ UNCHANGED <<deleg, tokens, poolVars>>

(* x/liquiditypool: positions open and close, the price leaves a range. *)
PoolLiquidity ==
  /\ \E p \in Pools :
       \/ /\ p \notin active
          /\ usable' = usable \cup {p}
          /\ active' = active \cup {p}
       \/ /\ p \in active
          /\ active' = active \ {p}
          /\ UNCHANGED usable
  /\ UNCHANGED stakingVars

Environment ==
  /\ InTx
  /\ Restake \/ Slash \/ Unbond \/ PoolLiquidity
  /\ UNCHANGED <<bankVars, incentiveVars, blockVars>>

BankTx ==
  /\ InTx
  /\ NextBank
  /\ UNCHANGED <<incentiveVars, stakingVars, poolVars, blockVars>>

Block == BeginBlock \/ EndBlock

Next ==
  \/ Block
  \/ \E a \in Accounts, b \in Ballots : VoteGauge(a, b)
  \/ Environment
  \/ BankTx

(* Consensus keeps producing blocks as long as no hook fails. *)
Spec == Init /\ [][Next]_vars /\ WF_vars(Block)

------------------------------------------------------------------------------
TypeOK ==
  /\ BankTypeOK
  /\ height \in 1 .. MaxHeight
  /\ inBlock \in BOOLEAN /\ halted \in BOOLEAN
  /\ DOMAIN votes \subseteq Accounts
  /\ \A a \in DOMAIN votes : votes[a] \in Ballots
  /\ DOMAIN epochs \subseteq Nat \ {0}
  /\ DOMAIN gauges \subseteq Nat \X Pools
  /\ deleg \in Delegations
  /\ tokens \in [Validators -> Nat]
  /\ bonded \subseteq Validators
  /\ active \subseteq usable /\ usable \subseteq Pools
  /\ txs \in 0 .. MaxTxs

(* However votes, delegations, slashes and unbondings interleave, no voting
   power is counted twice: a delegator who votes takes the delegation away
   from the vote of the validator (tally.go, DelegatorDeductions), and all
   gauges together weigh no more than the bonded tokens, up to one unit of the
   last decimal for each rounded product. *)
NoPowerCountedTwice ==
  SumFunction(Tally)
    <= Dec(TotalBonded)
       + Cardinality(Pools) * Cardinality(Validators) * (Cardinality(Accounts) + 1)

(* The two stores of CreateEpoch and EndBlocker agree after any number of
   creations and removals: at most two epochs, with consecutive numbers, the
   earlier one over when the later began, and exactly their gauges. *)
EpochStoresAgree ==
  /\ Cardinality(DOMAIN epochs) <= 2
  /\ \A i, j \in DOMAIN epochs :
       i < j => j = i + 1 /\ epochs[i].end <= epochs[j].start
  /\ DOMAIN gauges = UNION {{i - 1} \X DOMAIN epochs[i].gauges : i \in DOMAIN epochs}
  /\ \A i \in DOMAIN epochs : \A p \in DOMAIN epochs[i].gauges :
       gauges[i - 1, p] = epochs[i].gauges[p]

(* The most the fee collector holds in a block: users' coins and the reward. *)
MaxCollected == InitialBalance + BlockReward

(* A weight divided by the total is off by less than a unit of the last decimal,
   and a negative share of less than a unit vanishes when it is truncated.
   With this the excess of all allocations stays below a whole token.  (Prec is
   10^18 in the code.) *)
RoundingBelowToken == (MaxCollected + 1) * Cardinality(Pools) < Prec

(* The same, below the steps in which StakingRewardRatio divides amounts. *)
RoundingBelowStep ==
  \E step \in 1 .. Prec :
    /\ Prec % step = 0 /\ StakingRatio % step = 0
    /\ (MaxCollected * (Prec - StakingRatio) + Prec) * Cardinality(Pools) < Prec * step

(* BeginBlocker stops the chain only on a gauge that weighs against the total,
   which votes with negative weights can bring about, or on one of a pool
   without liquidity at its current tick; never because the rounded shares add
   up to more than there is, whatever the weights.  (Both causes do happen: see
   hazards.) *)
HaltsNotByRounding ==
  halted => \E p \in DOMAIN LastEpoch.gauges :
              \/ LastEpoch.gauges[p] * TotalWeight < 0
              \/ LastEpoch.gauges[p] * TotalWeight > 0 /\ p \notin active

(* Stakers get their part of every block: whatever the gauges add up to,
   x/distribution receives at least StakingRewardRatio of the bond tokens the
   fee collector held. *)
StakersPaid ==
  [][~inBlock /\ inBlock' =>
       Dec(bal'["distribution"][BondDenom] - bal["distribution"][BondDenom])
         >= Collected * StakingRatio]_vars

(* An epoch that is over is replaced, even if its end passed with nothing to
   tally: as soon as votes count again, unless the chain stopped. *)
Overdue == HasEpoch /\ height >= LastEpoch.end
EndedEpochReplaced == Overdue ~> (~Overdue \/ WeighedPools = {} \/ halted)
==============================================================================
