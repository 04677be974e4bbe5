------------------------------ MODULE Blobstream ------------------------------
(***************************************************************************)
(* The x/blobstream module: the attestations (validator sets and data      *)
(* commitments) that orchestrators sign for the EVM bridge.                *)
(*                                                                         *)
(* A block is a row of phases.  While "deliver" lasts, transactions create *)
(* and remove validators, register EVM addresses and change the data       *)
(* commitment window.  Then the staking EndBlocker installs the new        *)
(* validator powers, and the module's EndBlocker runs its three handlers   *)
(* in their order: "valset", "commit" (one iteration of the catch-up loop  *)
(* per step), "prune".  Nothing interleaves with an EndBlocker.  A panic   *)
(* in it stops the node for good: phase "halted".                          *)
(***************************************************************************)
EXTENDS Integers, Sequences, FiniteSetsExt

CONSTANTS
    Validators,         \* operator addresses
    EvmAddrs,           \* EVM addresses
    DefaultEvmAddress,  \* the EVM address derived from an operator address
    PowerTables,        \* the bonded sets staking may install: operator -> power
    PowerScale,         \* total bridge power a set is normalised to (2^32)
    ThresholdDenominator, \* 1 / the significant power difference (20, i.e. 0.05)
    Windows,            \* the data commitment windows governance may choose
    ExpiryTime,         \* AttestationExpiryTime
    BlockDelays,        \* time that may pass from one block to the next
    HooksRegistered,    \* are the keeper's hooks registered with x/staking?
    MaxHeight           \* bound: the last block of a behaviour

(***************************************************************************)
(* Normalisation of one validator's power: a big-integer quotient.         *)
(***************************************************************************)
TotalPower(t) == SumFunction(t)

NormalizedPower(t, v) == (t[v] * PowerScale) \div TotalPower(t)

(***************************************************************************)
(* Staking never hands consensus an empty validator set, and no bonded     *)
(* validator holds less than one PowerScale-th of the total power.         *)
(* Addresses are 20 bytes, so there are finitely many.                     *)
(***************************************************************************)
ASSUME StakingAssumption ==
    /\ IsFiniteSet(EvmAddrs)
    /\ DefaultEvmAddress \in [Validators -> EvmAddrs]
    /\ PowerScale \in Nat \ {0} /\ ThresholdDenominator \in Nat \ {0}
    /\ HooksRegistered \in BOOLEAN
    /\ \A t \in PowerTables :
         /\ DOMAIN t # {} /\ IsFiniteSet(DOMAIN t)
         /\ DOMAIN t \subseteq Validators
         /\ t \in [DOMAIN t -> Nat]
         /\ \A v \in DOMAIN t : NormalizedPower(t, v) \in Nat \ {0}

\* Windows pass validateDataCommitmentWindow; CometBFT's block time increases.
ASSUME BlockAssumption ==
    /\ Windows \subseteq Nat \ {0}
    /\ BlockDelays \subseteq Nat \ {0}
    /\ ExpiryTime \in Nat \ {0}
    /\ MaxHeight \in Nat \ {0}

VARIABLES
    height, time,      \* of the current block
    phase,             \* how far the current block has come
    validators,        \* validators that exist in x/staking
    power,             \* the bonded set with its last powers
    evmAddress,        \* store: operator -> registered EVM address
    unbondingHeight,   \* store: LatestUnBondingBlockHeight
    window,            \* store: the DataCommitmentWindow parameter
    attestations,      \* store: nonce -> attestation request
    latestNonce,       \* store: LatestAttestationNonce
    earliestNonce,     \* store: EarliestAvailableAttestationNonce
    emitted            \* attestation events, one per request ever stored

store == <<attestations, latestNonce, earliestNonce, emitted>>
staking == <<validators, power, unbondingHeight>>
vars == <<height, time, phase, staking, evmAddress, window, store>>

Phases == {"deliver", "valset", "commit", "prune", "committed", "halted"}

Assign(f, k, x) == [i \in DOMAIN f \cup {k} |-> IF i = k THEN x ELSE f[i]]

-----------------------------------------------------------------------------
(***************************************************************************)
(* EVM addresses                                                           *)
(***************************************************************************)
IsEVMAddressUnique(e) == \A v \in DOMAIN evmAddress : evmAddress[v] # e

\* GetCurrentValset gives a bonded validator without an address its default.
AddressesWithDefaults ==
    [v \in DOMAIN evmAddress \cup DOMAIN power |->
        IF v \in DOMAIN evmAddress THEN evmAddress[v] ELSE DefaultEvmAddress[v]]

-----------------------------------------------------------------------------
(***************************************************************************)
(* The attestation store                                                   *)
(***************************************************************************)
AvailableNonces == earliestNonce..latestNonce

NoncesOf(type) ==
    {n \in AvailableNonces : n \in DOMAIN attestations /\ attestations[n].type = type}

\* A scan down from the latest nonce meets a missing attestation before one of
\* the wanted type; a scan up from the earliest does.
ScanDownFails(type) ==
    \E m \in AvailableNonces \ DOMAIN attestations : \A n \in NoncesOf(type) : n < m

ScanUpFails(type) ==
    \E m \in AvailableNonces \ DOMAIN attestations : \A n \in NoncesOf(type) : m < n

Latest(type) == attestations[Max(NoncesOf(type))]

\* SetAttestationRequest: store it, move the latest nonce, emit the event.
SetAttestationRequest(at) ==
    /\ attestations' = Assign(attestations, at.nonce, at)
    /\ latestNonce' = at.nonce
    /\ emitted' = Append(emitted, at)
    /\ UNCHANGED earliestNonce

\* StoreAttestation panics when it would overwrite.
OverwritesAttestation == latestNonce + 1 \in DOMAIN attestations

-----------------------------------------------------------------------------
(***************************************************************************)
(* Validator sets                                                          *)
(***************************************************************************)
\* NewValset rejects a member without power and two members with one address.
CurrentValsetInvalid ==
    LET addr == AddressesWithDefaults
    IN  \/ \E v \in DOMAIN power : NormalizedPower(power, v) = 0
        \/ \E v, w \in DOMAIN power : v # w /\ addr[v] = addr[w]

\* Normalised power by EVM address; zero stands for an address that is no member.
CurrentMembers ==
    LET addr == AddressesWithDefaults
    IN  [e \in EvmAddrs |->
            IF \E v \in DOMAIN power : addr[v] = e
            THEN NormalizedPower(power, CHOOSE v \in DOMAIN power : addr[v] = e)
            ELSE 0]

CurrentValset ==
    [type |-> "valset", nonce |-> latestNonce + 1, time |-> time,
     height |-> height, members |-> CurrentMembers]

PowerDiff(c, l) ==
    LET Abs(d) == IF d < 0 THEN -d ELSE d
    IN  SumFunction([e \in EvmAddrs |-> Abs(c[e] - l[e])])

\* delta / MaxUint32 > SignificantPowerDifferenceThreshold, without the quotient.
Significant(c, l) == PowerDiff(c, l) * ThresholdDenominator > PowerScale - 1

\* The set that GetLatestValset answers with.  When every stored set has been
\* pruned, that is the current one.
LatestMembers ==
    IF NoncesOf("valset") # {} THEN Latest("valset").members ELSE CurrentMembers

GetLatestValsetPanics ==
    \/ ScanDownFails("valset")
    \/ NoncesOf("valset") = {} /\ earliestNonce = 1

\* Mutants: an EndBlocker that overlooks a departure, or a change of powers.
ValsetNeededIgnoringUnbonding ==
    latestNonce = 0 \/ Significant(CurrentMembers, LatestMembers)

ValsetNeededIgnoringPower == latestNonce = 0 \/ unbondingHeight = height

ValsetNeeded ==
    \/ latestNonce = 0
    \/ unbondingHeight = height
    \/ Significant(CurrentMembers, LatestMembers)

\* ErrNoValidators: logged when a stored set is compared with the current one,
\* a panic where the current one is needed.
NoValidators == DOMAIN power = {}

SkipsValset ==
    /\ NoValidators
    /\ latestNonce # 0
    /\ ~GetLatestValsetPanics
    /\ NoncesOf("valset") # {}

ValsetPanics ==
    \/ latestNonce # 0 /\ GetLatestValsetPanics
    \/ NoValidators
    \/ CurrentValsetInvalid
    \/ ValsetNeeded /\ OverwritesAttestation

-----------------------------------------------------------------------------
(***************************************************************************)
(* Data commitments                                                        *)
(***************************************************************************)
HasDataCommitmentInStore == NoncesOf("dc") # {}

\* Mutant: the age of the latest commitment counts from its first block.
DataCommitmentDueFromBegin ==
    IF HasDataCommitmentInStore
    THEN height - Latest("dc").begin >= window
    ELSE height >= window

DataCommitmentDue ==
    IF HasDataCommitmentInStore
    THEN height - Latest("dc").end >= window
    ELSE height >= window

\* Mutant: the end of a range is taken to be inclusive.
NextDataCommitmentInclusive ==
    LET begin == IF HasDataCommitmentInStore THEN Latest("dc").end + 1 ELSE 1
    IN  [type |-> "dc", nonce |-> latestNonce + 1, time |-> time,
         begin |-> begin, end |-> begin + window]

NextDataCommitment ==
    LET begin == IF HasDataCommitmentInStore THEN Latest("dc").end ELSE 1
    IN  [type |-> "dc", nonce |-> latestNonce + 1, time |-> time,
         begin |-> begin, end |-> begin + window]

-----------------------------------------------------------------------------
(***************************************************************************)
(* Pruning                                                                 *)
(***************************************************************************)
Expired(at) == at.time + ExpiryTime <= time

\* Mutants: the expiry test is inverted; one request is pruned per block.
PruneStopInverted ==
    IF earliestNonce > latestNonce THEN earliestNonce
    ELSE Min({n \in AvailableNonces :
                \/ n = latestNonce
                \/ n \notin DOMAIN attestations
                \/ Expired(attestations[n])})

PruneStopOnce ==
    IF earliestNonce < latestNonce /\ Expired(attestations[earliestNonce])
    THEN earliestNonce + 1 ELSE earliestNonce

\* Where the pruning loop stops: at the latest nonce, at a missing attestation
\* or at one that has not expired.
PruneStop ==
    IF earliestNonce > latestNonce THEN earliestNonce
    ELSE Min({n \in AvailableNonces :
                \/ n = latestNonce
                \/ n \notin DOMAIN attestations
                \/ ~Expired(attestations[n])})

-----------------------------------------------------------------------------
(***************************************************************************)
(* Genesis: gentxs create the first validators (with the hook, if it is    *)
(* registered), InitGenesis sets the two nonces and the parameter.         *)
(***************************************************************************)
Init ==
    /\ height = 1 /\ time = 1 /\ phase = "deliver"
    /\ power \in PowerTables
    /\ validators = DOMAIN power
    /\ \/ /\ HooksRegistered
          /\ evmAddress = [v \in validators |-> DefaultEvmAddress[v]]
          /\ \A v, w \in validators :
                DefaultEvmAddress[v] = DefaultEvmAddress[w] => v = w
       \/ /\ ~HooksRegistered
          /\ evmAddress = [v \in {} |-> DefaultEvmAddress[v]]
    /\ unbondingHeight = 0
    /\ window \in Windows
    /\ attestations = [n \in {} |-> 0]
    /\ latestNonce = 0
    /\ earliestNonce = 1
    /\ emitted = <<>>

\* Mutant: the hook does not look for the default address in the store.
CreateValidatorUnchecked(v) ==
    /\ phase = "deliver"
    /\ v \in Validators \ validators
    /\ validators' = validators \cup {v}
    /\ evmAddress' = IF HooksRegistered
                     THEN Assign(evmAddress, v, DefaultEvmAddress[v]) ELSE evmAddress
    /\ UNCHANGED <<height, time, phase, power, unbondingHeight, window, store>>

\* MsgCreateValidator, with the hook AfterValidatorCreated; the hook's error
\* rejects the transaction.
CreateValidator(v) ==
    /\ phase = "deliver"
    /\ v \in Validators \ validators
    /\ validators' = validators \cup {v}
    /\ IF HooksRegistered
       THEN /\ IsEVMAddressUnique(DefaultEvmAddress[v])
            /\ evmAddress' = Assign(evmAddress, v, DefaultEvmAddress[v])
       ELSE UNCHANGED evmAddress
    /\ UNCHANGED <<height, time, phase, power, unbondingHeight, window, store>>

\* Staking drops a validator that is not bonded; AfterValidatorRemoved keeps
\* its EVM address.
RemoveValidator(v) ==
    /\ phase = "deliver"
    /\ v \in validators \ DOMAIN power
    /\ validators' = validators \ {v}
    /\ UNCHANGED <<height, time, phase, power, unbondingHeight, evmAddress,
                   window, store>>

\* Mutant: the uniqueness check is left out.
RegisterEvmAddressUnchecked(v, e) ==
    /\ phase = "deliver"
    /\ v \in validators
    /\ evmAddress' = Assign(evmAddress, v, e)
    /\ UNCHANGED <<height, time, phase, staking, window, store>>

RegisterEvmAddress(v, e) ==
    /\ phase = "deliver"
    /\ v \in validators
    /\ IsEVMAddressUnique(e)
    /\ evmAddress' = Assign(evmAddress, v, e)
    /\ UNCHANGED <<height, time, phase, staking, window, store>>

UpdateParams(w) ==
    /\ phase = "deliver"
    /\ window' = w
    /\ UNCHANGED <<height, time, phase, staking, evmAddress, store>>

\* Mutant: the hook stores the height at which the change takes effect.
StakingEndBlockerNextHeight(t) ==
    /\ phase = "deliver"
    /\ DOMAIN t \subseteq validators
    /\ power' = t
    /\ unbondingHeight' =
         IF HooksRegistered /\ ~(DOMAIN power \subseteq DOMAIN t)
         THEN height + 1 ELSE unbondingHeight
    /\ phase' = "valset"
    /\ UNCHANGED <<height, time, validators, evmAddress, window, store>>

\* The staking EndBlocker, with the hook AfterValidatorBeginUnbonding for each
\* validator that leaves the bonded set.
StakingEndBlocker(t) ==
    /\ phase = "deliver"
    /\ DOMAIN t \subseteq validators
    /\ power' = t
    /\ unbondingHeight' =
         IF HooksRegistered /\ ~(DOMAIN power \subseteq DOMAIN t)
         THEN height ELSE unbondingHeight
    /\ phase' = "valset"
    /\ UNCHANGED <<height, time, validators, evmAddress, window, store>>

HandleValsetRequest ==
    /\ phase = "valset"
    /\ IF SkipsValset
       THEN /\ phase' = "commit"
            /\ UNCHANGED <<evmAddress, store>>
       ELSE IF ValsetPanics
       THEN /\ phase' = "halted"
            /\ UNCHANGED <<evmAddress, store>>
       ELSE /\ phase' = "commit"
            /\ evmAddress' = AddressesWithDefaults
            /\ IF ValsetNeeded
               THEN SetAttestationRequest(CurrentValset)
               ELSE UNCHANGED store
    /\ UNCHANGED <<height, time, staking, window>>

\* Mutant: the loop does not break when it has caught up.
HandleDataCommitmentRequestNoBreak ==
    /\ phase = "commit"
    /\ IF DataCommitmentDue
       THEN SetAttestationRequest(NextDataCommitment)
       ELSE UNCHANGED store
    /\ UNCHANGED <<height, time, phase, staking, evmAddress, window>>

\* One iteration of the loop that catches up with the current height.
HandleDataCommitmentRequest ==
    /\ phase = "commit"
    /\ IF \/ ScanUpFails("dc")
          \/ HasDataCommitmentInStore /\ ScanDownFails("dc")
          \/ DataCommitmentDue /\ OverwritesAttestation
       THEN phase' = "halted" /\ UNCHANGED store
       ELSE IF DataCommitmentDue
       THEN SetAttestationRequest(NextDataCommitment) /\ UNCHANGED phase
       ELSE phase' = "prune" /\ UNCHANGED store
    /\ UNCHANGED <<height, time, staking, evmAddress, window>>

\* Mutant: the new earliest nonce is not saved.
PruneAttestationsUnsaved ==
    /\ phase = "prune"
    /\ attestations' =
         [n \in DOMAIN attestations \ (earliestNonce..(PruneStop - 1)) |-> attestations[n]]
    /\ phase' = "committed"
    /\ UNCHANGED <<height, time, staking, evmAddress, window, latestNonce,
                   earliestNonce, emitted>>

\* A missing attestation ends the loop with a log line: what was deleted stays
\* deleted and the earliest nonce stays where it was.
PruneAttestations ==
    /\ phase = "prune"
    /\ attestations' =
         [n \in DOMAIN attestations \ (earliestNonce..(PruneStop - 1)) |-> attestations[n]]
    /\ earliestNonce' =
         IF PruneStop < latestNonce /\ PruneStop \notin DOMAIN attestations
         THEN earliestNonce ELSE PruneStop
    /\ phase' = "committed"
    /\ UNCHANGED <<height, time, staking, evmAddress, window, latestNonce, emitted>>

\* Consensus starts the next block.
NextBlock(d) ==
    /\ phase = "committed"
    /\ height < MaxHeight
    /\ height' = height + 1
    /\ time' = time + d
    /\ phase' = "deliver"
    /\ UNCHANGED <<staking, evmAddress, window, store>>

\* The bound of the model has been reached.
LastBlock ==
    /\ phase = "committed"
    /\ height = MaxHeight
    /\ UNCHANGED vars

Next ==
    \/ \E v \in Validators : CreateValidator(v) \/ RemoveValidator(v)
    \/ \E v \in Validators, e \in EvmAddrs : RegisterEvmAddress(v, e)
    \/ \E w \in Windows : UpdateParams(w)
    \/ \E t \in PowerTables : StakingEndBlocker(t)
    \/ HandleValsetRequest
    \/ HandleDataCommitmentRequest
    \/ PruneAttestations
    \/ \E d \in BlockDelays : NextBlock(d)
    \/ LastBlock

Spec == Init /\ [][Next]_vars

\* The application calls the handlers of an EndBlocker one after the other.
EndBlockerFairness ==
    /\ WF_vars(HandleValsetRequest)
    /\ WF_vars(HandleDataCommitmentRequest)
    /\ WF_vars(PruneAttestations)

FairSpec == Spec /\ EndBlockerFairness

\* Blocks come often enough that a window elapses before a request expires.
TimelyBlocks == \A w \in Windows, d \in BlockDelays : w * d < ExpiryTime

-----------------------------------------------------------------------------
(***************************************************************************)
(* The promise made to the readers of the store.                           *)
(***************************************************************************)
Log == INSTANCE AttestationLog
         WITH log <- emitted, first <- earliestNonce, now <- time

\* The handlers of the EndBlocker, in any order of events, implement the
\* append-only attestation log.
ImplementsLog == Log!Spec

-----------------------------------------------------------------------------
(***************************************************************************)
(* Properties                                                              *)
(***************************************************************************)
Heights == 1..MaxHeight

Attestation ==
    [type : {"valset"}, nonce : Nat, time : Nat, height : Nat,
     members : [EvmAddrs -> Nat]]
        \cup [type : {"dc"}, nonce : Nat, time : Nat, begin : Nat, end : Nat]

\* Every variable has its type; in particular the unbonding height that the
\* hook stores is never ahead of the block that the EndBlocker compares it with.
TypeOK ==
    /\ height \in Heights /\ time \in Nat /\ phase \in Phases
    /\ validators \subseteq Validators
    /\ power \in PowerTables
    /\ DOMAIN evmAddress \subseteq Validators
    /\ evmAddress \in [DOMAIN evmAddress -> EvmAddrs]
    /\ unbondingHeight \in 0..height
    /\ window \in Windows
    /\ DOMAIN attestations \subseteq Nat
    /\ latestNonce \in Nat /\ earliestNonce \in Nat
    /\ emitted \in Seq(Attestation)

\* The store holds exactly the requests from the earliest available nonce to
\* the latest one, each as it was emitted: no nonce is skipped, reused or
\* rewritten by the three handlers of an EndBlocker.
StoreContiguous ==
    /\ latestNonce = Len(emitted)
    /\ earliestNonce \in 1..(latestNonce + 1)
    /\ DOMAIN attestations = earliestNonce..latestNonce
    /\ \A n \in DOMAIN attestations : attestations[n] = emitted[n]
    /\ \A n \in 1..Len(emitted) : emitted[n].nonce = n

\* No panic of the EndBlocker is reachable: scans find what they look for,
\* nothing is overwritten and the current validator set is always valid.
NeverHalts == phase # "halted"

\* With the hooks registered, every validator has an EVM address and no two
\* operators, not even removed ones, share one.
EVMUnique ==
    /\ validators \subseteq DOMAIN evmAddress
    /\ \A v, w \in DOMAIN evmAddress : evmAddress[v] = evmAddress[w] => v = w

EmittedOf(type) == {n \in 1..Len(emitted) : emitted[n].type = type}

\* The ranges of all data commitments ever requested partition the blocks from
\* 1 on: NextDataCommitment starts each where the last one ended, also when
\* the window changed or earlier ones were pruned in between.
DataCommitmentsContiguous ==
    \A n \in EmittedOf("dc") : Log!Contiguous(emitted, n)

\* A data commitment never covers a block that does not exist yet.
NoFutureBlocks == \A n \in EmittedOf("dc") : emitted[n].end <= height + 1

\* At the end of a block the store holds exactly the requests that have not
\* expired, and always the last one: pruning removes a prefix only, so this
\* needs the block times in the store to be in order.
StoreUnexpired ==
    phase = "committed" =>
        DOMAIN attestations =
            {n \in 1..Len(emitted) : n = latestNonce \/ ~Expired(emitted[n])}

LastValset == emitted[Max(EmittedOf("valset"))]

\* At the end of a block the last requested validator set is within the
\* threshold of the bonded one.
ValsetCurrent ==
    phase = "committed" => ~Significant(CurrentMembers, LastValset.members)

\* The same, as long as a validator set is left in the store to compare with.
ValsetCurrentWhileStored ==
    NoncesOf("valset") # {} => ValsetCurrent

\* At the end of a block a validator that left the bonded set has left the last
\* requested set too, however small its power: the set has no more members
\* than there are bonded validators.
NoDepartedSigner ==
    phase = "committed" =>
        Cardinality({e \in EvmAddrs : LastValset.members[e] > 0})
            <= Cardinality(DOMAIN power)

\* A request that left the store had expired and was not the latest one; what
\* is in the store is never changed.
StoreStep ==
    \A n \in DOMAIN attestations :
        IF n \in DOMAIN attestations'
        THEN attestations'[n] = attestations[n]
        ELSE Expired(attestations[n]) /\ n < latestNonce

PrunesOnlyExpired == [][StoreStep]_vars

\* Every EndBlocker ends: the loop that catches up with the data commitments
\* terminates, whatever the window was changed to.
EndBlockerEnds == (phase = "valset") ~> (phase = "committed")

=============================================================================
