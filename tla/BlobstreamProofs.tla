--------------------------- MODULE BlobstreamProofs ---------------------------
(***************************************************************************)
(* Proofs about Blobstream for every set of validators, every power table, *)
(* window, block time and height.                                          *)
(***************************************************************************)
EXTENDS Blobstream, TLAPS, NaturalsInduction, WellFoundedInduction, SequenceTheorems,
        SumTheorems

(***************************************************************************)
(* The inductive invariant: what StoreContiguous needs to be preserved.    *)
(***************************************************************************)
\* Nonce 1 is a validator set, and it has been requested before the data
\* commitments of the first block are looked at.
LogHead ==
    /\ emitted # <<>> => emitted[1].type = "valset"
    /\ phase \in {"commit", "prune", "committed"} => latestNonce > 0

\* The latest request is always available.
LatestAvailable == latestNonce > 0 => earliestNonce <= latestNonce

Bonded == DOMAIN power \subseteq validators

IInv == TypeOK /\ StoreContiguous /\ LogHead /\ LatestAvailable /\ Bonded

-----------------------------------------------------------------------------
(***************************************************************************)
(* Extrema                                                                 *)
(***************************************************************************)
\* A non-empty set of naturals has a least element, so Min picks it.
LEMMA MinProperty ==
    ASSUME NEW S, S \subseteq Nat, S # {}
    PROVE  Min(S) \in S /\ \A y \in S : Min(S) <= y
<1>1. PICK x \in S : \A y \in S : ~(<<y, x>> \in OpToRel(<, Nat))
  BY NatLessThanWellFounded, WFMin
<1>2. \A y \in S : ~(y < x)
  BY <1>1, Zenon DEF OpToRel
<1>3. \A y \in S : x <= y
  BY <1>2
<1>. QED
  BY <1>3 DEF Min

\* A non-empty bounded set of naturals has a greatest element, so Max picks it.
LEMMA MaxProperty ==
    ASSUME NEW S, S \subseteq Nat, S # {}, NEW b \in Nat, \A y \in S : y <= b
    PROVE  Max(S) \in S /\ \A y \in S : y <= Max(S)
<1>. DEFINE T == {b - y : y \in S}
<1>1. T \subseteq Nat /\ T # {}
  <2>1. \A y \in S : b - y \in Nat
    OBVIOUS
  <2>. QED
    BY <2>1
<1>2. PICK t \in T : \A u \in T : t <= u
  BY <1>1, MinProperty
<1>3. PICK x \in S : t = b - x
  BY <1>2
<1>4. \A y \in S : x >= y
  <2>1. SUFFICES ASSUME NEW y \in S PROVE x >= y
    OBVIOUS
  <2>2. t <= b - y
    BY <1>2
  <2>. QED
    BY <2>2, <1>3
<1>. QED
  BY <1>4 DEF Max

-----------------------------------------------------------------------------
(***************************************************************************)
(* What the scans of the store find                                        *)
(***************************************************************************)
\* No nonce from the earliest to the latest is missing, so no scan fails, and
\* the next nonce is free.
LEMMA ScansSucceed ==
    ASSUME IInv
    PROVE  /\ AvailableNonces = DOMAIN attestations
           /\ \A type : ~ScanDownFails(type) /\ ~ScanUpFails(type)
           /\ ~OverwritesAttestation
BY DEF IInv, TypeOK, StoreContiguous, AvailableNonces, ScanDownFails, ScanUpFails,
       OverwritesAttestation

\* A scan for a type answers with the last request of that type in the log.
LEMMA LatestProperty ==
    ASSUME IInv, NEW type, NoncesOf(type) # {}
    PROVE  LET m == Max(NoncesOf(type))
           IN  /\ m \in earliestNonce..latestNonce
               /\ Latest(type) = emitted[m]
               /\ emitted[m].type = type
               /\ emitted[m] \in Attestation
               /\ \A n \in (m + 1)..latestNonce : emitted[n].type # type
<1>. DEFINE S == NoncesOf(type)
            m == Max(S)
<1>1. /\ latestNonce \in Nat /\ earliestNonce \in Nat /\ earliestNonce >= 1
      /\ latestNonce = Len(emitted)
      /\ emitted \in Seq(Attestation)
      /\ DOMAIN attestations = earliestNonce..latestNonce
      /\ \A n \in DOMAIN attestations : attestations[n] = emitted[n]
  BY DEF IInv, TypeOK, StoreContiguous
<1>2. S = {n \in earliestNonce..latestNonce : emitted[n].type = type}
  BY <1>1 DEF NoncesOf, AvailableNonces
<1>3. S \subseteq Nat /\ \A y \in S : y <= latestNonce
  BY <1>1, <1>2
<1>4. m \in S /\ \A y \in S : y <= m
  BY <1>1, <1>3, MaxProperty
<1>5. m \in earliestNonce..latestNonce /\ emitted[m].type = type
  BY <1>2, <1>4
<1>6. Latest(type) = emitted[m]
  BY <1>1, <1>5 DEF Latest
<1>7. emitted[m] \in Attestation
  BY <1>1, <1>5, ElementOfSeq
<1>8. \A n \in (m + 1)..latestNonce : emitted[n].type # type
  <2>1. SUFFICES ASSUME NEW n \in (m + 1)..latestNonce, emitted[n].type = type
                 PROVE  FALSE
    OBVIOUS
  <2>2. n \in S
    BY <2>1, <1>1, <1>2, <1>5
  <2>. QED
    BY <2>1, <2>2, <1>1, <1>4, <1>5
<1>. QED
  BY <1>5, <1>6, <1>7, <1>8

\* The pruning loop stops at a stored request, at the latest one at the latest,
\* and everything below has expired.
LEMMA PruneStopProperty ==
    ASSUME IInv, latestNonce > 0
    PROVE  /\ PruneStop \in earliestNonce..latestNonce
           /\ \A n \in earliestNonce..(PruneStop - 1) :
                 n < latestNonce /\ Expired(attestations[n])
<1>. DEFINE S == {n \in AvailableNonces : \/ n = latestNonce
                                          \/ n \notin DOMAIN attestations
                                          \/ ~Expired(attestations[n])}
<1>1. /\ latestNonce \in Nat /\ earliestNonce \in Nat /\ earliestNonce <= latestNonce
      /\ AvailableNonces = earliestNonce..latestNonce
  BY DEF IInv, TypeOK, LatestAvailable, AvailableNonces
<1>2. S \subseteq Nat /\ latestNonce \in S
  BY <1>1
<1>3. Min(S) \in S /\ \A y \in S : Min(S) <= y
  BY <1>2, MinProperty
<1>4. PruneStop = Min(S)
  BY <1>1 DEF PruneStop
<1>5. PruneStop \in earliestNonce..latestNonce
  BY <1>1, <1>3, <1>4
<1>6. ASSUME NEW n \in earliestNonce..(PruneStop - 1)
      PROVE  n < latestNonce /\ Expired(attestations[n])
  <2>1. n \in AvailableNonces /\ n < PruneStop /\ n < latestNonce
    BY <1>1, <1>5
  <2>2. n \notin S
    BY <2>1, <1>1, <1>3, <1>4, <1>5
  <2>. QED
    BY <2>1, <2>2
<1>. QED
  BY <1>5, <1>6

-----------------------------------------------------------------------------
(***************************************************************************)
(* What the EndBlocker stores                                              *)
(***************************************************************************)
\* Every address the EndBlocker may write belongs to an operator.
LEMMA AddressesTyped ==
    ASSUME TypeOK
    PROVE  /\ DOMAIN AddressesWithDefaults = DOMAIN evmAddress \cup DOMAIN power
           /\ DOMAIN AddressesWithDefaults \subseteq Validators
           /\ AddressesWithDefaults \in [DOMAIN AddressesWithDefaults -> EvmAddrs]
BY StakingAssumption DEF TypeOK, AddressesWithDefaults

\* The current validator set is a well-formed request.
LEMMA CurrentValsetTyped ==
    ASSUME TypeOK
    PROVE  CurrentValset \in Attestation
<1>1. CurrentMembers \in [EvmAddrs -> Nat]
  <2>. DEFINE addr == AddressesWithDefaults
              M(e) == IF \E v \in DOMAIN power : addr[v] = e
                      THEN NormalizedPower(power, CHOOSE v \in DOMAIN power : addr[v] = e)
                      ELSE 0
  <2>1. \A v \in DOMAIN power : NormalizedPower(power, v) \in Nat
    BY StakingAssumption DEF TypeOK
  <2>2. \A e \in EvmAddrs : M(e) \in Nat
    BY <2>1
  <2>3. CurrentMembers = [e \in EvmAddrs |-> M(e)]
    BY DEF CurrentMembers
  <2>. QED
    BY <2>2, <2>3
<1>2. latestNonce + 1 \in Nat /\ time \in Nat /\ height \in Nat
  BY BlockAssumption DEF TypeOK, Heights
<1>. QED
  BY <1>1, <1>2 DEF CurrentValset, Attestation

\* The next data commitment is a well-formed request.
LEMMA NextDataCommitmentTyped ==
    ASSUME IInv
    PROVE  NextDataCommitment \in Attestation
<1>. DEFINE begin == IF HasDataCommitmentInStore THEN Latest("dc").end ELSE 1
<1>1. HasDataCommitmentInStore => Latest("dc").end \in Nat
  <2>1. SUFFICES ASSUME HasDataCommitmentInStore PROVE Latest("dc").end \in Nat
    OBVIOUS
  <2>2. Latest("dc") \in Attestation /\ Latest("dc").type = "dc"
    BY <2>1, LatestProperty DEF HasDataCommitmentInStore
  <2>. QED
    BY <2>2 DEF Attestation
<1>2. begin \in Nat
  BY <1>1
<1>3. window \in Nat /\ latestNonce + 1 \in Nat /\ time \in Nat
  BY BlockAssumption DEF IInv, TypeOK
<1>. QED
  BY <1>2, <1>3 DEF NextDataCommitment, Attestation

\* Storing a request extends the log and the store by the same entry.
LEMMA SetAttestationRequestProperty ==
    ASSUME IInv, NEW at \in Attestation, at.nonce = latestNonce + 1,
           SetAttestationRequest(at)
    PROVE  /\ emitted' \in Seq(Attestation)
           /\ Len(emitted') = Len(emitted) + 1
           /\ \A n \in 1..Len(emitted) : emitted'[n] = emitted[n]
           /\ emitted'[latestNonce + 1] = at
           /\ latestNonce' = latestNonce + 1
           /\ earliestNonce' = earliestNonce
           /\ DOMAIN attestations' \subseteq Nat
           /\ StoreContiguous'
           /\ LatestAvailable'
<1>1. /\ latestNonce \in Nat /\ earliestNonce \in Nat
      /\ emitted \in Seq(Attestation)
      /\ latestNonce = Len(emitted)
      /\ earliestNonce \in 1..(latestNonce + 1)
      /\ DOMAIN attestations = earliestNonce..latestNonce
      /\ \A n \in DOMAIN attestations : attestations[n] = emitted[n]
      /\ \A n \in 1..Len(emitted) : emitted[n].nonce = n
  BY DEF IInv, TypeOK, StoreContiguous
<1>2. /\ emitted' = Append(emitted, at)
      /\ latestNonce' = latestNonce + 1
      /\ earliestNonce' = earliestNonce
      /\ attestations' = Assign(attestations, latestNonce + 1, at)
  BY DEF SetAttestationRequest
<1>3. /\ emitted' \in Seq(Attestation)
      /\ Len(emitted') = Len(emitted) + 1
      /\ \A n \in 1..Len(emitted) : emitted'[n] = emitted[n]
      /\ emitted'[latestNonce + 1] = at
  BY <1>1, <1>2, AppendProperties
<1>4. DOMAIN attestations' = earliestNonce..(latestNonce + 1)
  BY <1>1, <1>2 DEF Assign
<1>5. \A n \in earliestNonce..(latestNonce + 1) : attestations'[n] = emitted'[n]
  <2>1. ASSUME NEW n \in earliestNonce..latestNonce
        PROVE  attestations'[n] = emitted'[n]
    BY <1>1, <1>2, <1>3 DEF Assign
  <2>2. attestations'[latestNonce + 1] = emitted'[latestNonce + 1]
    BY <1>1, <1>2, <1>3 DEF Assign
  <2>. QED
    BY <2>1, <2>2, <1>1
<1>6. \A n \in 1..Len(emitted') : emitted'[n].nonce = n
  BY <1>1, <1>3
<1>7. StoreContiguous'
  BY <1>1, <1>2, <1>3, <1>4, <1>5, <1>6 DEF StoreContiguous
<1>8. LatestAvailable'
  BY <1>1, <1>2 DEF LatestAvailable
<1>. QED
  BY <1>1, <1>2, <1>3, <1>4, <1>7, <1>8

-----------------------------------------------------------------------------
(***************************************************************************)
(* The inductive invariant is inductive                                    *)
(***************************************************************************)
\* Genesis satisfies the invariant.
LEMMA InitIInv == Init => IInv
<1>. SUFFICES ASSUME Init PROVE IInv
  OBVIOUS
<1>. USE StakingAssumption, BlockAssumption DEF Init
<1>1. DOMAIN evmAddress \subseteq Validators /\ evmAddress \in [DOMAIN evmAddress -> EvmAddrs]
  <2>1. CASE HooksRegistered
    BY <2>1
  <2>2. CASE ~HooksRegistered
    BY <2>2
  <2>. QED
    BY <2>1, <2>2
<1>2. TypeOK
  BY <1>1, EmptySeq DEF TypeOK, Heights, Phases
<1>3. StoreContiguous
  BY DEF StoreContiguous
<1>. QED
  BY <1>2, <1>3 DEF IInv, LogHead, LatestAvailable, Bonded

\* A step that leaves the store alone and asks for no new request keeps the
\* parts of the invariant that speak of the store.
LEMMA StoreUntouched ==
    ASSUME IInv, UNCHANGED store,
           phase' \in {"commit", "prune", "committed"} => latestNonce > 0
    PROVE  /\ StoreContiguous' /\ LogHead' /\ LatestAvailable'
           /\ DOMAIN attestations' \subseteq Nat
           /\ latestNonce' \in Nat /\ earliestNonce' \in Nat
           /\ emitted' \in Seq(Attestation)
BY DEF IInv, TypeOK, StoreContiguous, LogHead, LatestAvailable, store

\* The transactions of a block keep the invariant.
LEMMA DeliverKeepsIInv ==
    ASSUME IInv,
           \/ \E v \in Validators : CreateValidator(v) \/ RemoveValidator(v)
           \/ \E v \in Validators, e \in EvmAddrs : RegisterEvmAddress(v, e)
           \/ \E w \in Windows : UpdateParams(w)
    PROVE  IInv'
<1>1. UNCHANGED <<height, time, phase, power, unbondingHeight, store>>
      /\ phase = "deliver"
  BY DEF CreateValidator, RemoveValidator, RegisterEvmAddress, UpdateParams, staking
<1>2. StoreContiguous' /\ LogHead' /\ LatestAvailable'
      /\ DOMAIN attestations' \subseteq Nat
      /\ latestNonce' \in Nat /\ earliestNonce' \in Nat
      /\ emitted' \in Seq(Attestation)
  BY <1>1, StoreUntouched
<1>3. window' \in Windows
  BY DEF CreateValidator, RemoveValidator, RegisterEvmAddress, UpdateParams, IInv, TypeOK
<1>4. validators' \subseteq Validators /\ DOMAIN power \subseteq validators'
  BY DEF CreateValidator, RemoveValidator, RegisterEvmAddress, UpdateParams, staking,
         IInv, TypeOK, Bonded
<1>5. DOMAIN evmAddress' \subseteq Validators /\ evmAddress' \in [DOMAIN evmAddress' -> EvmAddrs]
  <2>1. DOMAIN evmAddress \subseteq Validators /\ evmAddress \in [DOMAIN evmAddress -> EvmAddrs]
    BY DEF IInv, TypeOK
  <2>2. ASSUME NEW v \in Validators, NEW e \in EvmAddrs,
               evmAddress' = Assign(evmAddress, v, e)
        PROVE  /\ DOMAIN evmAddress' \subseteq Validators
               /\ evmAddress' \in [DOMAIN evmAddress' -> EvmAddrs]
    BY <2>1, <2>2 DEF Assign
  <2>3. ASSUME NEW v \in Validators, CreateValidator(v)
        PROVE  UNCHANGED evmAddress \/ evmAddress' = Assign(evmAddress, v, DefaultEvmAddress[v])
    BY <2>3 DEF CreateValidator
  <2>4. \A v \in Validators : DefaultEvmAddress[v] \in EvmAddrs
    BY StakingAssumption
  <2>. QED
    BY <2>1, <2>2, <2>3, <2>4 DEF RemoveValidator, RegisterEvmAddress, UpdateParams
<1>. QED
  BY <1>1, <1>2, <1>3, <1>4, <1>5 DEF IInv, TypeOK, Bonded, Phases

\* New powers come from a table of staking and unbonding heights from the block.
LEMMA StakingEndBlockerKeepsIInv ==
    ASSUME IInv, NEW t \in PowerTables, StakingEndBlocker(t)
    PROVE  IInv'
<1>1. StoreContiguous' /\ LogHead' /\ LatestAvailable'
      /\ DOMAIN attestations' \subseteq Nat
      /\ latestNonce' \in Nat /\ earliestNonce' \in Nat
      /\ emitted' \in Seq(Attestation)
  BY StoreUntouched DEF StakingEndBlocker
<1>2. unbondingHeight' \in 0..height'
  BY BlockAssumption DEF StakingEndBlocker, IInv, TypeOK, Heights
<1>. QED
  BY <1>1, <1>2 DEF StakingEndBlocker, IInv, TypeOK, Bonded, Phases

\* A new validator set extends the store by one request; a panic changes nothing.
LEMMA HandleValsetRequestKeepsIInv ==
    ASSUME IInv, HandleValsetRequest
    PROVE  IInv'
<1>1. CASE SkipsValset
  <2>1. UNCHANGED <<height, time, validators, power, unbondingHeight, evmAddress, window>>
        /\ UNCHANGED store /\ phase' = "commit"
    BY <1>1 DEF HandleValsetRequest, staking
  <2>2. latestNonce > 0
    BY <1>1 DEF SkipsValset, IInv, TypeOK
  <2>3. StoreContiguous' /\ LogHead' /\ LatestAvailable'
        /\ DOMAIN attestations' \subseteq Nat
        /\ latestNonce' \in Nat /\ earliestNonce' \in Nat
        /\ emitted' \in Seq(Attestation)
    BY <2>1, <2>2, StoreUntouched
  <2>. QED
    BY <2>1, <2>3 DEF IInv, TypeOK, Bonded, Phases
<1>2. CASE ~SkipsValset /\ ValsetPanics
  <2>1. UNCHANGED <<height, time, validators, power, unbondingHeight, evmAddress, window>>
        /\ UNCHANGED store /\ phase' = "halted"
    BY <1>2 DEF HandleValsetRequest, staking
  <2>2. StoreContiguous' /\ LogHead' /\ LatestAvailable'
        /\ DOMAIN attestations' \subseteq Nat
        /\ latestNonce' \in Nat /\ earliestNonce' \in Nat
        /\ emitted' \in Seq(Attestation)
    BY <2>1, StoreUntouched
  <2>. QED
    BY <2>1, <2>2 DEF IInv, TypeOK, Bonded, Phases
<1>3. CASE ~SkipsValset /\ ~ValsetPanics
  <2>1. UNCHANGED <<height, time, validators, power, unbondingHeight, window>>
        /\ evmAddress' = AddressesWithDefaults /\ phase' = "commit"
    BY <1>3 DEF HandleValsetRequest, staking
  <2>2. DOMAIN evmAddress' \subseteq Validators /\ evmAddress' \in [DOMAIN evmAddress' -> EvmAddrs]
    BY <2>1, AddressesTyped DEF IInv
  <2>3. CASE ValsetNeeded
    <3>1. SetAttestationRequest(CurrentValset)
      BY <1>3, <2>3 DEF HandleValsetRequest
    <3>2. /\ CurrentValset \in Attestation
          /\ CurrentValset.nonce = latestNonce + 1 /\ CurrentValset.type = "valset"
      BY CurrentValsetTyped DEF IInv, CurrentValset
    <3>3. /\ emitted' \in Seq(Attestation)
          /\ Len(emitted') = Len(emitted) + 1
          /\ \A n \in 1..Len(emitted) : emitted'[n] = emitted[n]
          /\ emitted'[latestNonce + 1] = CurrentValset
          /\ latestNonce' = latestNonce + 1
          /\ earliestNonce' = earliestNonce
          /\ DOMAIN attestations' \subseteq Nat
          /\ StoreContiguous'
          /\ LatestAvailable'
      BY <3>1, <3>2, SetAttestationRequestProperty
    <3>4. emitted'[1].type = "valset"
      <4>1. CASE emitted = <<>>
        BY <4>1, <3>2, <3>3 DEF IInv, StoreContiguous
      <4>2. CASE emitted # <<>>
        BY <4>2, <3>3, EmptySeq DEF IInv, StoreContiguous, LogHead, TypeOK
      <4>. QED
        BY <4>1, <4>2
    <3>5. LogHead'
      BY <3>3, <3>4 DEF LogHead, IInv, TypeOK
    <3>. QED
      BY <2>1, <2>2, <3>3, <3>5 DEF IInv, TypeOK, Bonded, Phases
  <2>4. CASE ~ValsetNeeded
    <3>1. UNCHANGED store
      BY <1>3, <2>4 DEF HandleValsetRequest
    <3>2. latestNonce > 0
      BY <2>4 DEF ValsetNeeded, IInv, TypeOK
    <3>3. StoreContiguous' /\ LogHead' /\ LatestAvailable'
          /\ DOMAIN attestations' \subseteq Nat
          /\ latestNonce' \in Nat /\ earliestNonce' \in Nat
          /\ emitted' \in Seq(Attestation)
      BY <3>1, <3>2, StoreUntouched
    <3>. QED
      BY <2>1, <2>2, <3>3 DEF IInv, TypeOK, Bonded, Phases
  <2>. QED
    BY <2>3, <2>4
<1>. QED
  BY <1>1, <1>2, <1>3

\* An iteration of the loop stores a request or leaves the store alone.
LEMMA HandleDataCommitmentRequestKeepsIInv ==
    ASSUME IInv, HandleDataCommitmentRequest
    PROVE  IInv'
<1>1. UNCHANGED <<height, time, validators, power, unbondingHeight, evmAddress, window>>
      /\ phase = "commit" /\ latestNonce > 0
  BY DEF HandleDataCommitmentRequest, staking, IInv, LogHead
<1>2. CASE UNCHANGED store /\ phase' \in {"prune", "halted"}
  <2>1. StoreContiguous' /\ LogHead' /\ LatestAvailable'
        /\ DOMAIN attestations' \subseteq Nat
        /\ latestNonce' \in Nat /\ earliestNonce' \in Nat
        /\ emitted' \in Seq(Attestation)
    BY <1>1, <1>2, StoreUntouched
  <2>. QED
    BY <1>1, <1>2, <2>1 DEF IInv, TypeOK, Bonded, Phases
<1>3. CASE SetAttestationRequest(NextDataCommitment) /\ UNCHANGED phase
  <2>1. NextDataCommitment \in Attestation /\ NextDataCommitment.nonce = latestNonce + 1
    BY NextDataCommitmentTyped DEF NextDataCommitment
  <2>2. /\ emitted' \in Seq(Attestation)
        /\ Len(emitted') = Len(emitted) + 1
        /\ \A n \in 1..Len(emitted) : emitted'[n] = emitted[n]
        /\ latestNonce' = latestNonce + 1
        /\ earliestNonce' = earliestNonce
        /\ DOMAIN attestations' \subseteq Nat
        /\ StoreContiguous'
        /\ LatestAvailable'
    BY <1>3, <2>1, SetAttestationRequestProperty
  <2>3. LogHead'
    <3>1. emitted # <<>> /\ 1 \in 1..Len(emitted)
      BY <1>1, EmptySeq DEF IInv, TypeOK, StoreContiguous
    <3>. QED
      BY <1>1, <2>2, <3>1 DEF LogHead, IInv, TypeOK
  <2>. QED
    BY <1>1, <1>3, <2>2, <2>3 DEF IInv, TypeOK, Bonded
<1>. QED
  BY <1>2, <1>3 DEF HandleDataCommitmentRequest

\* Pruning removes a prefix of the store and moves the earliest nonce to it.
LEMMA PruneAttestationsProperty ==
    ASSUME IInv, PruneAttestations
    PROVE  /\ earliestNonce' = PruneStop
           /\ DOMAIN attestations' = PruneStop..latestNonce
           /\ \A n \in PruneStop..latestNonce : attestations'[n] = attestations[n]
<1>1. latestNonce > 0
  BY DEF PruneAttestations, IInv, LogHead
<1>2. PruneStop \in earliestNonce..latestNonce
  BY <1>1, PruneStopProperty
<1>3. /\ latestNonce \in Nat /\ earliestNonce \in Nat
      /\ DOMAIN attestations = earliestNonce..latestNonce
  BY DEF IInv, TypeOK, StoreContiguous
<1>. QED
  BY <1>2, <1>3 DEF PruneAttestations

\* The store that pruning leaves is still the end of the log.
LEMMA PruneAttestationsKeepsIInv ==
    ASSUME IInv, PruneAttestations
    PROVE  IInv'
<1>1. latestNonce > 0
  BY DEF PruneAttestations, IInv, LogHead
<1>2. PruneStop \in earliestNonce..latestNonce
  BY <1>1, PruneStopProperty
<1>3. /\ earliestNonce' = PruneStop
      /\ DOMAIN attestations' = PruneStop..latestNonce
      /\ \A n \in PruneStop..latestNonce : attestations'[n] = attestations[n]
  BY PruneAttestationsProperty
<1>4. UNCHANGED <<height, time, validators, power, unbondingHeight, evmAddress, window,
                  latestNonce, emitted>> /\ phase' = "committed"
  BY DEF PruneAttestations, staking
<1>5. StoreContiguous'
  BY <1>2, <1>3, <1>4 DEF IInv, TypeOK, StoreContiguous
<1>. QED
  BY <1>1, <1>2, <1>3, <1>4, <1>5
     DEF IInv, TypeOK, LogHead, LatestAvailable, Bonded, Phases

\* Only the height and the clock move from one block to the next.
LEMMA NextBlockKeepsIInv ==
    ASSUME IInv, NEW d \in BlockDelays, NextBlock(d)
    PROVE  IInv'
<1>1. StoreContiguous' /\ LogHead' /\ LatestAvailable'
      /\ DOMAIN attestations' \subseteq Nat
      /\ latestNonce' \in Nat /\ earliestNonce' \in Nat
      /\ emitted' \in Seq(Attestation)
  BY StoreUntouched DEF NextBlock
<1>2. height' \in Heights /\ time' \in Nat /\ unbondingHeight' \in 0..height'
  BY BlockAssumption DEF NextBlock, IInv, TypeOK, Heights, staking
<1>. QED
  BY <1>1, <1>2 DEF NextBlock, staking, IInv, TypeOK, Bonded, Phases

\* Every step keeps the invariant.
LEMMA NextIInv == IInv /\ [Next]_vars => IInv'
<1>. SUFFICES ASSUME IInv, [Next]_vars PROVE IInv'
  OBVIOUS
<1>1. CASE UNCHANGED vars
  BY <1>1 DEF vars, staking, store, IInv, TypeOK, StoreContiguous, LogHead,
              LatestAvailable, Bonded
<1>2. CASE LastBlock
  BY <1>1, <1>2 DEF LastBlock
<1>. QED
  BY <1>1, <1>2, DeliverKeepsIInv, StakingEndBlockerKeepsIInv,
     HandleValsetRequestKeepsIInv, HandleDataCommitmentRequestKeepsIInv,
     PruneAttestationsKeepsIInv, NextBlockKeepsIInv DEF Next

\* IInv holds in every reachable state.
THEOREM Inductive == Spec => []IInv
BY InitIInv, NextIInv, PTL DEF Spec

-----------------------------------------------------------------------------
(***************************************************************************)
(* Theorems about the attestation store                                    *)
(***************************************************************************)
\* Type correctness of the whole module, hooks or no hooks.
THEOREM TypeCorrect == Spec => []TypeOK
<1>1. IInv => TypeOK
  BY DEF IInv
<1>. QED
  BY <1>1, Inductive, PTL

\* The store is the unpruned suffix of the log, without a gap: the EndBlocker
\* never skips, reuses or rewrites a nonce.
THEOREM StoreCorrect == Spec => []StoreContiguous
<1>1. IInv => StoreContiguous
  BY DEF IInv
<1>. QED
  BY <1>1, Inductive, PTL

\* Pruning is safe: a request leaves the store only when it has expired and is
\* not the latest one, and no step changes a stored request.
THEOREM PruningSafe == Spec => PrunesOnlyExpired
<1>1. IInv /\ [Next]_vars => [StoreStep]_vars
  <2>. SUFFICES ASSUME IInv, Next PROVE StoreStep
    BY DEF vars
  <2>1. CASE UNCHANGED attestations
    BY <2>1 DEF StoreStep
  <2>2. ASSUME NEW at \in Attestation, at.nonce = latestNonce + 1, SetAttestationRequest(at)
        PROVE  StoreStep
    BY <2>2, SetAttestationRequestProperty DEF StoreStep, IInv, StoreContiguous, TypeOK
  <2>3. CASE HandleValsetRequest
    <3>1. CurrentValset \in Attestation /\ CurrentValset.nonce = latestNonce + 1
      BY CurrentValsetTyped DEF IInv, CurrentValset
    <3>. QED
      BY <2>1, <2>2, <2>3, <3>1 DEF HandleValsetRequest, store
  <2>4. CASE HandleDataCommitmentRequest
    <3>1. NextDataCommitment \in Attestation /\ NextDataCommitment.nonce = latestNonce + 1
      BY NextDataCommitmentTyped DEF NextDataCommitment
    <3>. QED
      BY <2>1, <2>2, <2>4, <3>1 DEF HandleDataCommitmentRequest, store
  <2>5. CASE PruneAttestations
    <3>1. latestNonce > 0
      BY <2>5 DEF PruneAttestations, IInv, LogHead
    <3>2. /\ PruneStop \in earliestNonce..latestNonce
          /\ \A n \in earliestNonce..(PruneStop - 1) :
                n < latestNonce /\ Expired(attestations[n])
      BY <3>1, PruneStopProperty
    <3>3. /\ DOMAIN attestations' = PruneStop..latestNonce
          /\ \A n \in PruneStop..latestNonce : attestations'[n] = attestations[n]
      BY <2>5, PruneAttestationsProperty
    <3>. QED
      BY <3>2, <3>3 DEF StoreStep, IInv, StoreContiguous, TypeOK
  <2>. QED
    BY <2>1, <2>3, <2>4, <2>5
       DEF Next, CreateValidator, RemoveValidator, RegisterEvmAddress, UpdateParams,
           StakingEndBlocker, NextBlock, LastBlock, store, vars
<1>. QED
  BY <1>1, Inductive, PTL DEF Spec, PrunesOnlyExpired

\* No data commitment covers a block that does not exist yet, however the
\* window changes and whatever was pruned.
THEOREM NoFutureCommitment == Spec => []NoFutureBlocks
<1>1. Init => NoFutureBlocks
  BY DEF Init, NoFutureBlocks, EmittedOf
<1>2. IInv /\ NoFutureBlocks /\ [Next]_vars => NoFutureBlocks'
  <2>. SUFFICES ASSUME IInv, NoFutureBlocks, [Next]_vars PROVE NoFutureBlocks'
    OBVIOUS
  <2>1. /\ latestNonce \in Nat /\ latestNonce = Len(emitted) /\ height \in Nat
        /\ window \in Nat /\ emitted \in Seq(Attestation)
    BY BlockAssumption DEF IInv, TypeOK, StoreContiguous, Heights
  <2>2. ASSUME UNCHANGED emitted, height' = height \/ height' = height + 1
        PROVE  NoFutureBlocks'
    <3>1. \A n \in EmittedOf("dc") : emitted[n].end \in Nat
      BY <2>1, ElementOfSeq DEF EmittedOf, Attestation
    <3>. QED
      BY <2>1, <2>2, <3>1 DEF NoFutureBlocks, EmittedOf
  <2>3. ASSUME NEW at \in Attestation, at.nonce = latestNonce + 1,
               SetAttestationRequest(at), UNCHANGED height,
               at.type = "dc" => at.end <= height + 1
        PROVE  NoFutureBlocks'
    <3>1. /\ Len(emitted') = Len(emitted) + 1
          /\ \A n \in 1..Len(emitted) : emitted'[n] = emitted[n]
          /\ emitted'[latestNonce + 1] = at
      BY <2>3, SetAttestationRequestProperty
    <3>2. \A n \in 1..Len(emitted') : n \in 1..Len(emitted) \/ n = latestNonce + 1
      BY <2>1, <3>1
    <3>. QED
      BY <2>1, <2>3, <3>1, <3>2 DEF NoFutureBlocks, EmittedOf
  <2>4. CASE HandleValsetRequest
    <3>1. /\ CurrentValset \in Attestation /\ CurrentValset.nonce = latestNonce + 1
          /\ CurrentValset.type = "valset"
      BY CurrentValsetTyped DEF IInv, CurrentValset
    <3>2. UNCHANGED height /\ (UNCHANGED emitted \/ SetAttestationRequest(CurrentValset))
      BY <2>4 DEF HandleValsetRequest, store
    <3>. QED
      BY <2>2, <2>3, <3>1, <3>2
  <2>5. CASE HandleDataCommitmentRequest
    <3>1. NextDataCommitment \in Attestation /\ NextDataCommitment.nonce = latestNonce + 1
      BY NextDataCommitmentTyped DEF NextDataCommitment
    <3>2. DataCommitmentDue => NextDataCommitment.end <= height + 1
      <4>1. CASE HasDataCommitmentInStore
        <5>1. Latest("dc") \in Attestation /\ Latest("dc").type = "dc"
          BY <4>1, LatestProperty DEF HasDataCommitmentInStore
        <5>2. Latest("dc").end \in Nat
          BY <5>1 DEF Attestation
        <5>. QED
          BY <2>1, <4>1, <5>2 DEF DataCommitmentDue, NextDataCommitment
      <4>2. CASE ~HasDataCommitmentInStore
        BY <2>1, <4>2 DEF DataCommitmentDue, NextDataCommitment
      <4>. QED
        BY <4>1, <4>2
    <3>3. /\ UNCHANGED height
          /\ \/ UNCHANGED emitted
             \/ DataCommitmentDue /\ SetAttestationRequest(NextDataCommitment)
      BY <2>5 DEF HandleDataCommitmentRequest, store
    <3>. QED
      BY <2>2, <2>3, <3>1, <3>2, <3>3
  <2>. QED
    BY <2>2, <2>4, <2>5
       DEF Next, CreateValidator, RemoveValidator, RegisterEvmAddress, UpdateParams,
           StakingEndBlocker, PruneAttestations, NextBlock, LastBlock, store, vars
<1>. QED
  BY <1>1, <1>2, Inductive, PTL DEF Spec

-----------------------------------------------------------------------------
(***************************************************************************)
(* With the hooks registered the EndBlocker never panics                   *)
(***************************************************************************)
HInv == EVMUnique /\ NeverHalts

\* Unique addresses make the current validator set valid.
LEMMA CurrentValsetValid ==
    ASSUME IInv, EVMUnique
    PROVE  AddressesWithDefaults = evmAddress /\ ~CurrentValsetInvalid /\ ~NoValidators
<1>1. DOMAIN power \subseteq DOMAIN evmAddress
  BY DEF IInv, Bonded, EVMUnique
<1>2. AddressesWithDefaults = evmAddress
  BY <1>1 DEF AddressesWithDefaults, IInv, TypeOK
<1>3. \A v \in DOMAIN power : NormalizedPower(power, v) # 0
  BY StakingAssumption DEF IInv, TypeOK
<1>4. ~NoValidators
  BY StakingAssumption DEF NoValidators, IInv, TypeOK
<1>. QED
  BY <1>1, <1>2, <1>3, <1>4 DEF CurrentValsetInvalid, EVMUnique

\* Nonce 1 is a validator set, so one is found unless something was pruned.
LEMMA LatestValsetFound ==
    ASSUME IInv, latestNonce # 0
    PROVE  ~GetLatestValsetPanics
<1>1. ~ScanDownFails("valset")
  BY ScansSucceed
<1>2. ASSUME earliestNonce = 1 PROVE NoncesOf("valset") # {}
  <2>1. latestNonce \in Nat /\ latestNonce > 0 /\ Len(emitted) = latestNonce
    BY DEF IInv, TypeOK, StoreContiguous
  <2>2. emitted # <<>>
    BY <2>1, EmptySeq
  <2>3. 1 \in NoncesOf("valset")
    BY <1>2, <2>1, <2>2 DEF NoncesOf, AvailableNonces, IInv, StoreContiguous, LogHead
  <2>. QED
    BY <2>3
<1>. QED
  BY <1>1, <1>2 DEF GetLatestValsetPanics

\* With the hooks registered, every existing validator has its own address and
\* no handler of the EndBlocker takes a panicking branch.
LEMMA NextHInv == HooksRegistered /\ IInv /\ HInv /\ [Next]_vars => HInv'
<1>. SUFFICES ASSUME HooksRegistered, IInv, HInv, [Next]_vars PROVE HInv'
  OBVIOUS
<1>1. CASE UNCHANGED <<validators, evmAddress, phase>>
  BY <1>1 DEF HInv, EVMUnique, NeverHalts
<1>2. ASSUME NEW v \in Validators, CreateValidator(v) PROVE HInv'
  <2>1. /\ validators' = validators \cup {v}
        /\ evmAddress' = Assign(evmAddress, v, DefaultEvmAddress[v])
        /\ \A w \in DOMAIN evmAddress : evmAddress[w] # DefaultEvmAddress[v]
        /\ phase' = phase
    BY <1>2 DEF CreateValidator, IsEVMAddressUnique
  <2>. QED
    BY <2>1 DEF HInv, EVMUnique, NeverHalts, Assign
<1>3. ASSUME NEW v \in Validators, RemoveValidator(v) PROVE HInv'
  BY <1>3 DEF RemoveValidator, HInv, EVMUnique, NeverHalts
<1>4. ASSUME NEW v \in Validators, NEW e \in EvmAddrs, RegisterEvmAddress(v, e) PROVE HInv'
  <2>1. /\ UNCHANGED <<validators, phase>>
        /\ v \in validators
        /\ evmAddress' = Assign(evmAddress, v, e)
        /\ \A w \in DOMAIN evmAddress : evmAddress[w] # e
    BY <1>4 DEF RegisterEvmAddress, IsEVMAddressUnique, staking
  <2>. QED
    BY <2>1 DEF HInv, EVMUnique, NeverHalts, Assign
<1>5. CASE HandleValsetRequest
  <2>1. AddressesWithDefaults = evmAddress /\ ~CurrentValsetInvalid /\ ~NoValidators
    BY CurrentValsetValid DEF HInv
  <2>2. ~SkipsValset /\ ~ValsetPanics
    BY <2>1, ScansSucceed, LatestValsetFound DEF SkipsValset, ValsetPanics
  <2>3. UNCHANGED <<validators, evmAddress>> /\ phase' = "commit"
    BY <1>5, <2>1, <2>2 DEF HandleValsetRequest, staking
  <2>. QED
    BY <2>3 DEF HInv, EVMUnique, NeverHalts
<1>6. CASE HandleDataCommitmentRequest
  <2>1. UNCHANGED <<validators, evmAddress>> /\ phase' # "halted"
    BY <1>6, ScansSucceed DEF HandleDataCommitmentRequest, staking
  <2>. QED
    BY <2>1 DEF HInv, EVMUnique, NeverHalts
<1>7. ASSUME NEW t \in PowerTables, StakingEndBlocker(t) PROVE HInv'
  BY <1>7 DEF StakingEndBlocker, HInv, EVMUnique, NeverHalts
<1>8. CASE PruneAttestations
  BY <1>8 DEF PruneAttestations, staking, HInv, EVMUnique, NeverHalts
<1>9. ASSUME NEW d \in BlockDelays, NextBlock(d) PROVE HInv'
  BY <1>9 DEF NextBlock, staking, HInv, EVMUnique, NeverHalts
<1>. QED
  BY <1>1, <1>2, <1>3, <1>4, <1>5, <1>6, <1>7, <1>8, <1>9
     DEF Next, UpdateParams, LastBlock, vars, staking

\* If the keeper's hooks are registered with x/staking, EVM addresses stay
\* unique and no panic of the EndBlocker is reachable, whatever validators do.
THEOREM HooksSuffice ==
    ASSUME HooksRegistered
    PROVE  Spec => [](EVMUnique /\ NeverHalts)
<1>1. Init => HInv
  BY DEF Init, HInv, EVMUnique, NeverHalts
<1>2. IInv /\ HInv /\ [Next]_vars => HInv'
  BY NextHInv
<1>3. HInv <=> EVMUnique /\ NeverHalts
  BY DEF HInv
<1>. QED
  BY <1>1, <1>2, <1>3, Inductive, PTL DEF Spec

\* With the hooks of the keeper registered no two operators share an EVM
\* address, whatever they register and whoever joins or leaves.
THEOREM AddressesUnique ==
    ASSUME HooksRegistered
    PROVE  Spec => []EVMUnique
BY HooksSuffice, PTL

-----------------------------------------------------------------------------
(***************************************************************************)
(* What holds at the end of every block.                                   *)
(*                                                                         *)
(* The pruning loop of the EndBlocker looks at a prefix of the store only. *)
(* It is complete all the same, for every expiry time and all block times: *)
(* requests are stored in the order of their times.  And the last set of   *)
(* validators that was requested is close to the bonded one.               *)
(***************************************************************************)

(***************************************************************************)
(* The inductive invariant                                                 *)
(***************************************************************************)
\* Requests carry the block time at which they were stored, in order.
TimesOrdered ==
    /\ \A n \in 1..Len(emitted) : emitted[n].time <= time
    /\ \A m, n \in 1..Len(emitted) : m <= n => emitted[m].time <= emitted[n].time

\* What was pruned has expired.
PrunedExpired == \A n \in 1..(earliestNonce - 1) : Expired(emitted[n])

TInv == TimesOrdered /\ PrunedExpired /\ StoreUnexpired

-----------------------------------------------------------------------------
\* The pruning loop stops at the latest request or at one that is still young.
LEMMA PruneStopYoung ==
    ASSUME IInv, latestNonce > 0
    PROVE  PruneStop = latestNonce \/ ~Expired(attestations[PruneStop])
<1>. DEFINE S == {n \in AvailableNonces : \/ n = latestNonce
                                          \/ n \notin DOMAIN attestations
                                          \/ ~Expired(attestations[n])}
<1>1. /\ latestNonce \in Nat /\ earliestNonce \in Nat /\ earliestNonce <= latestNonce
      /\ AvailableNonces = earliestNonce..latestNonce
      /\ DOMAIN attestations = earliestNonce..latestNonce
  BY DEF IInv, TypeOK, LatestAvailable, AvailableNonces, StoreContiguous
<1>2. S \subseteq Nat /\ latestNonce \in S
  BY <1>1
<1>3. Min(S) \in S
  BY <1>2, MinProperty
<1>4. PruneStop = Min(S)
  BY <1>1 DEF PruneStop
<1>. QED
  BY <1>1, <1>3, <1>4

\* The facts about the store that every step below uses.
LEMMA StoreFacts ==
    ASSUME IInv
    PROVE  /\ latestNonce \in Nat /\ earliestNonce \in Nat /\ time \in Nat
           /\ earliestNonce >= 1 /\ earliestNonce <= latestNonce + 1
           /\ Len(emitted) = latestNonce
           /\ emitted \in Seq(Attestation)
           /\ \A n \in 1..Len(emitted) : emitted[n].time \in Nat
           /\ ExpiryTime \in Nat
<1>1. /\ latestNonce \in Nat /\ earliestNonce \in Nat /\ time \in Nat
      /\ earliestNonce >= 1 /\ earliestNonce <= latestNonce + 1
      /\ Len(emitted) = latestNonce
      /\ emitted \in Seq(Attestation)
  BY DEF IInv, TypeOK, StoreContiguous
<1>2. \A n \in 1..Len(emitted) : emitted[n].time \in Nat
  BY <1>1, ElementOfSeq DEF Attestation
<1>. QED
  BY <1>1, <1>2, BlockAssumption

\* Storing a request stamped with the current time keeps the order of times.
LEMMA StoringKeepsTInv ==
    ASSUME IInv, TInv, NEW at \in Attestation, at.nonce = latestNonce + 1,
           at.time = time, SetAttestationRequest(at), UNCHANGED time,
           phase' # "committed"
    PROVE  TInv'
<1>1. /\ Len(emitted') = Len(emitted) + 1
      /\ \A n \in 1..Len(emitted) : emitted'[n] = emitted[n]
      /\ emitted'[latestNonce + 1] = at
      /\ earliestNonce' = earliestNonce
  BY SetAttestationRequestProperty
<1>2. \A n \in 1..Len(emitted') :
         \/ n \in 1..Len(emitted) /\ emitted'[n] = emitted[n]
         \/ n = latestNonce + 1 /\ emitted'[n] = at
  BY <1>1, StoreFacts
<1>3. \A n \in 1..Len(emitted') : emitted'[n].time <= time'
  BY <1>2, StoreFacts DEF TInv, TimesOrdered
<1>4. ASSUME NEW m \in 1..Len(emitted'), NEW n \in 1..Len(emitted'), m <= n
      PROVE  emitted'[m].time <= emitted'[n].time
  <2>1. CASE n = latestNonce + 1
    BY <2>1, <1>1, <1>3
  <2>2. CASE n # latestNonce + 1
    <3>1. m \in 1..Len(emitted) /\ n \in 1..Len(emitted)
      BY <1>1, <1>4, <2>2, StoreFacts
    <3>. QED
      BY <1>1, <1>4, <3>1 DEF TInv, TimesOrdered
  <2>. QED
    BY <2>1, <2>2
<1>5. TimesOrdered'
  BY <1>3, <1>4 DEF TimesOrdered
<1>6. PrunedExpired'
  <2>1. \A n \in 1..(earliestNonce - 1) : n \in 1..Len(emitted)
    BY StoreFacts
  <2>. QED
    BY <1>1, <2>1 DEF TInv, PrunedExpired, Expired
<1>. QED
  BY <1>5, <1>6 DEF TInv, StoreUnexpired

\* After the loop everything below the earliest nonce has expired and, times
\* being in order, nothing above it has, the latest request excepted.
LEMMA PruningKeepsTInv ==
    ASSUME IInv, TInv, PruneAttestations
    PROVE  TInv'
<1>1. latestNonce > 0
  BY DEF PruneAttestations, IInv, LogHead
<1>2. /\ PruneStop \in earliestNonce..latestNonce
      /\ \A n \in earliestNonce..(PruneStop - 1) :
            n < latestNonce /\ Expired(attestations[n])
  BY <1>1, PruneStopProperty
<1>3. /\ earliestNonce' = PruneStop
      /\ DOMAIN attestations' = PruneStop..latestNonce
  BY PruneAttestationsProperty
<1>4. UNCHANGED <<time, emitted, latestNonce>>
  BY DEF PruneAttestations
<1>5. \A n \in earliestNonce..latestNonce : attestations[n] = emitted[n]
  BY DEF IInv, StoreContiguous
<1>6. \A n \in 1..(PruneStop - 1) : Expired(emitted[n]) /\ n < latestNonce
  <2>1. SUFFICES ASSUME NEW n \in 1..(PruneStop - 1)
                 PROVE  Expired(emitted[n]) /\ n < latestNonce
    OBVIOUS
  <2>2. CASE n < earliestNonce
    BY <2>2, <1>2, StoreFacts DEF TInv, PrunedExpired
  <2>3. CASE n >= earliestNonce
    <3>1. n \in earliestNonce..(PruneStop - 1) /\ n \in earliestNonce..latestNonce
      BY <2>3, <1>2, StoreFacts
    <3>. QED
      BY <3>1, <1>2, <1>5
  <2>. QED
    BY <2>2, <2>3, <1>2, StoreFacts
<1>7. \A n \in PruneStop..latestNonce : n = latestNonce \/ ~Expired(emitted[n])
  <2>1. SUFFICES ASSUME NEW n \in PruneStop..latestNonce, n # latestNonce
                 PROVE  ~Expired(emitted[n])
    OBVIOUS
  <2>2. PruneStop # latestNonce
    BY <2>1, <1>2, StoreFacts
  <2>3. ~Expired(emitted[PruneStop])
    BY <2>2, <1>1, <1>2, <1>5, PruneStopYoung
  <2>4. PruneStop \in 1..Len(emitted) /\ n \in 1..Len(emitted) /\ PruneStop <= n
    BY <2>1, <1>2, StoreFacts
  <2>5. emitted[PruneStop].time <= emitted[n].time
    BY <2>4 DEF TInv, TimesOrdered
  <2>. QED
    BY <2>3, <2>4, <2>5, StoreFacts DEF Expired
<1>8. PruneStop..latestNonce =
        {n \in 1..Len(emitted) : n = latestNonce \/ ~Expired(emitted[n])}
  <2>1. ASSUME NEW n \in 1..Len(emitted), n \notin PruneStop..latestNonce
        PROVE  n # latestNonce /\ Expired(emitted[n])
    <3>1. n \in 1..(PruneStop - 1)
      BY <2>1, <1>2, StoreFacts
    <3>. QED
      BY <3>1, <1>6, StoreFacts
  <2>2. \A n \in PruneStop..latestNonce : n \in 1..Len(emitted)
    BY <1>2, StoreFacts
  <2>. QED
    BY <2>1, <2>2, <1>7
<1>9. TimesOrdered' /\ PrunedExpired'
  BY <1>3, <1>4, <1>6 DEF TInv, TimesOrdered, PrunedExpired, Expired
<1>10. StoreUnexpired'
  BY <1>3, <1>4, <1>8 DEF StoreUnexpired, Expired
<1>. QED
  BY <1>9, <1>10 DEF TInv

\* Time only makes more requests expire.
LEMMA NextBlockKeepsTInv ==
    ASSUME IInv, TInv, NEW d \in BlockDelays, NextBlock(d)
    PROVE  TInv'
<1>1. /\ UNCHANGED <<emitted, earliestNonce>>
      /\ time' = time + d /\ d \in Nat
      /\ phase' = "deliver"
  BY BlockAssumption DEF NextBlock, store
<1>2. TimesOrdered'
  BY <1>1, StoreFacts DEF TInv, TimesOrdered
<1>3. PrunedExpired'
  <2>1. \A n \in 1..(earliestNonce - 1) : n \in 1..Len(emitted)
    BY StoreFacts
  <2>. QED
    BY <1>1, <2>1, StoreFacts DEF TInv, PrunedExpired, Expired
<1>. QED
  BY <1>1, <1>2, <1>3 DEF TInv, StoreUnexpired

\* Every step keeps the invariant.
LEMMA NextTInv == IInv /\ TInv /\ [Next]_vars => TInv'
<1>. SUFFICES ASSUME IInv, TInv, [Next]_vars PROVE TInv'
  OBVIOUS
<1>1. CASE UNCHANGED vars
  BY <1>1 DEF vars, store, TInv, TimesOrdered, PrunedExpired, StoreUnexpired, Expired
<1>2. ASSUME UNCHANGED <<emitted, earliestNonce, time>>, phase' # "committed"
      PROVE  TInv'
  BY <1>2 DEF TInv, TimesOrdered, PrunedExpired, StoreUnexpired, Expired
<1>3. CASE HandleValsetRequest
  <2>1. /\ CurrentValset \in Attestation /\ CurrentValset.nonce = latestNonce + 1
        /\ CurrentValset.time = time
    BY CurrentValsetTyped DEF IInv, CurrentValset
  <2>2. /\ UNCHANGED time /\ phase' # "committed"
        /\ \/ UNCHANGED <<emitted, earliestNonce>>
           \/ SetAttestationRequest(CurrentValset)
    BY <1>3 DEF HandleValsetRequest, store
  <2>. QED
    BY <1>2, <2>1, <2>2, StoringKeepsTInv
<1>4. CASE HandleDataCommitmentRequest
  <2>1. /\ NextDataCommitment \in Attestation
        /\ NextDataCommitment.nonce = latestNonce + 1
        /\ NextDataCommitment.time = time
    BY NextDataCommitmentTyped DEF NextDataCommitment
  <2>2. /\ UNCHANGED time /\ phase' # "committed"
        /\ \/ UNCHANGED <<emitted, earliestNonce>>
           \/ SetAttestationRequest(NextDataCommitment)
    BY <1>4 DEF HandleDataCommitmentRequest, store
  <2>. QED
    BY <1>2, <2>1, <2>2, StoringKeepsTInv
<1>5. CASE PruneAttestations
  BY <1>5, PruningKeepsTInv
<1>6. CASE \E d \in BlockDelays : NextBlock(d)
  BY <1>6, NextBlockKeepsTInv
<1>7. CASE LastBlock
  BY <1>1, <1>7 DEF LastBlock
<1>8. CASE \/ \E v \in Validators : CreateValidator(v) \/ RemoveValidator(v)
           \/ \E v \in Validators, e \in EvmAddrs : RegisterEvmAddress(v, e)
           \/ \E w \in Windows : UpdateParams(w)
           \/ \E t \in PowerTables : StakingEndBlocker(t)
  BY <1>2, <1>8 DEF CreateValidator, RemoveValidator, RegisterEvmAddress,
                    UpdateParams, StakingEndBlocker, store
<1>. QED
  BY <1>1, <1>3, <1>4, <1>5, <1>6, <1>7, <1>8 DEF Next

\* At the end of every block the store holds exactly the requests that have not
\* expired, and the latest: PruneAttestations leaves nothing behind although it
\* stops at the first request that is young.
THEOREM PruningComplete == Spec => []StoreUnexpired
<1>1. Init => TInv
  BY DEF Init, TInv, TimesOrdered, PrunedExpired, StoreUnexpired
<1>2. TInv => StoreUnexpired
  BY DEF TInv
<1>. QED
  BY <1>1, <1>2, NextTInv, Inductive, PTL DEF Spec

-----------------------------------------------------------------------------
(***************************************************************************)
(* The last requested validator set                                        *)
(***************************************************************************)
\* Max is the one element that bounds its set.
LEMMA MaxUnique ==
    ASSUME NEW S, S \subseteq Nat, NEW m \in S, \A y \in S : y <= m
    PROVE  Max(S) = m
<1>. DEFINE x == Max(S)
<1>1. x \in S /\ \A y \in S : y <= x
  BY MaxProperty
<1>2. x \in Nat /\ m \in Nat /\ x <= m /\ m <= x
  <2>. HIDE DEF x
  <2>. QED
    BY <1>1
<1>. HIDE DEF x
<1>3. x = m
  BY <1>2
<1>. QED
  BY <1>3 DEF x

\* There is a last validator set as soon as anything was requested.
LEMMA LastValsetProperty ==
    ASSUME IInv, latestNonce > 0
    PROVE  LET m == Max(EmittedOf("valset"))
           IN  /\ m \in 1..latestNonce
               /\ emitted[m].type = "valset"
               /\ \A n \in EmittedOf("valset") : n <= m
<1>. DEFINE S == EmittedOf("valset")
<1>1. latestNonce \in Nat /\ Len(emitted) = latestNonce
  BY StoreFacts
<1>2. 1 \in S
  <2>1. emitted # <<>> /\ 1 \in 1..Len(emitted)
    BY <1>1, EmptySeq
  <2>. QED
    BY <2>1 DEF EmittedOf, IInv, LogHead
<1>3. S \subseteq Nat /\ \A y \in S : y <= latestNonce
  BY <1>1 DEF EmittedOf
<1>4. Max(S) \in S /\ \A y \in S : y <= Max(S)
  BY <1>1, <1>2, <1>3, MaxProperty
<1>. QED
  BY <1>1, <1>4 DEF EmittedOf

\* A set found in the store is the last one of the log.
LEMMA StoredValsetIsLast ==
    ASSUME IInv, NoncesOf("valset") # {}
    PROVE  Latest("valset") = LastValset
<1>. DEFINE m == Max(NoncesOf("valset"))
<1>1. /\ m \in earliestNonce..latestNonce
      /\ Latest("valset") = emitted[m]
      /\ emitted[m].type = "valset"
      /\ \A n \in (m + 1)..latestNonce : emitted[n].type # "valset"
  BY LatestProperty
<1>2. m \in EmittedOf("valset") /\ \A y \in EmittedOf("valset") : y <= m
  <2>. HIDE DEF m
  <2>1. m \in Nat /\ m \in 1..Len(emitted)
    BY <1>1, StoreFacts
  <2>2. ASSUME NEW y \in EmittedOf("valset") PROVE y <= m
    <3>1. y \in 1..latestNonce /\ emitted[y].type = "valset"
      BY StoreFacts DEF EmittedOf
    <3>2. y \notin (m + 1)..latestNonce
      BY <1>1, <3>1
    <3>. QED
      BY <2>1, <3>1, <3>2, StoreFacts
  <2>. QED
    BY <1>1, <2>1, <2>2 DEF EmittedOf
<1>3. EmittedOf("valset") \subseteq Nat
  BY StoreFacts DEF EmittedOf
<1>4. Max(EmittedOf("valset")) = m
  <2>. HIDE DEF m
  <2>. QED
    BY <1>2, <1>3, MaxUnique
<1>. QED
  BY <1>1, <1>4 DEF LastValset

\* A new validator set becomes the last one, another request leaves it alone.
LEMMA LastValsetAfter ==
    ASSUME IInv, NEW at \in Attestation, at.nonce = latestNonce + 1,
           SetAttestationRequest(at)
    PROVE  /\ at.type = "valset" => LastValset' = at
           /\ at.type # "valset" /\ latestNonce > 0 => LastValset' = LastValset
<1>1. /\ Len(emitted') = Len(emitted) + 1
      /\ \A n \in 1..Len(emitted) : emitted'[n] = emitted[n]
      /\ emitted'[latestNonce + 1] = at
  BY SetAttestationRequestProperty
<1>2. latestNonce \in Nat /\ Len(emitted) = latestNonce
  BY StoreFacts
<1>3. \A n \in 1..Len(emitted') :
         \/ n \in 1..Len(emitted) /\ emitted'[n] = emitted[n]
         \/ n = latestNonce + 1 /\ emitted'[n] = at
  BY <1>1, <1>2
<1>4. EmittedOf("valset")' \subseteq Nat /\ EmittedOf("valset") \subseteq Nat
  BY <1>1, <1>2 DEF EmittedOf
<1>5. CASE at.type = "valset"
  <2>1. /\ latestNonce + 1 \in EmittedOf("valset")'
        /\ \A y \in EmittedOf("valset")' : y <= latestNonce + 1
    BY <1>1, <1>2, <1>5 DEF EmittedOf
  <2>2. Max(EmittedOf("valset")') = latestNonce + 1
    BY <1>4, <2>1, MaxUnique
  <2>. QED
    BY <1>1, <1>5, <2>2 DEF LastValset
<1>6. CASE at.type # "valset" /\ latestNonce > 0
  <2>1. EmittedOf("valset")' = EmittedOf("valset")
    BY <1>1, <1>2, <1>3, <1>6 DEF EmittedOf
  <2>2. Max(EmittedOf("valset")) \in 1..Len(emitted)
    BY <1>2, <1>6, LastValsetProperty
  <2>. QED
    BY <1>1, <1>6, <2>1, <2>2 DEF LastValset
<1>. QED
  BY <1>5, <1>6

\* Filling in default addresses does not change the current validator set.
LEMMA DefaultsKeepMembers ==
    ASSUME evmAddress' = AddressesWithDefaults, power' = power
    PROVE  CurrentMembers' = CurrentMembers
<1>1. AddressesWithDefaults' = AddressesWithDefaults
  BY DEF AddressesWithDefaults
<1>. QED
  BY <1>1 DEF CurrentMembers, NormalizedPower, TotalPower

\* A set of validators does not differ from itself.
LEMMA NoDifference ==
    ASSUME NEW c \in [EvmAddrs -> Nat]
    PROVE  ~Significant(c, c)
<1>. DEFINE Abs(d) == IF d < 0 THEN -d ELSE d
            f == [e \in EvmAddrs |-> Abs(c[e] - c[e])]
<1>1. \A e \in EvmAddrs : f[e] = 0
  OBVIOUS
<1>2. SumFunctionOnSet(f, EvmAddrs) = 0
  <2>. HIDE DEF f
  <2>. QED
    BY <1>1, SumZero, StakingAssumption
<1>3. PowerDiff(c, c) = 0
  BY <1>2, Zenon DEF PowerDiff, SumFunction
<1>. QED
  BY <1>3, StakingAssumption DEF Significant

\* What the handler of validator sets leaves behind.
LEMMA HandledValset ==
    ASSUME IInv, HandleValsetRequest, phase' # "halted"
    PROVE  /\ phase' = "commit"
           /\ UNCHANGED <<power, height, unbondingHeight>>
           /\ CurrentMembers' = CurrentMembers
           /\ CurrentMembers \in [EvmAddrs -> Nat]
           /\ \/ ValsetNeeded /\ LastValset' = CurrentValset
              \/ ~ValsetNeeded /\ UNCHANGED <<attestations, latestNonce, earliestNonce, emitted>>
<1>1. ~NoValidators
  BY StakingAssumption DEF NoValidators, IInv, TypeOK
<1>2. ~SkipsValset
  BY <1>1 DEF SkipsValset
<1>3. /\ phase' = "commit" /\ evmAddress' = AddressesWithDefaults
      /\ UNCHANGED <<power, height, unbondingHeight>>
      /\ IF ValsetNeeded THEN SetAttestationRequest(CurrentValset) ELSE UNCHANGED store
  BY <1>2 DEF HandleValsetRequest, staking
<1>4. /\ CurrentValset \in Attestation /\ CurrentValset.nonce = latestNonce + 1
      /\ CurrentValset.type = "valset" /\ CurrentValset.members = CurrentMembers
  BY CurrentValsetTyped DEF IInv, CurrentValset
<1>5. CurrentMembers \in [EvmAddrs -> Nat]
  BY <1>4 DEF Attestation
<1>. QED
  BY <1>3, <1>4, <1>5, DefaultsKeepMembers, LastValsetAfter DEF store

-----------------------------------------------------------------------------
(***************************************************************************)
(* The last requested set is close to the bonded one                       *)
(***************************************************************************)
\* From the moment the validator sets were handled to the end of the block.
CloseToBonded ==
    phase \in {"commit", "prune", "committed"} /\ NoncesOf("valset") # {} =>
        ~Significant(CurrentMembers, LastValset.members)

\* No step of the module or of staking breaks it.
LEMMA NextCloseToBonded == IInv /\ CloseToBonded /\ [Next]_vars => CloseToBonded'
<1>. SUFFICES ASSUME IInv, CloseToBonded, [Next]_vars PROVE CloseToBonded'
  OBVIOUS
<1>1. ASSUME phase' \notin {"commit", "prune", "committed"} PROVE CloseToBonded'
  BY <1>1 DEF CloseToBonded
<1>2. ASSUME UNCHANGED <<power, evmAddress>> PROVE CurrentMembers' = CurrentMembers
  BY <1>2 DEF CurrentMembers, AddressesWithDefaults, NormalizedPower, TotalPower
<1>3. CASE UNCHANGED vars
  <2>1. CurrentMembers' = CurrentMembers
    BY <1>2, <1>3 DEF vars, staking
  <2>. QED
    BY <1>3, <2>1 DEF vars, store, CloseToBonded, NoncesOf, AvailableNonces,
                      LastValset, EmittedOf
<1>4. CASE HandleValsetRequest
  <2>1. CASE phase' = "halted"
    BY <1>1, <2>1
  <2>2. CASE phase' # "halted" /\ ValsetNeeded
    <3>1. LastValset' = CurrentValset /\ CurrentMembers' = CurrentMembers
          /\ CurrentMembers \in [EvmAddrs -> Nat]
      BY <1>4, <2>2, HandledValset
    <3>2. LastValset'.members = CurrentMembers
      BY <3>1 DEF CurrentValset
    <3>. QED
      BY <3>1, <3>2, NoDifference DEF CloseToBonded
  <2>3. CASE phase' # "halted" /\ ~ValsetNeeded
    <3>1. /\ UNCHANGED <<attestations, latestNonce, earliestNonce, emitted>>
          /\ CurrentMembers' = CurrentMembers
      BY <1>4, <2>3, HandledValset
    <3>2. LastValset' = LastValset /\ NoncesOf("valset")' = NoncesOf("valset")
      BY <3>1 DEF LastValset, EmittedOf, NoncesOf, AvailableNonces
    <3>3. NoncesOf("valset") # {} => ~Significant(CurrentMembers, LastValset.members)
      BY <2>3, StoredValsetIsLast DEF ValsetNeeded, LatestMembers
    <3>. QED
      BY <3>1, <3>2, <3>3 DEF CloseToBonded
  <2>. QED
    BY <2>1, <2>2, <2>3
<1>5. CASE HandleDataCommitmentRequest
  <2>1. UNCHANGED <<power, evmAddress>> /\ phase = "commit"
    BY <1>5 DEF HandleDataCommitmentRequest, staking
  <2>2. CurrentMembers' = CurrentMembers /\ latestNonce > 0
    BY <1>2, <2>1 DEF IInv, LogHead
  <2>3. CASE UNCHANGED store
    BY <1>1, <2>1, <2>2, <2>3 DEF store, CloseToBonded, NoncesOf, AvailableNonces,
                          LastValset, EmittedOf
  <2>4. CASE SetAttestationRequest(NextDataCommitment)
    <3>1. /\ NextDataCommitment \in Attestation /\ NextDataCommitment.type = "dc"
          /\ NextDataCommitment.nonce = latestNonce + 1
      BY NextDataCommitmentTyped DEF NextDataCommitment
    <3>2. LastValset' = LastValset
      BY <2>2, <2>4, <3>1, LastValsetAfter
    <3>3. NoncesOf("valset")' # {} => NoncesOf("valset") # {}
      <4>1. /\ latestNonce' = latestNonce + 1 /\ earliestNonce' = earliestNonce
            /\ attestations' = Assign(attestations, latestNonce + 1, NextDataCommitment)
        BY <2>4, <3>1 DEF SetAttestationRequest
      <4>2. ASSUME NEW n \in NoncesOf("valset")' PROVE n \in NoncesOf("valset")
        <5>1. /\ n \in earliestNonce..(latestNonce + 1)
              /\ n \in DOMAIN attestations' /\ attestations'[n].type = "valset"
          BY <4>1 DEF NoncesOf, AvailableNonces
        <5>2. n # latestNonce + 1
          BY <3>1, <4>1, <5>1 DEF Assign
        <5>. QED
          BY <4>1, <5>1, <5>2, StoreFacts DEF Assign, NoncesOf, AvailableNonces
      <4>. QED
        BY <4>2
    <3>. QED
      BY <2>1, <2>2, <3>2, <3>3 DEF CloseToBonded
  <2>. QED
    BY <1>5, <2>3, <2>4 DEF HandleDataCommitmentRequest
<1>6. CASE PruneAttestations
  <2>1. UNCHANGED <<power, evmAddress, emitted, latestNonce>> /\ phase = "prune"
    BY <1>6 DEF PruneAttestations, staking
  <2>2. CurrentMembers' = CurrentMembers /\ LastValset' = LastValset
    BY <1>2, <2>1 DEF LastValset, EmittedOf
  <2>3. /\ PruneStop \in earliestNonce..latestNonce
        /\ earliestNonce' = PruneStop
        /\ DOMAIN attestations' = PruneStop..latestNonce
        /\ \A n \in PruneStop..latestNonce : attestations'[n] = attestations[n]
    <3>1. latestNonce > 0
      BY <2>1 DEF IInv, LogHead
    <3>. QED
      BY <1>6, <3>1, PruneStopProperty, PruneAttestationsProperty
  <2>4. ASSUME NEW n \in NoncesOf("valset")' PROVE n \in NoncesOf("valset")
    <3>1. n \in PruneStop..latestNonce /\ attestations'[n].type = "valset"
      BY <2>1, <2>3 DEF NoncesOf, AvailableNonces
    <3>2. n \in earliestNonce..latestNonce
      BY <2>3, <3>1, StoreFacts
    <3>. QED
      BY <2>3, <3>1, <3>2 DEF NoncesOf, AvailableNonces, IInv, StoreContiguous
  <2>. QED
    BY <2>1, <2>2, <2>4 DEF CloseToBonded
<1>7. CASE LastBlock
  BY <1>3, <1>7 DEF LastBlock
<1>8. CASE \/ \E v \in Validators : CreateValidator(v) \/ RemoveValidator(v)
           \/ \E v \in Validators, e \in EvmAddrs : RegisterEvmAddress(v, e)
           \/ \E w \in Windows : UpdateParams(w)
           \/ \E t \in PowerTables : StakingEndBlocker(t)
           \/ \E d \in BlockDelays : NextBlock(d)
  BY <1>1, <1>8 DEF CreateValidator, RemoveValidator, RegisterEvmAddress,
                    UpdateParams, StakingEndBlocker, NextBlock
<1>. QED
  BY <1>3, <1>4, <1>5, <1>6, <1>7, <1>8 DEF Next

\* At the end of every block the powers in the last requested validator set
\* differ from those of the bonded one by less than the threshold, as long as
\* the store still holds a set to compare with.
THEOREM ValsetFollowsBonded == Spec => []ValsetCurrentWhileStored
<1>1. Init => CloseToBonded
  BY DEF Init, CloseToBonded
<1>2. CloseToBonded => ValsetCurrentWhileStored
  BY DEF CloseToBonded, ValsetCurrentWhileStored, ValsetCurrent
<1>. QED
  BY <1>1, <1>2, NextCloseToBonded, Inductive, PTL DEF Spec

-----------------------------------------------------------------------------
(***************************************************************************)
(* A validator that left the bonded set leaves the requested one           *)
(***************************************************************************)
Signers == {e \in EvmAddrs : LastValset.members[e] > 0}

\* Departures are seen through the unbonding height of the same block, so the
\* last set has no more signers than there are bonded validators, but between
\* a departure and the handler that reacts to it, or after a panic.
SignersBonded ==
    \/ latestNonce = 0 \/ phase = "halted"
    \/ phase = "valset" /\ unbondingHeight = height
    \/ Cardinality(Signers) <= Cardinality(DOMAIN power)

\* A validator set has at most as many members with power as validators.
LEMMA MembersBounded ==
    ASSUME TypeOK
    PROVE  Cardinality({e \in EvmAddrs : CurrentMembers[e] > 0}) <= Cardinality(DOMAIN power)
<1>. DEFINE f == [v \in DOMAIN power |-> AddressesWithDefaults[v]]
            T == {f[v] : v \in DOMAIN power}
            M == {e \in EvmAddrs : CurrentMembers[e] > 0}
<1>1. IsFiniteSet(DOMAIN power)
  BY StakingAssumption DEF TypeOK
<1>2. f \in Surjection(DOMAIN power, T)
  BY DEF Surjection
<1>3. IsFiniteSet(T) /\ Cardinality(T) <= Cardinality(DOMAIN power)
  <2>. HIDE DEF f, T
  <2>. QED
    BY <1>1, <1>2, FS_Surjection
<1>4. M \in SUBSET T
  BY DEF CurrentMembers
<1>5. IsFiniteSet(M) /\ Cardinality(M) <= Cardinality(T)
  <2>. HIDE DEF M, T
  <2>. QED
    BY <1>3, <1>4, FS_Subset
<1>6. Cardinality(M) \in Nat /\ Cardinality(T) \in Nat /\ Cardinality(DOMAIN power) \in Nat
  <2>. HIDE DEF M, T
  <2>. QED
    BY <1>1, <1>3, <1>5, FS_CardinalityType
<1>. HIDE DEF M, T
<1>7. Cardinality(M) <= Cardinality(DOMAIN power)
  BY <1>3, <1>5, <1>6
<1>. QED
  BY <1>7 DEF M

\* With the hooks registered every step keeps the bound on the signers.
LEMMA NextSignersBonded ==
    HooksRegistered /\ IInv /\ SignersBonded /\ [Next]_vars => SignersBonded'
<1>. SUFFICES ASSUME HooksRegistered, IInv, SignersBonded, [Next]_vars PROVE SignersBonded'
  OBVIOUS
<1>1. ASSUME UNCHANGED <<emitted, latestNonce, power>>, phase' # "valset",
             phase \notin {"valset", "halted"}
      PROVE  SignersBonded'
  BY <1>1 DEF SignersBonded, Signers, LastValset, EmittedOf
<1>2. CASE UNCHANGED vars
  BY <1>2 DEF vars, staking, store, SignersBonded, Signers, LastValset, EmittedOf
<1>3. ASSUME NEW t \in PowerTables, StakingEndBlocker(t) PROVE SignersBonded'
  <2>1. /\ UNCHANGED <<emitted, latestNonce, height>> /\ power' = t
        /\ phase = "deliver" /\ phase' = "valset"
        /\ ~(DOMAIN power \subseteq DOMAIN t) => unbondingHeight' = height
    BY <1>3 DEF StakingEndBlocker, store
  <2>2. CASE ~(DOMAIN power \subseteq DOMAIN t)
    BY <2>1, <2>2 DEF SignersBonded
  <2>3. CASE DOMAIN power \subseteq DOMAIN t
    <3>1. Signers' = Signers
      BY <2>1 DEF Signers, LastValset, EmittedOf
    <3>2. IsFiniteSet(DOMAIN t) /\ IsFiniteSet(DOMAIN power)
      BY StakingAssumption DEF IInv, TypeOK
    <3>3. Cardinality(DOMAIN power) <= Cardinality(DOMAIN t)
      BY <2>3, <3>2, FS_Subset
    <3>4. Cardinality(DOMAIN power) \in Nat /\ Cardinality(DOMAIN t) \in Nat
      BY <3>2, FS_CardinalityType
    <3>5. ASSUME latestNonce # 0 PROVE Cardinality(Signers) \in Nat
      <4>1. IsFiniteSet(Signers)
        BY FS_Subset, StakingAssumption DEF Signers
      <4>. QED
        BY <4>1, FS_CardinalityType
    <3>6. latestNonce # 0 => Cardinality(Signers) <= Cardinality(DOMAIN power)
      BY <2>1 DEF SignersBonded
    <3>7. latestNonce # 0 => Cardinality(Signers) <= Cardinality(DOMAIN t)
      BY <3>3, <3>4, <3>5, <3>6
    <3>. QED
      BY <2>1, <3>1, <3>7 DEF SignersBonded
  <2>. QED
    BY <2>2, <2>3
<1>4. CASE HandleValsetRequest
  <2>1. CASE phase' = "halted"
    BY <2>1 DEF SignersBonded
  <2>2. CASE phase' # "halted" /\ ValsetNeeded
    <3>1. LastValset' = CurrentValset /\ power' = power
      BY <1>4, <2>2, HandledValset
    <3>2. Signers' = {e \in EvmAddrs : CurrentMembers[e] > 0}
      BY <3>1 DEF Signers, CurrentValset
    <3>. QED
      BY <3>1, <3>2, MembersBounded DEF SignersBonded, IInv
  <2>3. CASE phase' # "halted" /\ ~ValsetNeeded
    <3>1. /\ UNCHANGED <<latestNonce, emitted, power>> /\ phase = "valset"
          /\ unbondingHeight # height
      BY <1>4, <2>3, HandledValset DEF ValsetNeeded, HandleValsetRequest
    <3>. QED
      BY <3>1 DEF SignersBonded, Signers, LastValset, EmittedOf
  <2>. QED
    BY <2>1, <2>2, <2>3
<1>5. CASE HandleDataCommitmentRequest
  <2>1. UNCHANGED power /\ phase = "commit" /\ phase' # "valset"
    BY <1>5 DEF HandleDataCommitmentRequest, staking
  <2>2. latestNonce > 0
    BY <2>1 DEF IInv, LogHead
  <2>3. CASE UNCHANGED store
    BY <1>1, <2>1, <2>3 DEF store
  <2>4. CASE SetAttestationRequest(NextDataCommitment)
    <3>1. /\ NextDataCommitment \in Attestation /\ NextDataCommitment.type = "dc"
          /\ NextDataCommitment.nonce = latestNonce + 1
      BY NextDataCommitmentTyped DEF NextDataCommitment
    <3>2. LastValset' = LastValset
      BY <2>2, <2>4, <3>1, LastValsetAfter
    <3>. QED
      BY <2>1, <2>2, <3>2 DEF SignersBonded, Signers
  <2>. QED
    BY <1>5, <2>3, <2>4 DEF HandleDataCommitmentRequest
<1>6. CASE \/ \E v \in Validators : CreateValidator(v) \/ RemoveValidator(v)
           \/ \E v \in Validators, e \in EvmAddrs : RegisterEvmAddress(v, e)
           \/ \E w \in Windows : UpdateParams(w)
           \/ \E d \in BlockDelays : NextBlock(d)
           \/ PruneAttestations
  BY <1>1, <1>6 DEF CreateValidator, RemoveValidator, RegisterEvmAddress,
                    UpdateParams, NextBlock, PruneAttestations, staking, store
<1>7. CASE LastBlock
  BY <1>2, <1>7 DEF LastBlock
<1>. QED
  BY <1>2, <1>3, <1>4, <1>5, <1>6, <1>7 DEF Next

\* With the keeper's hooks registered, the last requested validator set has at
\* the end of a block no more signers than there are bonded validators: one
\* that left, however small its power, is gone from the set in the same block.
THEOREM DepartedRemoved ==
    ASSUME HooksRegistered
    PROVE  Spec => []NoDepartedSigner
<1>1. Init => SignersBonded
  BY DEF Init, SignersBonded
<1>2. IInv /\ SignersBonded => NoDepartedSigner
  BY DEF IInv, LogHead, SignersBonded, Signers, NoDepartedSigner
<1>3. IInv /\ SignersBonded /\ [Next]_vars => SignersBonded'
  BY NextSignersBonded
<1>. QED
  BY <1>1, <1>2, <1>3, Inductive, PTL DEF Spec

-----------------------------------------------------------------------------
(***************************************************************************)
(* When blocks come in time, the EndBlocker implements AttestationLog.     *)
(*                                                                         *)
(* The argument: between two data commitments fewer blocks pass than the   *)
(* window has, so the last one is younger than the expiry time whenever    *)
(* pruning runs.  It is therefore in the store when the next one is made,  *)
(* and the next one starts where it ended.                                 *)
(***************************************************************************)

MaxDelay == IF BlockDelays = {} THEN 0 ELSE Max(BlockDelays)

\* j is the last data commitment of the log.
LastDc(j) == j \in EmittedOf("dc") /\ \A k \in EmittedOf("dc") : k <= j

\* The last data commitment reaches at most up to the current block, is no
\* older than the blocks since its end allow, and is still available.
DcAge(j) ==
    /\ emitted[j].end <= height + 1
    /\ time - emitted[j].time <= (height + 1 - emitted[j].end) * MaxDelay
    /\ earliestNonce <= j
    /\ phase = "prune" => height - emitted[j].end < window

CInv == \A j \in EmittedOf("dc") : LastDc(j) => DcAge(j)

-----------------------------------------------------------------------------
(***************************************************************************)
(* Arithmetic                                                              *)
(***************************************************************************)
\* One more block adds the delay of one block.
LEMMA ProductStep ==
    ASSUME NEW a \in Nat, NEW d \in Nat
    PROVE  (a + 1) * d = a * d + d /\ a * d \in Nat
OBVIOUS

\* Fewer blocks take no longer.
LEMMA ProductMonotone ==
    ASSUME NEW a \in Nat, NEW b \in Nat, NEW d \in Nat, a <= b
    PROVE  a * d <= b * d
OBVIOUS

\* The longest delay between blocks exists and is within the bound.
LEMMA MaxDelayProperty ==
    ASSUME TimelyBlocks, Windows # {}
    PROVE  /\ MaxDelay \in Nat
           /\ \A d \in BlockDelays : d <= MaxDelay
           /\ \A w \in Windows : w * MaxDelay < ExpiryTime
<1>1. CASE BlockDelays = {}
  <2>1. \A w \in Windows : w * 0 < ExpiryTime
    BY BlockAssumption
  <2>. QED
    BY <1>1, <2>1 DEF MaxDelay
<1>2. CASE BlockDelays # {}
  <2>1. \A d \in BlockDelays : d \in Nat /\ d <= ExpiryTime
    <3>1. SUFFICES ASSUME NEW d \in BlockDelays PROVE d \in Nat /\ d <= ExpiryTime
      OBVIOUS
    <3>2. PICK w \in Windows : w * d < ExpiryTime
      BY DEF TimelyBlocks
    <3>3. w \in Nat /\ d \in Nat /\ 1 <= w /\ ExpiryTime \in Nat
      BY BlockAssumption
    <3>4. 1 * d <= w * d
      BY <3>3, ProductMonotone
    <3>5. w * d \in Nat
      BY <3>3
    <3>. QED
      BY <3>2, <3>3, <3>4, <3>5
  <2>2. Max(BlockDelays) \in BlockDelays /\ \A d \in BlockDelays : d <= Max(BlockDelays)
    BY <1>2, <2>1, MaxProperty, BlockAssumption
  <2>. QED
    BY <1>2, <2>1, <2>2 DEF MaxDelay, TimelyBlocks
<1>. QED
  BY <1>1, <1>2

-----------------------------------------------------------------------------
(***************************************************************************)
(* The last data commitment of the log is the latest one in the store      *)
(***************************************************************************)
\* The log holds well-formed requests, one per nonce up to the latest.
LEMMA LogTyped ==
    ASSUME IInv
    PROVE  /\ latestNonce \in Nat /\ earliestNonce \in Nat /\ latestNonce = Len(emitted)
           /\ height \in Nat /\ time \in Nat /\ window \in Nat
           /\ \A n \in 1..latestNonce : emitted[n] \in Attestation
           /\ \A n \in EmittedOf("dc") :
                 /\ n \in 1..latestNonce
                 /\ emitted[n].time \in Nat /\ emitted[n].end \in Nat
<1>1. /\ latestNonce \in Nat /\ earliestNonce \in Nat /\ latestNonce = Len(emitted)
      /\ height \in Nat /\ time \in Nat /\ window \in Nat
      /\ emitted \in Seq(Attestation)
  BY BlockAssumption DEF IInv, TypeOK, StoreContiguous, Heights
<1>2. \A n \in 1..latestNonce : emitted[n] \in Attestation
  BY <1>1, ElementOfSeq
<1>3. ASSUME NEW n \in EmittedOf("dc")
      PROVE  n \in 1..latestNonce /\ emitted[n].time \in Nat /\ emitted[n].end \in Nat
  BY <1>1, <1>2 DEF EmittedOf, Attestation
<1>. QED
  BY <1>1, <1>2, <1>3

\* If the log holds a data commitment, LastDc is one, and none comes after it.
LEMMA LastDcExists ==
    ASSUME IInv, EmittedOf("dc") # {}
    PROVE  \E j \in EmittedOf("dc") : LastDc(j)
<1>1. EmittedOf("dc") \subseteq Nat /\ \A k \in EmittedOf("dc") : k <= latestNonce
  BY LogTyped DEF EmittedOf
<1>2. latestNonce \in Nat
  BY LogTyped
<1>. QED
  BY <1>1, <1>2, MaxProperty DEF LastDc

\* While the last data commitment of the log is not pruned, it is what
\* GetLatestDataCommitment returns.
LEMMA LastDcStored ==
    ASSUME IInv, CInv, NEW j, LastDc(j)
    PROVE  HasDataCommitmentInStore /\ Latest("dc") = emitted[j]
<1>1. j \in EmittedOf("dc") /\ \A k \in EmittedOf("dc") : k <= j
  BY DEF LastDc
<1>2. earliestNonce <= j
  BY <1>1 DEF CInv, DcAge
<1>3. j \in NoncesOf("dc")
  BY <1>1, <1>2, LogTyped DEF EmittedOf, NoncesOf, AvailableNonces, IInv, StoreContiguous
<1>4. HasDataCommitmentInStore
  BY <1>3 DEF HasDataCommitmentInStore
<1>. DEFINE m == Max(NoncesOf("dc"))
<1>5. /\ m \in earliestNonce..latestNonce
      /\ Latest("dc") = emitted[m]
      /\ emitted[m].type = "dc"
      /\ \A n \in (m + 1)..latestNonce : emitted[n].type # "dc"
  BY <1>3, LatestProperty
<1>6. m \in EmittedOf("dc")
  BY <1>5, LogTyped DEF EmittedOf, IInv, StoreContiguous
<1>7. ~(m < j)
  <2>1. m < j => j \in (m + 1)..latestNonce
    BY <1>1, <1>5, LogTyped
  <2>. QED
    BY <2>1, <1>1, <1>5 DEF EmittedOf
<1>8. m = j
  BY <1>1, <1>5, <1>6, <1>7, LogTyped
<1>. QED
  BY <1>4, <1>5, <1>8

\* If the log holds no data commitment, neither does the store.
LEMMA NoDcNoneStored ==
    ASSUME IInv, EmittedOf("dc") = {}
    PROVE  ~HasDataCommitmentInStore
BY DEF IInv, StoreContiguous, TypeOK, HasDataCommitmentInStore, NoncesOf, EmittedOf,
       AvailableNonces

\* What the loop stores: a range that starts where the last one ended, is not
\* empty and reaches no further than the current block.
LEMMA NextRange ==
    ASSUME IInv, CInv, DataCommitmentDue
    PROVE  /\ NextDataCommitment.begin \in Nat
           /\ NextDataCommitment.begin < NextDataCommitment.end
           /\ NextDataCommitment.end <= height + 1
           /\ EmittedOf("dc") = {} => NextDataCommitment.begin = 1
           /\ \A j : LastDc(j) => NextDataCommitment.begin = emitted[j].end
<1>1. window \in Nat \ {0} /\ height \in Nat
  BY BlockAssumption DEF IInv, TypeOK, Heights
<1>2. CASE EmittedOf("dc") = {}
  <2>1. ~HasDataCommitmentInStore
    BY <1>2, NoDcNoneStored
  <2>2. NextDataCommitment.begin = 1 /\ NextDataCommitment.end = 1 + window /\ height >= window
    BY <2>1 DEF NextDataCommitment, DataCommitmentDue
  <2>. QED
    BY <1>1, <1>2, <2>2 DEF LastDc
<1>3. CASE EmittedOf("dc") # {}
  <2>1. PICK j \in EmittedOf("dc") : LastDc(j)
    BY <1>3, LastDcExists
  <2>2. HasDataCommitmentInStore /\ Latest("dc") = emitted[j]
    BY <2>1, LastDcStored
  <2>3. emitted[j].end \in Nat
    BY LogTyped
  <2>4. /\ NextDataCommitment.begin = emitted[j].end
        /\ NextDataCommitment.end = emitted[j].end + window
        /\ height - emitted[j].end >= window
    BY <2>2 DEF NextDataCommitment, DataCommitmentDue
  <2>5. \A i : LastDc(i) => i = j
    BY <2>1, LogTyped DEF LastDc
  <2>. QED
    BY <1>1, <1>3, <2>3, <2>4, <2>5
<1>. QED
  BY <1>2, <1>3

-----------------------------------------------------------------------------
(***************************************************************************)
(* The age of the last data commitment stays bounded                       *)
(***************************************************************************)
\* At genesis the log is empty.
LEMMA InitCInv == Init => CInv
BY DEF Init, CInv, EmittedOf

\* Steps that publish no data commitment leave the last one in place.
LEMMA SameDcs ==
    ASSUME IInv,
           \/ UNCHANGED emitted
           \/ /\ HandleValsetRequest
              /\ SetAttestationRequest(CurrentValset)
    PROVE  /\ EmittedOf("dc")' = EmittedOf("dc")
           /\ \A j \in EmittedOf("dc") : emitted'[j] = emitted[j]
<1>1. CASE UNCHANGED emitted
  BY <1>1 DEF EmittedOf
<1>2. CASE SetAttestationRequest(CurrentValset)
  <2>1. CurrentValset \in Attestation /\ CurrentValset.nonce = latestNonce + 1
        /\ CurrentValset.type = "valset"
    BY CurrentValsetTyped DEF IInv, CurrentValset
  <2>2. /\ Len(emitted') = Len(emitted) + 1
        /\ \A n \in 1..Len(emitted) : emitted'[n] = emitted[n]
        /\ emitted'[latestNonce + 1] = CurrentValset
    BY <1>2, <2>1, SetAttestationRequestProperty
  <2>3. latestNonce = Len(emitted) /\ latestNonce \in Nat
    BY LogTyped
  <2>4. \A n \in 1..Len(emitted') : n \in 1..Len(emitted) \/ n = latestNonce + 1
    BY <2>2, <2>3
  <2>. QED
    BY <2>1, <2>2, <2>3, <2>4 DEF EmittedOf
<1>. QED
  BY <1>1, <1>2

\* A step within a block that publishes nothing and does not prune.
LEMMA QuietKeepsCInv ==
    ASSUME IInv, CInv, UNCHANGED <<height, time, earliestNonce>>,
           EmittedOf("dc")' = EmittedOf("dc"),
           \A j \in EmittedOf("dc") : emitted'[j] = emitted[j],
           phase' = "prune" => \A j : LastDc(j) => height - emitted[j].end < window'
    PROVE  CInv'
<1>1. \A j : LastDc(j)' => LastDc(j)
  BY DEF LastDc
<1>. QED
  BY <1>1 DEF CInv, DcAge, LastDc

\* A data commitment published by the loop is as young as the block itself.
LEMMA PublishKeepsCInv ==
    ASSUME IInv, CInv, TimelyBlocks, HandleDataCommitmentRequest, DataCommitmentDue,
           SetAttestationRequest(NextDataCommitment), UNCHANGED phase
    PROVE  CInv'
<1>. DEFINE at == NextDataCommitment
            n == latestNonce + 1
<1>1. at \in Attestation /\ at.nonce = n /\ at.type = "dc" /\ at.time = time
  BY NextDataCommitmentTyped DEF NextDataCommitment
<1>2. /\ Len(emitted') = Len(emitted) + 1
      /\ emitted'[n] = at
      /\ latestNonce' = n /\ earliestNonce' = earliestNonce
  BY <1>1, SetAttestationRequestProperty
<1>3. latestNonce = Len(emitted) /\ latestNonce \in Nat /\ time \in Nat /\ height \in Nat
  BY LogTyped
<1>4. \A j : LastDc(j)' => j = n
  <2>1. n \in EmittedOf("dc")'
    BY <1>1, <1>2, <1>3 DEF EmittedOf
  <2>2. \A j \in EmittedOf("dc")' : j \in 1..n
    BY <1>2, <1>3 DEF EmittedOf
  <2>. QED
    BY <2>1, <2>2, <1>3 DEF LastDc
<1>5. UNCHANGED <<height, time>> /\ phase' = "commit"
  BY DEF HandleDataCommitmentRequest
<1>6. at.end <= height + 1 /\ at.end \in Nat
  BY <1>1, NextRange DEF Attestation
<1>7. MaxDelay \in Nat
  BY MaxDelayProperty DEF IInv, TypeOK
<1>8. (height + 1 - at.end) * MaxDelay \in Nat
  <2>1. height + 1 - at.end \in Nat
    BY <1>3, <1>6
  <2>. QED
    BY <2>1, <1>7, ProductStep
<1>9. ASSUME NEW j, j = n PROVE DcAge(j)'
  <2>1. earliestNonce <= n
    BY <1>3 DEF IInv, StoreContiguous
  <2>2. time - at.time <= (height + 1 - at.end) * MaxDelay
    BY <1>1, <1>3, <1>8
  <2>3. emitted'[j] = at
    BY <1>2, <1>9
  <2>. QED
    BY <1>2, <1>5, <1>6, <1>9, <2>1, <2>2, <2>3 DEF DcAge
<1>. QED
  BY <1>4, <1>9 DEF CInv

\* When blocks come in time, the last data commitment is too young to be pruned.
LEMMA PruneKeepsCInv ==
    ASSUME IInv, CInv, TimelyBlocks, PruneAttestations
    PROVE  CInv'
<1>1. UNCHANGED <<emitted, height, time>> /\ phase = "prune" /\ phase' = "committed"
  BY DEF PruneAttestations
<1>2. SUFFICES ASSUME NEW j \in EmittedOf("dc"), LastDc(j)
               PROVE  earliestNonce' <= j
  BY <1>1 DEF CInv, DcAge, LastDc, EmittedOf
<1>3. /\ j \in 1..latestNonce /\ latestNonce \in Nat /\ earliestNonce \in Nat
      /\ emitted[j].time \in Nat /\ emitted[j].end \in Nat
      /\ height \in Nat /\ time \in Nat /\ window \in Nat
  BY LogTyped
<1>4. DcAge(j)
  BY <1>2 DEF CInv
<1>5. /\ MaxDelay \in Nat
      /\ window * MaxDelay < ExpiryTime
      /\ ExpiryTime \in Nat
  BY MaxDelayProperty, BlockAssumption DEF IInv, TypeOK
<1>6. time - emitted[j].time < ExpiryTime
  <2>. DEFINE lag == height + 1 - emitted[j].end
  <2>1. lag \in Nat /\ lag <= window
    BY <1>1, <1>3, <1>4 DEF DcAge
  <2>2. lag * MaxDelay <= window * MaxDelay
    BY <2>1, <1>3, <1>5, ProductMonotone
  <2>3. time - emitted[j].time <= lag * MaxDelay
    BY <1>4 DEF DcAge
  <2>4. lag * MaxDelay \in Nat /\ window * MaxDelay \in Nat
    BY <2>1, <1>3, <1>5, ProductStep
  <2>. QED
    BY <2>2, <2>3, <2>4, <1>3, <1>5
<1>7. latestNonce > 0
  BY <1>3
<1>8. /\ PruneStop \in earliestNonce..latestNonce
      /\ \A n \in earliestNonce..(PruneStop - 1) : Expired(attestations[n])
  BY <1>7, PruneStopProperty
<1>9. earliestNonce <= j /\ attestations[j] = emitted[j]
  BY <1>3, <1>4 DEF DcAge, IInv, StoreContiguous
<1>10. ~(j < PruneStop)
  <2>1. SUFFICES ASSUME j < PruneStop PROVE FALSE
    OBVIOUS
  <2>2. Expired(emitted[j])
    BY <2>1, <1>3, <1>8, <1>9
  <2>. QED
    BY <2>2, <1>3, <1>5, <1>6 DEF Expired
<1>11. earliestNonce' = PruneStop
  BY PruneAttestationsProperty
<1>. QED
  BY <1>3, <1>8, <1>10, <1>11

\* From one block to the next the last data commitment ages by one delay.
LEMMA NextBlockKeepsCInv ==
    ASSUME IInv, CInv, TimelyBlocks, NEW d \in BlockDelays, NextBlock(d)
    PROVE  CInv'
<1>1. /\ UNCHANGED <<emitted, earliestNonce>> /\ phase' = "deliver"
      /\ height' = height + 1 /\ time' = time + d
  BY DEF NextBlock, store
<1>2. SUFFICES ASSUME NEW j \in EmittedOf("dc"), LastDc(j)
               PROVE  DcAge(j)'
  BY <1>1 DEF CInv, LastDc, EmittedOf
<1>3. /\ emitted[j].time \in Nat /\ emitted[j].end \in Nat
      /\ height \in Nat /\ time \in Nat
  BY LogTyped
<1>4. DcAge(j)
  BY <1>2 DEF CInv
<1>5. MaxDelay \in Nat /\ d \in Nat /\ d <= MaxDelay
  BY MaxDelayProperty, BlockAssumption DEF IInv, TypeOK
<1>. DEFINE lag == height + 1 - emitted[j].end
<1>6. lag \in Nat /\ height' + 1 - emitted[j].end = lag + 1
  BY <1>1, <1>3, <1>4 DEF DcAge
<1>7. (lag + 1) * MaxDelay = lag * MaxDelay + MaxDelay /\ lag * MaxDelay \in Nat
  BY <1>5, <1>6, ProductStep
<1>8. time' - emitted[j].time <= lag * MaxDelay + MaxDelay
  <2>1. time - emitted[j].time <= lag * MaxDelay
    BY <1>4 DEF DcAge
  <2>. QED
    BY <2>1, <1>1, <1>3, <1>5, <1>7
<1>. QED
  BY <1>1, <1>3, <1>4, <1>6, <1>7, <1>8 DEF DcAge

\* Every step keeps the last data commitment stored and its age bounded.
LEMMA NextCInv == TimelyBlocks /\ IInv /\ CInv /\ [Next]_vars => CInv'
<1>. SUFFICES ASSUME TimelyBlocks, IInv, CInv, [Next]_vars PROVE CInv'
  OBVIOUS
<1>1. CASE /\ UNCHANGED <<height, time, earliestNonce, emitted>>
           /\ phase' = "prune" => UNCHANGED <<phase, window>>
  <2>1. phase' = "prune" => \A j : LastDc(j) => height - emitted[j].end < window'
    BY <1>1 DEF CInv, DcAge, LastDc
  <2>. QED
    BY <1>1, <2>1, SameDcs, QuietKeepsCInv
<1>2. CASE HandleValsetRequest
  <2>1. UNCHANGED <<height, time, earliestNonce>> /\ phase' # "prune"
    BY <1>2 DEF HandleValsetRequest, SetAttestationRequest, store
  <2>2. UNCHANGED emitted \/ SetAttestationRequest(CurrentValset)
    BY <1>2 DEF HandleValsetRequest, store
  <2>. QED
    BY <1>2, <2>1, <2>2, SameDcs, QuietKeepsCInv
<1>3. CASE HandleDataCommitmentRequest
  <2>1. CASE DataCommitmentDue /\ SetAttestationRequest(NextDataCommitment) /\ UNCHANGED phase
    BY <1>3, <2>1, PublishKeepsCInv
  <2>2. CASE UNCHANGED store /\ phase' = "halted"
    BY <1>1, <1>3, <2>2 DEF HandleDataCommitmentRequest, store
  <2>3. CASE UNCHANGED store /\ ~DataCommitmentDue /\ phase' = "prune"
    <3>1. UNCHANGED <<height, time, window, earliestNonce, emitted>>
      BY <1>3, <2>3 DEF HandleDataCommitmentRequest, store
    <3>2. ASSUME NEW j, LastDc(j) PROVE height - emitted[j].end < window'
      <4>1. HasDataCommitmentInStore /\ Latest("dc") = emitted[j]
        BY <3>2, LastDcStored
      <4>2. emitted[j].end \in Nat /\ height \in Nat /\ window \in Nat
        BY <3>2, LogTyped DEF LastDc
      <4>. QED
        BY <2>3, <3>1, <4>1, <4>2 DEF DataCommitmentDue
    <3>. QED
      BY <3>1, <3>2, SameDcs, QuietKeepsCInv
  <2>. QED
    BY <1>3, <2>1, <2>2, <2>3 DEF HandleDataCommitmentRequest
<1>4. CASE PruneAttestations
  BY <1>4, PruneKeepsCInv
<1>5. CASE \E d \in BlockDelays : NextBlock(d)
  BY <1>5, NextBlockKeepsCInv
<1>. QED
  BY <1>1, <1>2, <1>3, <1>4, <1>5
     DEF Next, CreateValidator, RemoveValidator, RegisterEvmAddress, UpdateParams,
         StakingEndBlocker, LastBlock, vars, store

-----------------------------------------------------------------------------
(***************************************************************************)
(* Refinement                                                              *)
(***************************************************************************)
\* A data commitment that the loop stores continues the ranges of the log.
LEMMA PublishContiguous ==
    ASSUME IInv, CInv, DataCommitmentDue, SetAttestationRequest(NextDataCommitment),
           NEW n, n = latestNonce + 1
    PROVE  /\ Log!Contiguous(emitted, n)'
           /\ \A j \in EmittedOf("dc") :
                 Log!Contiguous(emitted, j) => Log!Contiguous(emitted, j)'
           /\ EmittedOf("dc")' = EmittedOf("dc") \cup {n}
<1>. DEFINE at == NextDataCommitment
<1>1. at \in Attestation /\ at.nonce = n /\ at.type = "dc"
  BY NextDataCommitmentTyped DEF NextDataCommitment
<1>2. /\ Len(emitted') = Len(emitted) + 1
      /\ \A k \in 1..Len(emitted) : emitted'[k] = emitted[k]
      /\ emitted'[n] = at
  BY <1>1, SetAttestationRequestProperty
<1>3. latestNonce = Len(emitted) /\ latestNonce \in Nat
  BY LogTyped
<1>4. EmittedOf("dc")' = EmittedOf("dc") \cup {n}
  <2>1. \A k \in 1..Len(emitted') : k \in 1..Len(emitted) \/ k = n
    BY <1>2, <1>3
  <2>2. n \in 1..Len(emitted')
    BY <1>2, <1>3
  <2>. QED
    BY <1>1, <1>2, <1>3, <2>1, <2>2 DEF EmittedOf
<1>5. Log!DcNonces(emitted) = EmittedOf("dc") /\ Log!DcNonces(emitted)' = EmittedOf("dc")'
  BY DEF Log!DcNonces, EmittedOf
<1>6. \A k \in EmittedOf("dc") : k \in Nat /\ k < n /\ emitted'[k] = emitted[k]
  BY <1>2, <1>3 DEF EmittedOf
<1>7. Log!Contiguous(emitted, n)'
  <2>. DEFINE Before == {k \in Log!DcNonces(emitted)' : k < n}
  <2>1. Before = EmittedOf("dc")
    BY <1>3, <1>4, <1>5, <1>6
  <2>2. emitted'[n].begin < emitted'[n].end
    BY <1>2, NextRange
  <2>3. Before = {} => emitted'[n].begin = 1
    BY <1>2, <2>1, NextRange
  <2>4. ASSUME NEW i \in Before, \A k \in Before : k <= i
        PROVE  emitted'[n].begin = emitted'[i].end
    <3>1. LastDc(i)
      BY <2>1, <2>4 DEF LastDc
    <3>. QED
      BY <1>2, <1>6, <2>1, <3>1, NextRange
  <2>. QED
    BY <2>2, <2>3, <2>4 DEF Log!Contiguous
<1>8. ASSUME NEW j \in EmittedOf("dc"), Log!Contiguous(emitted, j)
      PROVE  Log!Contiguous(emitted, j)'
  <2>1. {k \in Log!DcNonces(emitted)' : k < j} = {k \in Log!DcNonces(emitted) : k < j}
    BY <1>3, <1>4, <1>5, <1>6
  <2>2. emitted'[j] = emitted[j] /\ \A k \in Log!DcNonces(emitted) : emitted'[k] = emitted[k]
    BY <1>5, <1>6
  <2>. QED
    BY <1>8, <2>1, <2>2 DEF Log!Contiguous
<1>. QED
  BY <1>4, <1>7, <1>8

\* Every step keeps the ranges of the log contiguous.
LEMMA NextContiguous ==
    IInv /\ CInv /\ DataCommitmentsContiguous /\ [Next]_vars => DataCommitmentsContiguous'
<1>. SUFFICES ASSUME IInv, CInv, DataCommitmentsContiguous, [Next]_vars
              PROVE  DataCommitmentsContiguous'
  OBVIOUS
<1>1. CASE DataCommitmentDue /\ SetAttestationRequest(NextDataCommitment)
  BY <1>1, PublishContiguous DEF DataCommitmentsContiguous
<1>2. CASE \/ UNCHANGED emitted
           \/ /\ HandleValsetRequest
              /\ SetAttestationRequest(CurrentValset)
  <2>1. /\ EmittedOf("dc")' = EmittedOf("dc")
        /\ \A j \in EmittedOf("dc") : emitted'[j] = emitted[j]
    BY <1>2, SameDcs
  <2>2. Log!DcNonces(emitted) = EmittedOf("dc") /\ Log!DcNonces(emitted)' = EmittedOf("dc")'
    BY DEF Log!DcNonces, EmittedOf
  <2>. QED
    BY <2>1, <2>2 DEF DataCommitmentsContiguous, Log!Contiguous
<1>3. CASE HandleValsetRequest
  <2>1. UNCHANGED emitted \/ SetAttestationRequest(CurrentValset)
    BY <1>3 DEF HandleValsetRequest, store
  <2>. QED
    BY <1>2, <1>3, <2>1
<1>4. CASE HandleDataCommitmentRequest
  <2>1. \/ UNCHANGED emitted
        \/ DataCommitmentDue /\ SetAttestationRequest(NextDataCommitment)
    BY <1>4 DEF HandleDataCommitmentRequest, store
  <2>. QED
    BY <1>1, <1>2, <2>1
<1>. QED
  BY <1>2, <1>3, <1>4
     DEF Next, CreateValidator, RemoveValidator, RegisterEvmAddress, UpdateParams,
         StakingEndBlocker, PruneAttestations, NextBlock, LastBlock, vars, store

\* When blocks come in time, the ranges of all data commitments ever requested
\* partition the blocks from 1 on, across pruning and changes of the window.
THEOREM RangesContiguous ==
    ASSUME TimelyBlocks
    PROVE  Spec => []DataCommitmentsContiguous
<1>1. Init => DataCommitmentsContiguous
  BY DEF Init, DataCommitmentsContiguous, EmittedOf
<1>2. IInv /\ CInv /\ [Next]_vars => CInv'
  BY NextCInv
<1>. QED
  BY <1>1, <1>2, InitCInv, NextContiguous, Inductive, PTL DEF Spec

\* One step of the EndBlocker, or of a block around it, is a step of the log.
LEMMA NextRefines == TimelyBlocks /\ IInv /\ CInv /\ [Next]_vars => [Log!Next]_<<emitted, earliestNonce, time>>
<1>. SUFFICES ASSUME TimelyBlocks, IInv, CInv, [Next]_vars
              PROVE  [Log!Next]_<<emitted, earliestNonce, time>>
  OBVIOUS
<1>1. CASE UNCHANGED <<emitted, earliestNonce, time>>
  BY <1>1
<1>2. ASSUME NEW at \in Attestation, at.nonce = latestNonce + 1, at.time = time,
             SetAttestationRequest(at), UNCHANGED time,
             at.type = "dc" => \A n : n = latestNonce + 1 => Log!Contiguous(emitted, n)'
      PROVE  Log!Publish
  <2>. DEFINE n == Len(emitted) + 1
  <2>1. latestNonce = Len(emitted)
    BY LogTyped
  <2>2. /\ Len(emitted') = Len(emitted) + 1
        /\ \A k \in 1..Len(emitted) : emitted'[k] = emitted[k]
        /\ emitted'[n] = at
        /\ earliestNonce' = earliestNonce
    BY <1>2, <2>1, SetAttestationRequestProperty
  <2>3. at.type = "dc" => Log!Contiguous(emitted', n)
    <3>1. ASSUME at.type = "dc", NEW k, k = n PROVE Log!Contiguous(emitted', k)
      BY <1>2, <2>1, <3>1 DEF Log!Contiguous, Log!DcNonces
    <3>. QED
      BY <3>1
  <2>. QED
    BY <1>2, <2>1, <2>2, <2>3 DEF Log!Publish
<1>3. CASE HandleValsetRequest
  <2>1. /\ CurrentValset \in Attestation /\ CurrentValset.nonce = latestNonce + 1
        /\ CurrentValset.type = "valset" /\ CurrentValset.time = time
    BY CurrentValsetTyped DEF IInv, CurrentValset
  <2>2. UNCHANGED time /\ (UNCHANGED store \/ SetAttestationRequest(CurrentValset))
    BY <1>3 DEF HandleValsetRequest
  <2>. QED
    BY <1>1, <1>2, <2>1, <2>2 DEF Log!Next, store
<1>4. CASE HandleDataCommitmentRequest
  <2>1. /\ NextDataCommitment \in Attestation /\ NextDataCommitment.nonce = latestNonce + 1
        /\ NextDataCommitment.time = time
    BY NextDataCommitmentTyped DEF NextDataCommitment
  <2>2. /\ UNCHANGED time
        /\ \/ UNCHANGED store
           \/ DataCommitmentDue /\ SetAttestationRequest(NextDataCommitment)
    BY <1>4 DEF HandleDataCommitmentRequest
  <2>3. DataCommitmentDue /\ SetAttestationRequest(NextDataCommitment)
           => \A n : n = latestNonce + 1 => Log!Contiguous(emitted, n)'
    BY PublishContiguous
  <2>. QED
    BY <1>1, <1>2, <2>1, <2>2, <2>3 DEF Log!Next, store
<1>5. CASE PruneAttestations
  <2>1. UNCHANGED <<emitted, time>> /\ latestNonce > 0
    BY <1>5 DEF PruneAttestations, IInv, LogHead
  <2>2. /\ PruneStop \in earliestNonce..latestNonce
        /\ \A n \in earliestNonce..(PruneStop - 1) : Expired(attestations[n])
    BY <2>1, PruneStopProperty
  <2>3. earliestNonce' = PruneStop
    BY <1>5, PruneAttestationsProperty
  <2>4. \A n \in earliestNonce..(PruneStop - 1) : emitted[n].time + ExpiryTime <= time
    BY <2>2 DEF Expired, IInv, StoreContiguous, TypeOK
  <2>5. latestNonce = Len(emitted) /\ earliestNonce \in Nat /\ latestNonce \in Nat
    BY LogTyped
  <2>6. CASE PruneStop = earliestNonce
    BY <1>1, <2>1, <2>3, <2>6
  <2>7. CASE PruneStop # earliestNonce
    <3>1. Log!Trim
      BY <2>1, <2>2, <2>3, <2>4, <2>5, <2>7 DEF Log!Trim
    <3>. QED
      BY <3>1 DEF Log!Next
  <2>. QED
    BY <2>6, <2>7
<1>6. ASSUME NEW d \in BlockDelays, NextBlock(d) PROVE Log!Next
  <2>1. UNCHANGED <<emitted, earliestNonce>> /\ time' = time + d
    BY <1>6 DEF NextBlock, store
  <2>2. time < time'
    BY <2>1, BlockAssumption DEF IInv, TypeOK
  <2>. QED
    BY <2>1, <2>2 DEF Log!Next, Log!Tick
<1>. QED
  BY <1>1, <1>3, <1>4, <1>5, <1>6
     DEF Next, CreateValidator, RemoveValidator, RegisterEvmAddress, UpdateParams,
         StakingEndBlocker, LastBlock, vars, store

\* When blocks come in time, the module implements the append-only log that its
\* readers rely on.
THEOREM LogImplemented ==
    ASSUME TimelyBlocks
    PROVE  Spec => ImplementsLog
<1>1. Init => Log!Init
  BY DEF Init, Log!Init
<1>2. IInv /\ CInv /\ [Next]_vars => CInv'
  BY NextCInv
<1>3. IInv /\ CInv /\ [Next]_vars => [Log!Next]_(Log!logVars)
  BY NextRefines DEF Log!logVars
<1>. QED
  BY <1>1, <1>2, <1>3, InitCInv, Inductive, PTL DEF Spec, ImplementsLog, Log!Spec

=============================================================================
