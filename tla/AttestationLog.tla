---------------------------- MODULE AttestationLog ----------------------------
(***************************************************************************)
(* What x/blobstream promises to orchestrators, relayers and the EVM       *)
(* contract: an append-only log of attestations.                           *)
(*                                                                         *)
(* Nonces count up from 1 without a gap; an entry carries the time of its  *)
(* block and never changes; the data commitments, in the order of their    *)
(* nonces, cover the blocks from 1 on without a hole or an overlap; old    *)
(* entries may be dropped, oldest first, but only once expired, and the    *)
(* newest entry always remains available.                                  *)
(***************************************************************************)
EXTENDS Integers, Sequences

CONSTANT ExpiryTime     \* age at which an entry may be dropped

VARIABLES
    log,                \* every attestation, by nonce
    first,              \* the oldest nonce still available
    now                 \* time of the current block

logVars == <<log, first, now>>

DcNonces(l) == {n \in 1..Len(l) : l[n].type = "dc"}

\* Entry n of l, a data commitment, starts where the one before it ended.
Contiguous(l, n) ==
    LET Before == {k \in DcNonces(l) : k < n}
    IN  /\ l[n].begin < l[n].end
        /\ Before = {} => l[n].begin = 1
        /\ \A i \in Before : (\A k \in Before : k <= i) => l[n].begin = l[i].end

Init == log = <<>> /\ first = 1 /\ now \in Nat

\* One entry is appended.
Publish ==
    LET n == Len(log) + 1
    IN  /\ Len(log') = n
        /\ \A k \in 1..Len(log) : log'[k] = log[k]
        /\ log'[n].nonce = n
        /\ log'[n].time = now
        /\ log'[n].type = "dc" => Contiguous(log', n)
        /\ UNCHANGED <<first, now>>

\* A prefix of expired entries is dropped.
Trim ==
    /\ first < first' /\ first' <= Len(log)
    /\ \A k \in first..(first' - 1) : log[k].time + ExpiryTime <= now
    /\ UNCHANGED <<log, now>>

Tick == now < now' /\ UNCHANGED <<log, first>>

Next == Publish \/ Trim \/ Tick

Spec == Init /\ [][Next]_logVars

=============================================================================
