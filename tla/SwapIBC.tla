------------------------------- MODULE SwapIBC -------------------------------
(***************************************************************************)
(* The ICS20 middleware of x/swap.  An incoming transfer with a swap memo  *)
(* is received into the module account and swapped; the proceeds go to the *)
(* receiver and from there, as the memo asks, on to another chain          *)
(* ("forward"), and the input that was not needed back to its origin       *)
(* ("change").  The incoming packet is then acknowledged only when the     *)
(* packets it caused have been.                                            *)
(*                                                                         *)
(* Each action is one transaction of a relayer or a user.  When a handler  *)
(* fails or panics its transaction leaves no trace: such a step is not     *)
(* enabled.  IBC core and the transfer module, which the middleware wraps, *)
(* are modelled by what the middleware sees of them: receipts, packet      *)
(* commitments, acknowledgements, escrow and refunds.                      *)
(***************************************************************************)
EXTENDS Integers, Sequences, FiniteSets, Functions

CONSTANTS
    InPackets,      \* incoming transfer packets
    Imported,       \* those a genesis file may carry as waiting
    AmountIn,       \* tokens in an incoming packet
    RetryCounts,    \* retries a memo may ask for
    SymmetricChannel, \* has the channel the same identifier on both chains?
    ReceiverFunds,  \* tokens of each denom the receiver owns to begin with
    MaxSends        \* bound: packets ever sent

ASSUME SwapAssumption ==
    /\ Imported \subseteq InPackets
    /\ AmountIn \in Nat \ {0}
    /\ RetryCounts \subseteq Nat
    /\ SymmetricChannel \in BOOLEAN
    /\ ReceiverFunds \in Nat
    /\ MaxSends \in Nat /\ (Imported # {} => MaxSends >= 2)

VARIABLES
    received,  \* IBC core: incoming packets with a receipt
    acks,      \* IBC core: incoming packet -> acknowledgement written for it
    sent,      \* IBC core: every packet ever sent, by sequence number
    waiting,   \* store: IncomingInFlightPacket
    outgoing,  \* store: OutgoingInFlightPacket, by sequence number
    receiver,  \* balance of the receiver, by denom
    module,    \* balance of the swap module account, by denom
    escrow     \* out-going tokens locked (or burnt) here, by denom

vars == <<received, acks, sent, waiting, outgoing, receiver, module, escrow>>

\* A swap turns X, a voucher of the packet's origin, into Y, a native token.
Denoms == {"X", "Y"}

\* The life of a sent packet: unseen by the other chain; received there and
\* acknowledged with success or error; expired.  The last three are final: its
\* commitment is gone here, without or with a refund, or with one that failed.
InFlight == {"sent", "ok", "error", "expired"}
Settled == {"done", "refunded", "unrefunded"}

Assign(f, k, x) == [i \in DOMAIN f \cup {k} |-> IF i = k THEN x ELSE f[i]]
Without(f, k) == [i \in DOMAIN f \ {k} |-> f[i]]
Add(f, k, x) == [f EXCEPT ![k] = @ + x]

-----------------------------------------------------------------------------
(***************************************************************************)
(* Sending                                                                 *)
(***************************************************************************)
NewPacket(denom, amount, asked, attempt) ==
    [denom |-> denom, amount |-> amount, asked |-> asked, attempt |-> attempt,
     state |-> "sent"]

\* What a memo asks for.  Each leg is the set of its retry count, {} if absent.
Memos ==
    LET Leg == {{}} \cup {{r} : r \in RetryCounts}
    IN  [used : {AmountIn}, change : {{}}, forward : Leg]        \* exact in
        \cup [used : 1..AmountIn, change : Leg, forward : Leg]   \* exact out

Remainder(m) == AmountIn - m.used

\* The legs that ProcessSwappedFund sends for a memo, the change first.  A swap
\* yields one Y.
Legs(m) ==
    LET Of(leg, denom, amount, retries) ==
            {[leg |-> leg, denom |-> denom, amount |-> amount, retries |-> r] :
                r \in retries}
    IN  (IF Remainder(m) > 0 THEN Of("change", "X", Remainder(m), m.change) ELSE {})
        \cup Of("forward", "Y", 1, m.forward)

\* What the legs of a memo take of a denom.
Outflow(m, denom) == SumFunction([l \in {k \in Legs(m) : k.denom = denom} |-> l.amount])

\* The sequence number of a leg of a memo, when the next packet is number n.
SequenceOf(m, leg, n) ==
    IF leg = "forward" /\ \E l \in Legs(m) : l.leg = "change" THEN n + 1 ELSE n

\* The leg that is sent under number i.
LegAt(m, n, i) == CHOOSE l \in Legs(m) : SequenceOf(m, l.leg, n) = i

-----------------------------------------------------------------------------
(***************************************************************************)
(* Genesis: either nothing is in flight, or an imported packet waits for   *)
(* its two legs, with a timeout height that can be parsed.                 *)
(***************************************************************************)
InitFresh ==
    /\ received = {}
    /\ sent = <<>>
    /\ waiting = [p \in {} |-> 0]
    /\ outgoing = [n \in {} |-> 0]
    /\ escrow = [d \in Denoms |-> 0]

InitImported(p, r) ==
    /\ received = {p}
    /\ sent = <<NewPacket("X", 1, r, 1), NewPacket("Y", 1, r, 1)>>
    /\ waiting = [q \in {p} |-> [change |-> {1}, forward |-> {2}, heightParses |-> TRUE]]
    /\ outgoing = [n \in {1, 2} |-> [in |-> p, retries |-> r]]
    /\ escrow = [d \in Denoms |-> 1]

Init ==
    /\ acks = [p \in {} |-> ""]
    /\ receiver = [d \in Denoms |-> ReceiverFunds]
    /\ module = [d \in Denoms |-> 0]
    /\ \/ InitFresh
       \/ \E p \in Imported, r \in RetryCounts : InitImported(p, r)

-----------------------------------------------------------------------------
(***************************************************************************)
(* Receiving                                                               *)
(***************************************************************************)
\* No swap memo: the transfer module's own handler.
OnRecvTransfer(p) ==
    /\ p \notin received
    /\ received' = received \cup {p}
    /\ acks' = Assign(acks, p, "result")
    /\ receiver' = Add(receiver, "X", AmountIn)
    /\ UNCHANGED <<sent, waiting, outgoing, module, escrow>>

\* An error of any step, up to the second transfer, becomes an error
\* acknowledgement, with which IBC core drops all that the handler wrote.
OnRecvError(p) ==
    /\ p \notin received
    /\ received' = received \cup {p}
    /\ acks' = Assign(acks, p, "error")
    /\ UNCHANGED <<sent, waiting, outgoing, receiver, module, escrow>>

\* The change is sent from the receiver's account, although the remainder of
\* the input is in the module account.
CanSend(m) ==
    /\ Len(sent) + Cardinality(Legs(m)) <= MaxSends
    /\ \A l \in Legs(m) : l.leg = "change" => receiver["X"] >= l.amount

\* receiveFunds, SwapIncomingFund and ProcessSwappedFund, all of them succeeding.
OnRecvSwap(p, m) ==
    LET n == Len(sent) + 1
        legs == Legs(m)
        Index(leg) == {SequenceOf(m, leg, n) : l \in {k \in legs : k.leg = leg}}
    IN  /\ p \notin received
        /\ CanSend(m)
        /\ received' = received \cup {p}
        /\ module' = Add(module, "X", Remainder(m))
        /\ receiver' = [d \in Denoms |->
                          receiver[d] + (IF d = "Y" THEN 1 ELSE 0) - Outflow(m, d)]
        /\ escrow' = [d \in Denoms |-> escrow[d] + Outflow(m, d)]
        /\ sent' = sent \o [i \in 1..Cardinality(legs) |->
                              LET l == LegAt(m, n, Len(sent) + i)
                              IN  NewPacket(l.denom, l.amount, l.retries, 1)]
        /\ outgoing' = [i \in DOMAIN outgoing \cup (n..(Len(sent) + Cardinality(legs))) |->
                          IF i < n THEN outgoing[i]
                          ELSE [in |-> p, retries |-> LegAt(m, n, i).retries]]
        /\ IF legs = {}
           THEN /\ acks' = Assign(acks, p, "result")
                /\ UNCHANGED waiting
           ELSE /\ waiting' = Assign(waiting, p,
                                [change |-> Index("change"), forward |-> Index("forward"),
                                 heightParses |-> FALSE])
                /\ UNCHANGED acks

-----------------------------------------------------------------------------
(***************************************************************************)
(* The fate of sent packets                                                *)
(***************************************************************************)
\* A user's own transfer; the middleware keeps no record of it.
Transfer(d) ==
    /\ Len(sent) < MaxSends
    /\ receiver[d] > 0
    /\ receiver' = Add(receiver, d, -1)
    /\ escrow' = Add(escrow, d, 1)
    /\ sent' = Append(sent, NewPacket(d, 1, 0, 1))
    /\ UNCHANGED <<received, acks, waiting, outgoing, module>>

\* The other chain receives packet n and acknowledges it, or its time runs out.
Counterparty(n, s) ==
    /\ sent[n].state = "sent"
    /\ sent' = [sent EXCEPT ![n].state = s]
    /\ UNCHANGED <<received, acks, waiting, outgoing, receiver, module, escrow>>

\* The transfer module mints a voucher anew but takes a native token out of
\* the escrow account.
CanRefund(n) == sent[n].denom = "X" \/ escrow[sent[n].denom] >= sent[n].amount

\* The commitment of packet n is deleted; packets in "more" are sent.
Settle(n, s, more) ==
    /\ sent' = [sent EXCEPT ![n].state = s] \o more
    /\ IF s = "refunded"
       THEN /\ receiver' = Add(receiver, sent[n].denom, sent[n].amount)
            /\ escrow' = Add(escrow, sent[n].denom, -sent[n].amount)
       ELSE UNCHANGED <<receiver, escrow>>
    /\ UNCHANGED <<received, module>>

\* Mutant: the answered packet stays in the store.
ShouldDeleteCompletedWaitingPacketKept(p, w) ==
    IF w.change = {} /\ w.forward = {}
    THEN /\ w.heightParses
         /\ p \notin DOMAIN acks
         /\ acks' = Assign(acks, p, "result")
         /\ waiting' = Assign(waiting, p, w)
    ELSE /\ waiting' = Assign(waiting, p, w)
         /\ UNCHANGED acks

\* When both legs have their acknowledgement, write the one of the incoming
\* packet and forget it; else store what is known.  MustParseHeight panics on
\* the timeout height of a packet that ProcessSwappedFund made, which has none.
ShouldDeleteCompletedWaitingPacket(p, w) ==
    IF w.change = {} /\ w.forward = {}
    THEN /\ w.heightParses
         /\ p \notin DOMAIN acks
         /\ acks' = Assign(acks, p, "result")
         /\ waiting' = Without(waiting, p)
    ELSE /\ waiting' = Assign(waiting, p, w)
         /\ UNCHANGED acks

\* The acknowledgement of either leg is taken for both.  The record stays when
\* the incoming packet has been answered already.
OnAcknowledgementOutgoingInFlightPacket(n) ==
    LET p == outgoing[n].in
    IN  IF p \in DOMAIN waiting
        THEN /\ outgoing' = Without(outgoing, n)
             /\ ShouldDeleteCompletedWaitingPacket(p,
                    [waiting[p] EXCEPT !.change = {}, !.forward = {}])
        ELSE UNCHANGED <<outgoing, acks, waiting>>

\* The transfer module refunds on an error; for a packet with a record, the
\* middleware ignores that the refund failed.
OnAcknowledgementPacket(n) ==
    /\ sent[n].state \in {"ok", "error"}
    /\ \/ /\ n \in DOMAIN outgoing
          /\ OnAcknowledgementOutgoingInFlightPacket(n)
       \/ /\ n \notin DOMAIN outgoing
          /\ sent[n].state = "error" => CanRefund(n)
          /\ UNCHANGED <<outgoing, acks, waiting>>
    /\ Settle(n, IF sent[n].state = "ok" THEN "done"
                 ELSE IF CanRefund(n) THEN "refunded" ELSE "unrefunded", <<>>)

Resent(n) ==
    NewPacket(sent[n].denom, sent[n].amount, sent[n].asked, sent[n].attempt + 1)

\* Mutants: the retry counter is not decremented; any counter but zero resends;
\* the record of the new sequence number is not stored.
ResendUncounted(n) ==
    /\ outgoing[n].retries > 1
    /\ SymmetricChannel
    /\ Len(sent) < MaxSends
    /\ outgoing' = Assign(Without(outgoing, n), Len(sent) + 1, outgoing[n])
    /\ UNCHANGED <<waiting, acks>>

ResendUnlessZero(n) ==
    /\ outgoing[n].retries # 1
    /\ SymmetricChannel
    /\ Len(sent) < MaxSends
    /\ outgoing' = Assign(Without(outgoing, n), Len(sent) + 1,
                          [outgoing[n] EXCEPT !.retries = @ - 1])
    /\ UNCHANGED <<waiting, acks>>

ResendUnrecorded(n) ==
    /\ outgoing[n].retries > 1
    /\ SymmetricChannel
    /\ Len(sent) < MaxSends
    /\ outgoing' = Without(outgoing, n)
    /\ UNCHANGED <<waiting, acks>>

\* OnTimeoutOutgoingInFlightPacket with retries left.  The capability of the
\* channel is looked up under the identifiers of its other end.  The waiting
\* packet keeps the old sequence number.
Resend(n) ==
    /\ outgoing[n].retries > 1
    /\ SymmetricChannel
    /\ Len(sent) < MaxSends
    /\ outgoing' = Assign(Without(outgoing, n), Len(sent) + 1,
                          [outgoing[n] EXCEPT !.retries = @ - 1])
    /\ UNCHANGED <<waiting, acks>>

\* OnTimeoutOutgoingInFlightPacket with no retries left: an error stands for
\* the acknowledgement of the leg whose index is n.
GiveUp(n) ==
    LET p == outgoing[n].in
    IN  /\ outgoing[n].retries <= 1
        /\ outgoing' = Without(outgoing, n)
        /\ IF p \in DOMAIN waiting
           THEN ShouldDeleteCompletedWaitingPacket(p,
                    [waiting[p] EXCEPT !.change = @ \ {n}, !.forward = @ \ {n}])
           ELSE UNCHANGED <<waiting, acks>>

\* Mutant: the transfer module does not hear of the timeout of a recorded packet.
OnTimeoutPacketWithoutRefund(n) ==
    /\ sent[n].state = "expired"
    /\ \/ n \in DOMAIN outgoing /\ Resend(n) /\ Settle(n, "unrefunded", <<Resent(n)>>)
       \/ n \in DOMAIN outgoing /\ GiveUp(n) /\ Settle(n, "unrefunded", <<>>)
       \/ /\ n \notin DOMAIN outgoing
          /\ CanRefund(n)
          /\ Settle(n, "refunded", <<>>)
          /\ UNCHANGED <<outgoing, waiting, acks>>

\* The transfer module refunds the sender in each case, after a resend too.
OnTimeoutPacket(n) ==
    /\ sent[n].state = "expired"
    /\ CanRefund(n)
    /\ \/ n \in DOMAIN outgoing /\ Resend(n) /\ Settle(n, "refunded", <<Resent(n)>>)
       \/ n \in DOMAIN outgoing /\ GiveUp(n) /\ Settle(n, "refunded", <<>>)
       \/ /\ n \notin DOMAIN outgoing
          /\ Settle(n, "refunded", <<>>)
          /\ UNCHANGED <<outgoing, waiting, acks>>

Next ==
    \/ \E p \in InPackets : OnRecvTransfer(p) \/ OnRecvError(p)
    \/ \E p \in InPackets, m \in Memos : OnRecvSwap(p, m)
    \/ \E d \in Denoms : Transfer(d)
    \/ \E n \in DOMAIN sent, s \in {"ok", "error", "expired"} : Counterparty(n, s)
    \/ \E n \in DOMAIN sent : OnAcknowledgementPacket(n)
    \/ \E n \in DOMAIN sent : OnTimeoutPacket(n)

Spec == Init /\ [][Next]_vars

\* A relayer delivers every packet or lets it expire, and submits the proof of
\* what happened until the transaction succeeds.
RelayerFairness ==
    \A n \in 1..MaxSends :
        /\ WF_vars(n \in DOMAIN sent /\ \E s \in {"ok", "error", "expired"} : Counterparty(n, s))
        /\ WF_vars(n \in DOMAIN sent /\ OnAcknowledgementPacket(n))
        /\ WF_vars(n \in DOMAIN sent /\ OnTimeoutPacket(n))

FairSpec == Spec /\ RelayerFairness

-----------------------------------------------------------------------------
(***************************************************************************)
(* Properties                                                              *)
(***************************************************************************)
Packet ==
    [denom : Denoms, amount : Nat, asked : Nat, attempt : Nat \ {0},
     state : InFlight \cup Settled]

\* Every variable has its type; the retry counter of a stored record is never
\* negative, and both legs of a waiting packet are numbers of sent packets.
TypeOK ==
    /\ received \subseteq InPackets
    /\ DOMAIN acks \subseteq InPackets /\ \A p \in DOMAIN acks : acks[p] \in {"error", "result"}
    /\ sent \in Seq(Packet) /\ Len(sent) <= MaxSends
    /\ DOMAIN waiting \subseteq InPackets
    /\ \A p \in DOMAIN waiting :
          waiting[p].change \cup waiting[p].forward \subseteq DOMAIN sent
    /\ DOMAIN outgoing \subseteq DOMAIN sent
    /\ \A n \in DOMAIN outgoing :
          outgoing[n].in \in InPackets /\ outgoing[n].retries \in Nat
    /\ receiver \in [Denoms -> Nat] /\ module \in [Denoms -> Nat]
    /\ escrow \in [Denoms -> Int]

\* A received packet is either acknowledged or kept as waiting, never both and
\* never neither: nil is returned to IBC core exactly when the record is stored,
\* and the record goes exactly when its acknowledgement is written.
AckedOrWaiting ==
    /\ received = DOMAIN acks \cup DOMAIN waiting
    /\ DOMAIN acks \cap DOMAIN waiting = {}

\* A stored record belongs to a packet in flight, unless its incoming packet
\* has been answered already; and a leg in flight, be it the packet an incoming
\* one waits for or a retry of it, always has a record.
InFlightRecorded ==
    /\ \A n \in DOMAIN outgoing :
          sent[n].state \in InFlight \/ outgoing[n].in \in DOMAIN acks
    /\ \A n \in DOMAIN sent :
          /\ sent[n].state \in InFlight
          /\ \/ sent[n].attempt > 1
             \/ \E p \in DOMAIN waiting : n \in waiting[p].change \cup waiting[p].forward
          => n \in DOMAIN outgoing

\* A retry costs one unit of the counter, over all the sequence numbers under
\* which a leg was sent: it is never sent more often than the memo asked.
RetriesCounted ==
    \A n \in DOMAIN outgoing :
        sent[n].attempt + outgoing[n].retries = sent[n].asked + 1

\* What packet k keeps locked of denom d: its amount until it is refunded, less
\* its amount if it is a retry, which was not taken from the receiver anew.
Locks(k, d) ==
    IF k.denom = d
    THEN (IF k.state = "refunded" THEN 0 ELSE k.amount)
           - (IF k.attempt > 1 THEN k.amount ELSE 0)
    ELSE 0

Ledger(packets, d) == [n \in DOMAIN packets |-> Locks(packets[n], d)]

\* Tokens leave escrow only by refunds: what is locked is what was sent and not
\* refunded, less one amount for every retry, which was refunded and sent again
\* without being taken from the receiver anew.  So escrow fails to cover the
\* refund of a packet only if another one of its denom was sent again before,
\* whatever the order of acknowledgements, timeouts and retries.
EscrowAccounting ==
    /\ \A d \in Denoms : escrow[d] = SumFunction(Ledger(sent, d))
    /\ \A n \in DOMAIN sent :
          sent[n].state = "unrefunded" =>
              \E k \in DOMAIN sent : sent[k].denom = sent[n].denom /\ sent[k].attempt > 1

\* An incoming packet whose swap was done is acknowledged in the end.
WaitingIsAnswered ==
    \A p \in InPackets : (p \in DOMAIN waiting) ~> (p \in DOMAIN acks)

=============================================================================
