---------------------------- MODULE SwapIBCProofs ----------------------------
(***************************************************************************)
(* Proofs about the swap middleware, for every set of incoming packets,    *)
(* every memo, number of retries and order of packet events.               *)
(***************************************************************************)
EXTENDS SwapIBC, SumTheorems, SequenceTheorems

-----------------------------------------------------------------------------
(***************************************************************************)
(* Answers: the stores of incoming packets                                 *)
(***************************************************************************)

\* The domains after a store is written to, and after an entry is removed.
LEMMA StoreDomains ==
    ASSUME NEW f, NEW k, NEW x
    PROVE  /\ DOMAIN Assign(f, k, x) = DOMAIN f \cup {k}
           /\ DOMAIN Without(f, k) = DOMAIN f \ {k}
BY DEF Assign, Without

\* ShouldDeleteCompletedWaitingPacket moves a waiting packet to the
\* acknowledged ones, or leaves it where it is.
LEMMA CompletionMoves ==
    ASSUME NEW p \in DOMAIN waiting, NEW w,
           ShouldDeleteCompletedWaitingPacket(p, w),
           AckedOrWaiting, UNCHANGED received
    PROVE  AckedOrWaiting'
<1>1. CASE w.change = {} /\ w.forward = {}
  <2>1. acks' = Assign(acks, p, "result") /\ waiting' = Without(waiting, p)
    BY <1>1 DEF ShouldDeleteCompletedWaitingPacket
  <2>2. DOMAIN acks' = DOMAIN acks \cup {p} /\ DOMAIN waiting' = DOMAIN waiting \ {p}
    BY <2>1, StoreDomains
  <2> QED
    BY <2>2 DEF AckedOrWaiting
<1>2. CASE ~(w.change = {} /\ w.forward = {})
  <2>1. acks' = acks /\ waiting' = Assign(waiting, p, w)
    BY <1>2 DEF ShouldDeleteCompletedWaitingPacket
  <2>2. DOMAIN waiting' = DOMAIN waiting \cup {p}
    BY <2>1, StoreDomains
  <2> QED
    BY <2>1, <2>2 DEF AckedOrWaiting
<1> QED
  BY <1>1, <1>2

\* Every transaction keeps the received packets apart: answered or waiting.
LEMMA AnswersInductive ==
    AckedOrWaiting /\ [Next]_vars => AckedOrWaiting'
<1> SUFFICES ASSUME AckedOrWaiting, [Next]_vars
             PROVE  AckedOrWaiting'
  OBVIOUS
<1>1. ASSUME NEW p \in InPackets, OnRecvTransfer(p) \/ OnRecvError(p)
      PROVE  AckedOrWaiting'
  <2>1. PICK a \in {"result", "error"} : acks' = Assign(acks, p, a)
    BY <1>1 DEF OnRecvTransfer, OnRecvError
  <2>2. DOMAIN acks' = DOMAIN acks \cup {p}
    BY <2>1, StoreDomains
  <2> QED
    BY <1>1, <2>2 DEF AckedOrWaiting, OnRecvTransfer, OnRecvError
<1>2. ASSUME NEW p \in InPackets, NEW m \in Memos, OnRecvSwap(p, m)
      PROVE  AckedOrWaiting'
  <2>1. p \notin received /\ received' = received \cup {p}
    BY <1>2 DEF OnRecvSwap
  <2>2. CASE Legs(m) = {}
    <3>1. acks' = Assign(acks, p, "result") /\ waiting' = waiting
      BY <1>2, <2>2 DEF OnRecvSwap
    <3>2. DOMAIN acks' = DOMAIN acks \cup {p}
      BY <3>1, StoreDomains
    <3> QED
      BY <2>1, <3>1, <3>2 DEF AckedOrWaiting
  <2>3. CASE Legs(m) # {}
    <3>1. PICK w : waiting' = Assign(waiting, p, w) /\ acks' = acks
      BY <1>2, <2>3 DEF OnRecvSwap
    <3>2. DOMAIN waiting' = DOMAIN waiting \cup {p}
      BY <3>1, StoreDomains
    <3> QED
      BY <2>1, <3>1, <3>2 DEF AckedOrWaiting
  <2> QED
    BY <2>2, <2>3
<1>3. ASSUME NEW d \in Denoms, Transfer(d)
      PROVE  AckedOrWaiting'
  BY <1>3 DEF Transfer, AckedOrWaiting
<1>4. ASSUME NEW n \in DOMAIN sent, NEW s \in {"ok", "error", "expired"}, Counterparty(n, s)
      PROVE  AckedOrWaiting'
  BY <1>4 DEF Counterparty, AckedOrWaiting
<1>5. ASSUME NEW n \in DOMAIN sent, OnAcknowledgementPacket(n)
      PROVE  AckedOrWaiting'
  <2>1. received' = received
    BY <1>5 DEF OnAcknowledgementPacket, Settle
  <2>2. CASE n \in DOMAIN outgoing /\ outgoing[n].in \in DOMAIN waiting
    BY <1>5, <2>1, <2>2, CompletionMoves
       DEF OnAcknowledgementPacket, OnAcknowledgementOutgoingInFlightPacket
  <2>3. CASE ~(n \in DOMAIN outgoing /\ outgoing[n].in \in DOMAIN waiting)
    <3>1. acks' = acks /\ waiting' = waiting
      BY <1>5, <2>3 DEF OnAcknowledgementPacket, OnAcknowledgementOutgoingInFlightPacket
    <3> QED
      BY <2>1, <3>1 DEF AckedOrWaiting
  <2> QED
    BY <2>2, <2>3
<1>6. ASSUME NEW n \in DOMAIN sent, OnTimeoutPacket(n)
      PROVE  AckedOrWaiting'
  <2>1. received' = received
    BY <1>6 DEF OnTimeoutPacket, Settle
  <2>2. CASE acks' = acks /\ waiting' = waiting
    BY <2>1, <2>2 DEF AckedOrWaiting
  <2>3. CASE n \in DOMAIN outgoing /\ GiveUp(n)
    <3>1. CASE outgoing[n].in \in DOMAIN waiting
      BY <2>1, <2>3, <3>1, CompletionMoves DEF GiveUp
    <3>2. CASE outgoing[n].in \notin DOMAIN waiting
      BY <2>2, <2>3, <3>2 DEF GiveUp
    <3> QED
      BY <3>1, <3>2
  <2> QED
    BY <1>6, <2>2, <2>3 DEF OnTimeoutPacket, Resend
<1>7. CASE UNCHANGED vars
  BY <1>7 DEF vars, AckedOrWaiting
<1> QED
  BY <1>1, <1>2, <1>3, <1>4, <1>5, <1>6, <1>7 DEF Next

\* A received packet is acknowledged or waiting, never both and never neither,
\* whatever memos, acknowledgements, timeouts and retries come in whatever
\* order: IBC core never gets a second acknowledgement for a packet.
THEOREM AnswersCorrect == Spec => []AckedOrWaiting
<1>1. Init => AckedOrWaiting
  BY DEF Init, InitFresh, InitImported, AckedOrWaiting
<1> QED
  BY <1>1, AnswersInductive, PTL DEF Spec

-----------------------------------------------------------------------------
(***************************************************************************)
(* The legs of a memo and their sequence numbers                           *)
(***************************************************************************)

\* A memo has at most one leg of each kind, of the types that a packet needs.
LEMMA LegCases ==
    ASSUME NEW m \in Memos
    PROVE  \E c, f :
             /\ c.leg = "change" /\ c.denom = "X"
             /\ f.leg = "forward" /\ f.denom = "Y" /\ f.amount = 1
             /\ Legs(m) \in {{}, {c}, {f}, {c, f}}
             /\ \A l \in Legs(m) :
                  l.retries \in RetryCounts /\ l.denom \in Denoms /\ l.amount \in Nat
<1> DEFINE C(r) == [leg |-> "change", denom |-> "X", amount |-> Remainder(m), retries |-> r]
           F(r) == [leg |-> "forward", denom |-> "Y", amount |-> 1, retries |-> r]
<1>1. /\ m.change = {} \/ \E r \in RetryCounts : m.change = {r}
      /\ m.forward = {} \/ \E r \in RetryCounts : m.forward = {r}
  BY DEF Memos
<1>2. PICK rc, rf : /\ m.change = {} \/ (rc \in RetryCounts /\ m.change = {rc})
                    /\ m.forward = {} \/ (rf \in RetryCounts /\ m.forward = {rf})
  BY <1>1
<1>3. Legs(m) = (IF Remainder(m) > 0 THEN {C(r) : r \in m.change} ELSE {})
                  \cup {F(r) : r \in m.forward}
  BY DEF Legs
<1>4. /\ {C(r) : r \in m.change} \in {{}, {C(rc)}}
      /\ {F(r) : r \in m.forward} \in {{}, {F(rf)}}
  BY <1>2
<1>5. Legs(m) \in {{}, {C(rc)}, {F(rf)}, {C(rc), F(rf)}}
  <2> HIDE DEF C, F
  <2> QED BY <1>3, <1>4
<1>6. \A l \in Legs(m) : l.retries \in RetryCounts /\ l.denom \in Denoms /\ l.amount \in Nat
  <2>1. Remainder(m) \in Nat
    BY SwapAssumption DEF Memos, Remainder
  <2> QED
    BY <1>2, <1>3, <2>1 DEF Denoms
<1>7. /\ C(rc).leg = "change" /\ C(rc).denom = "X"
      /\ F(rf).leg = "forward" /\ F(rf).denom = "Y" /\ F(rf).amount = 1
  OBVIOUS
<1> HIDE DEF C, F
<1> QED
  BY <1>5, <1>6, <1>7

\* The legs get the numbers from n on, each its own, with no gap.
LEMMA LegNumbers ==
    ASSUME NEW m \in Memos, NEW n \in Nat
    PROVE  /\ Cardinality(Legs(m)) \in Nat
           /\ \A l \in Legs(m) :
                SequenceOf(m, l.leg, n) \in n..(n - 1 + Cardinality(Legs(m)))
           /\ \A i \in n..(n - 1 + Cardinality(Legs(m))) :
                \E l \in Legs(m) : SequenceOf(m, l.leg, n) = i
<1>1. PICK c, f : /\ c.leg = "change" /\ f.leg = "forward"
                  /\ Legs(m) \in {{}, {c}, {f}, {c, f}}
  BY LegCases
<1>2. c # f
  BY <1>1
<1>3. CASE Legs(m) = {}
  <2>1. Cardinality(Legs(m)) = 0
    BY <1>3, FS_EmptySet
  <2> QED
    BY <1>3, <2>1
<1>4. CASE Legs(m) = {c}
  <2>1. Cardinality(Legs(m)) = 1
    BY <1>4, FS_Singleton
  <2>2. SequenceOf(m, c.leg, n) = n
    BY <1>1 DEF SequenceOf
  <2> QED
    BY <1>4, <2>1, <2>2
<1>5. CASE Legs(m) = {f}
  <2>1. Cardinality(Legs(m)) = 1
    BY <1>5, FS_Singleton
  <2>2. SequenceOf(m, f.leg, n) = n
    BY <1>1, <1>5 DEF SequenceOf
  <2> QED
    BY <1>5, <2>1, <2>2
<1>6. CASE Legs(m) = {c, f}
  <2>1. Cardinality(Legs(m)) = 2
    <3>1. IsFiniteSet({c}) /\ Cardinality({c}) = 1
      BY FS_Singleton
    <3>2. Cardinality({c} \cup {f}) = 2
      BY <1>2, <3>1, FS_AddElement
    <3> QED
      BY <1>6, <3>2
  <2>2. SequenceOf(m, c.leg, n) = n /\ SequenceOf(m, f.leg, n) = n + 1
    BY <1>1, <1>6 DEF SequenceOf
  <2>3. n..(n - 1 + Cardinality(Legs(m))) = {n, n + 1}
    BY <2>1
  <2>4. \A l \in Legs(m) : SequenceOf(m, l.leg, n) \in {n, n + 1}
    BY <1>6, <2>2
  <2>5. \A i \in {n, n + 1} : \E l \in Legs(m) : SequenceOf(m, l.leg, n) = i
    BY <1>6, <2>2
  <2> QED
    BY <2>1, <2>3, <2>4, <2>5
<1> QED
  BY <1>1, <1>3, <1>4, <1>5, <1>6

-----------------------------------------------------------------------------
(***************************************************************************)
(* Records: the inductive invariant                                        *)
(***************************************************************************)

\* What a sent packet, a record and a waiting packet must be for the others.
SentWF ==
    /\ sent \in Seq(Packet)
    /\ DOMAIN outgoing \subseteq DOMAIN sent
    /\ \A n \in DOMAIN outgoing : outgoing[n] \in [in : received, retries : Nat]
    /\ \A p \in DOMAIN waiting :
          waiting[p] \in [change : SUBSET DOMAIN sent, forward : SUBSET DOMAIN sent,
                          heightParses : BOOLEAN]

\* RetriesCounted needs the types of the counters; InFlightRecorded needs that
\* a record whose incoming packet no longer waits has been answered, and that
\* no waiting packet expects a number that was not yet given out.
IInv == SentWF /\ AckedOrWaiting /\ RetriesCounted /\ InFlightRecorded

\* A packet changes its state: numbers, other packets and counters stay.
LEMMA StateChanged ==
    ASSUME sent \in Seq(Packet), NEW n \in DOMAIN sent, NEW s \in InFlight \cup Settled,
           NEW t, t = [sent EXCEPT ![n].state = s]
    PROVE  /\ t \in Seq(Packet) /\ Len(t) = Len(sent)
           /\ t[n].state = s
           /\ \A k \in DOMAIN sent :
                /\ k # n => t[k] = sent[k]
                /\ t[k].attempt = sent[k].attempt /\ t[k].asked = sent[k].asked
                /\ t[k].denom = sent[k].denom /\ t[k].amount = sent[k].amount
<1>1. DOMAIN sent = 1..Len(sent) /\ Len(sent) \in Nat /\ sent[n] \in Packet
  BY LenProperties, ElementOfSeq
<1> DEFINE r == [sent[n] EXCEPT !.state = s]
<1>2. /\ r \in Packet /\ r.state = s
      /\ r.attempt = sent[n].attempt /\ r.asked = sent[n].asked
      /\ r.denom = sent[n].denom /\ r.amount = sent[n].amount
  BY <1>1 DEF Packet
<1>3. t = [sent EXCEPT ![n] = r]
  OBVIOUS
<1> HIDE DEF r
<1>4. /\ t \in Seq(Packet) /\ Len(t) = Len(sent)
      /\ \A k \in 1..Len(sent) : t[k] = IF k = n THEN r ELSE sent[k]
  BY <1>1, <1>2, <1>3, ExceptSeq
<1> QED
  BY <1>1, <1>2, <1>4

\* Settling packet n and sending "more": numbers, other packets and counters stay.
LEMMA SettledSent ==
    ASSUME sent \in Seq(Packet), NEW n \in DOMAIN sent, NEW s \in Settled,
           NEW more \in Seq(Packet), Settle(n, s, more)
    PROVE  /\ sent' \in Seq(Packet)
           /\ Len(sent') = Len(sent) + Len(more)
           /\ sent'[n].state = s
           /\ \A k \in DOMAIN sent :
                /\ k # n => sent'[k] = sent[k]
                /\ sent'[k].attempt = sent[k].attempt /\ sent'[k].asked = sent[k].asked
                /\ sent'[k].denom = sent[k].denom /\ sent'[k].amount = sent[k].amount
           /\ \A k \in 1..Len(more) : sent'[Len(sent) + k] = more[k]
<1> DEFINE t == [sent EXCEPT ![n].state = s]
<1>1. sent' = t \o more
  BY DEF Settle
<1>2. DOMAIN sent = 1..Len(sent) /\ Len(sent) \in Nat /\ Len(more) \in Nat
  BY LenProperties
<1>3. /\ t \in Seq(Packet) /\ Len(t) = Len(sent)
      /\ t[n].state = s
      /\ \A k \in DOMAIN sent :
            /\ k # n => t[k] = sent[k]
            /\ t[k].attempt = sent[k].attempt /\ t[k].asked = sent[k].asked
            /\ t[k].denom = sent[k].denom /\ t[k].amount = sent[k].amount
  <2>1. s \in InFlight \cup Settled /\ t = [sent EXCEPT ![n].state = s]
    OBVIOUS
  <2> HIDE DEF t
  <2> QED
    BY <2>1, StateChanged, SMTT(40)
<1> HIDE DEF t
<1>4. /\ sent' \in Seq(Packet) /\ Len(sent') = Len(t) + Len(more)
      /\ \A k \in 1..(Len(t) + Len(more)) :
            sent'[k] = IF k <= Len(t) THEN t[k] ELSE more[k - Len(t)]
  <2>1. /\ t \o more \in Seq(Packet) /\ Len(t \o more) = Len(t) + Len(more)
        /\ \A k \in 1..(Len(t) + Len(more)) :
              (t \o more)[k] = IF k <= Len(t) THEN t[k] ELSE more[k - Len(t)]
    <3>1. t \in Seq(Packet) /\ more \in Seq(Packet)
      BY <1>3
    <3> QED
      BY <3>1, ConcatProperties, Zenon
  <2> QED
    BY <1>1, <2>1, Zenon
<1>5. \A k \in 1..Len(sent) : sent'[k] = t[k]
  BY <1>2, <1>3, <1>4
<1>6. \A k \in 1..Len(more) : sent'[Len(sent) + k] = more[k]
  <2> TAKE k \in 1..Len(more)
  <2>1. Len(sent) + k \in 1..(Len(t) + Len(more)) /\ ~(Len(sent) + k <= Len(t))
    BY <1>2, <1>3
  <2>2. sent'[Len(sent) + k] = more[(Len(sent) + k) - Len(t)]
    BY <1>4, <2>1
  <2>3. (Len(sent) + k) - Len(t) = k
    BY <1>2, <1>3
  <2> QED
    BY <2>2, <2>3
<1> QED
  BY <1>2, <1>3, <1>4, <1>5, <1>6

\* Less is expected of a packet: a leg, or both, no longer.
Shrunk(w, v) ==
    w \in [change : SUBSET v.change, forward : SUBSET v.forward, heightParses : BOOLEAN]

\* ShouldDeleteCompletedWaitingPacket forgets no acknowledgement and makes no
\* packet wait for more, when w expects no more than was expected of p.
LEMMA CompletionShrinks ==
    ASSUME NEW p \in DOMAIN waiting, NEW w, Shrunk(w, waiting[p]),
           ShouldDeleteCompletedWaitingPacket(p, w)
    PROVE  /\ DOMAIN acks \subseteq DOMAIN acks'
           /\ \A q \in DOMAIN waiting' :
                q \in DOMAIN waiting /\ (waiting'[q] = waiting[q] \/ Shrunk(waiting'[q], waiting[q]))
<1>1. CASE w.change = {} /\ w.forward = {}
  BY <1>1 DEF ShouldDeleteCompletedWaitingPacket, Assign, Without
<1>2. CASE ~(w.change = {} /\ w.forward = {})
  BY <1>2 DEF ShouldDeleteCompletedWaitingPacket, Assign
<1> QED
  BY <1>1, <1>2

\* The end of a packet, acknowledged or given up, keeps the records in order, if
\* its record goes with it or belongs to a packet answered before.
LEMMA SettledKeeps ==
    ASSUME SentWF, RetriesCounted, InFlightRecorded,
           NEW n \in DOMAIN sent, NEW s \in Settled, Settle(n, s, <<>>),
           \/ outgoing' = Without(outgoing, n)
           \/ /\ outgoing' = outgoing
              /\ n \in DOMAIN outgoing => outgoing[n].in \in DOMAIN acks,
           DOMAIN acks \subseteq DOMAIN acks',
           \A q \in DOMAIN waiting' :
               q \in DOMAIN waiting /\ (waiting'[q] = waiting[q] \/ Shrunk(waiting'[q], waiting[q]))
    PROVE  SentWF' /\ RetriesCounted' /\ InFlightRecorded'
<1>1. sent \in Seq(Packet) /\ <<>> \in Seq(Packet) /\ Len(<<>>) = 0
  BY EmptySeq DEF SentWF
<1>2. /\ sent' \in Seq(Packet)
      /\ Len(sent') = Len(sent) + 0
      /\ sent'[n].state = s
      /\ \A k \in DOMAIN sent :
            /\ k # n => sent'[k] = sent[k]
            /\ sent'[k].attempt = sent[k].attempt /\ sent'[k].asked = sent[k].asked
  <2>1. <<>> \in Seq(Packet)
    BY <1>1
  <2> QED
    BY <1>1, <2>1, SettledSent
<1>3. DOMAIN sent' = DOMAIN sent
  BY <1>1, <1>2, LenProperties
<1>4. s \notin InFlight
  BY DEF InFlight, Settled
<1>5. received' = received
  BY DEF Settle
<1>6. /\ DOMAIN outgoing' \subseteq DOMAIN outgoing
      /\ \A k \in DOMAIN outgoing' : outgoing'[k] = outgoing[k]
      /\ \A k \in DOMAIN outgoing : k # n => k \in DOMAIN outgoing'
      /\ n \in DOMAIN outgoing' => outgoing[n].in \in DOMAIN acks
  BY DEF Without
<1>7. SentWF'
  BY <1>2, <1>3, <1>5, <1>6 DEF SentWF, Shrunk
<1>8. RetriesCounted'
  BY <1>2, <1>6 DEF RetriesCounted, SentWF
<1>9. InFlightRecorded'
  <2>1. ASSUME NEW k \in DOMAIN outgoing'
        PROVE  sent'[k].state \in InFlight \/ outgoing'[k].in \in DOMAIN acks'
    BY <1>2, <1>6, <2>1 DEF InFlightRecorded, SentWF
  <2>2. ASSUME NEW k \in DOMAIN sent', sent'[k].state \in InFlight,
               \/ sent'[k].attempt > 1
               \/ \E p \in DOMAIN waiting' : k \in waiting'[p].change \cup waiting'[p].forward
        PROVE  k \in DOMAIN outgoing'
    <3>1. k # n /\ sent'[k] = sent[k]
      BY <1>2, <1>3, <1>4, <2>2
    <3>2. CASE sent'[k].attempt > 1
      BY <1>3, <1>6, <2>2, <3>1, <3>2 DEF InFlightRecorded
    <3>3. CASE \E p \in DOMAIN waiting' : k \in waiting'[p].change \cup waiting'[p].forward
      <4>1. PICK p \in DOMAIN waiting' : k \in waiting'[p].change \cup waiting'[p].forward
        BY <3>3
      <4>2. p \in DOMAIN waiting /\ k \in waiting[p].change \cup waiting[p].forward
        BY <4>1 DEF Shrunk
      <4> QED
        BY <1>3, <1>6, <2>2, <3>1, <4>2 DEF InFlightRecorded
    <3> QED
      BY <2>2, <3>2, <3>3
  <2> QED
    BY <2>1, <2>2 DEF InFlightRecorded
<1> QED
  BY <1>7, <1>8, <1>9

\* An acknowledgement keeps the records in order.
LEMMA AcknowledgementKeeps ==
    ASSUME IInv, NEW n \in DOMAIN sent, OnAcknowledgementPacket(n)
    PROVE  SentWF' /\ RetriesCounted' /\ InFlightRecorded'
<1>1. PICK s \in Settled : Settle(n, s, <<>>)
  BY DEF OnAcknowledgementPacket, Settled
<1>2. CASE n \in DOMAIN outgoing /\ outgoing[n].in \in DOMAIN waiting
  <2> DEFINE p == outgoing[n].in
             w == [waiting[p] EXCEPT !.change = {}, !.forward = {}]
  <2>1. outgoing' = Without(outgoing, n) /\ ShouldDeleteCompletedWaitingPacket(p, w)
    BY <1>2 DEF OnAcknowledgementPacket, OnAcknowledgementOutgoingInFlightPacket
  <2>2. Shrunk(w, waiting[p])
    BY <1>2 DEF IInv, SentWF, Shrunk
  <2>3. p \in DOMAIN waiting
    BY <1>2
  <2> HIDE DEF p, w
  <2>4. /\ DOMAIN acks \subseteq DOMAIN acks'
        /\ \A q \in DOMAIN waiting' :
             q \in DOMAIN waiting /\ (waiting'[q] = waiting[q] \/ Shrunk(waiting'[q], waiting[q]))
    BY <2>1, <2>2, <2>3, CompletionShrinks
  <2> QED
    BY <1>1, <2>1, <2>4, SettledKeeps DEF IInv
<1>3. CASE ~(n \in DOMAIN outgoing /\ outgoing[n].in \in DOMAIN waiting)
  <2>1. outgoing' = outgoing /\ acks' = acks /\ waiting' = waiting
    BY <1>3 DEF OnAcknowledgementPacket, OnAcknowledgementOutgoingInFlightPacket
  <2>2. n \in DOMAIN outgoing => outgoing[n].in \in DOMAIN acks
    BY <1>3 DEF IInv, SentWF, AckedOrWaiting
  <2> QED
    BY <1>1, <2>1, <2>2, SettledKeeps DEF IInv
<1> QED
  BY <1>2, <1>3

\* Giving up a packet keeps the records in order.
LEMMA GiveUpKeeps ==
    ASSUME IInv, NEW n \in DOMAIN sent, n \in DOMAIN outgoing,
           GiveUp(n), Settle(n, "refunded", <<>>)
    PROVE  SentWF' /\ RetriesCounted' /\ InFlightRecorded'
<1> DEFINE p == outgoing[n].in
           w == [waiting[p] EXCEPT !.change = @ \ {n}, !.forward = @ \ {n}]
<1>1. "refunded" \in Settled
  BY DEF Settled
<1>2. outgoing' = Without(outgoing, n)
  BY DEF GiveUp
<1>3. /\ DOMAIN acks \subseteq DOMAIN acks'
      /\ \A q \in DOMAIN waiting' :
           q \in DOMAIN waiting /\ (waiting'[q] = waiting[q] \/ Shrunk(waiting'[q], waiting[q]))
  <2>1. CASE p \in DOMAIN waiting
    <3>1. ShouldDeleteCompletedWaitingPacket(p, w)
      BY <2>1 DEF GiveUp
    <3>2. Shrunk(w, waiting[p])
      BY <2>1 DEF IInv, SentWF, Shrunk
    <3> HIDE DEF p, w
    <3> QED
      BY <2>1, <3>1, <3>2, CompletionShrinks
  <2>2. CASE p \notin DOMAIN waiting
    BY <2>2 DEF GiveUp
  <2> QED
    BY <2>1, <2>2
<1> HIDE DEF p, w
<1> QED
  BY <1>1, <1>2, <1>3, SettledKeeps DEF IInv

\* A retry moves the record of the old packet to the new one, which has made
\* one attempt more and has one retry less.
LEMMA ResendKeeps ==
    ASSUME IInv, NEW n \in DOMAIN sent, n \in DOMAIN outgoing,
           Resend(n), Settle(n, "refunded", <<Resent(n)>>)
    PROVE  SentWF' /\ RetriesCounted' /\ InFlightRecorded'
<1> DEFINE new == Len(sent) + 1
           rec == [outgoing[n] EXCEPT !.retries = @ - 1]
<1>1. /\ sent \in Seq(Packet) /\ "refunded" \in Settled /\ "refunded" \notin InFlight
      /\ DOMAIN sent = 1..Len(sent) /\ Len(sent) \in Nat /\ sent[n] \in Packet
  BY LenProperties, ElementOfSeq DEF IInv, SentWF, Settled, InFlight
<1>2. /\ Resent(n) \in Packet /\ Resent(n).state \in InFlight
      /\ Resent(n).attempt = sent[n].attempt + 1 /\ Resent(n).asked = sent[n].asked
  BY <1>1 DEF Resent, NewPacket, Packet, InFlight
<1>3. /\ rec \in [in : received, retries : Nat]
      /\ rec.in = outgoing[n].in
      /\ rec.retries = outgoing[n].retries - 1
  BY DEF Resend, IInv, SentWF
<1>4. /\ sent' \in Seq(Packet) /\ DOMAIN sent' = 1..new
      /\ sent'[n].state = "refunded"
      /\ \A k \in DOMAIN sent :
            /\ k # n => sent'[k] = sent[k]
            /\ sent'[k].attempt = sent[k].attempt /\ sent'[k].asked = sent[k].asked
      /\ sent'[new] = Resent(n)
  <2> DEFINE more == <<Resent(n)>>
  <2>1. more \in Seq(Packet) /\ Len(more) = 1 /\ more[1] = Resent(n)
    BY <1>2
  <2> HIDE DEF more
  <2>2. Settle(n, "refunded", more)
    BY DEF more
  <2>3. /\ sent' \in Seq(Packet)
        /\ Len(sent') = Len(sent) + Len(more)
        /\ sent'[n].state = "refunded"
        /\ \A k \in DOMAIN sent :
              /\ k # n => sent'[k] = sent[k]
              /\ sent'[k].attempt = sent[k].attempt /\ sent'[k].asked = sent[k].asked
        /\ \A k \in 1..Len(more) : sent'[Len(sent) + k] = more[k]
    BY <1>1, <2>1, <2>2, SettledSent
  <2> QED
    BY <2>1, <2>3, LenProperties
<1>5. /\ received' = received /\ waiting' = waiting /\ acks' = acks
      /\ outgoing' = Assign(Without(outgoing, n), new, rec)
  BY DEF Resend, Settle
<1>6. new \notin DOMAIN sent /\ new \notin DOMAIN outgoing
  BY <1>1 DEF IInv, SentWF
<1>7. /\ DOMAIN outgoing' = (DOMAIN outgoing \ {n}) \cup {new}
      /\ outgoing'[new] = rec
      /\ \A k \in DOMAIN outgoing \ {n} : outgoing'[k] = outgoing[k]
  <2> HIDE DEF new, rec
  <2> QED
    BY <1>5, <1>6 DEF Assign, Without
<1>8. DOMAIN sent \subseteq DOMAIN sent' /\ new \in DOMAIN sent' /\ DOMAIN sent' = DOMAIN sent \cup {new}
  BY <1>1, <1>4
<1> HIDE DEF new, rec
<1>9. SentWF'
  BY <1>3, <1>4, <1>5, <1>7, <1>8 DEF IInv, SentWF
<1>10. RetriesCounted'
  <2>1. ASSUME NEW k \in DOMAIN outgoing, k # n
        PROVE  sent'[k].attempt + outgoing'[k].retries = sent'[k].asked + 1
    BY <1>4, <1>7, <2>1 DEF IInv, RetriesCounted, SentWF
  <2>2. sent'[new].attempt + outgoing'[new].retries = sent'[new].asked + 1
    <3>1. sent[n].attempt \in Nat /\ outgoing[n].retries \in Nat
          /\ sent[n].attempt + outgoing[n].retries = sent[n].asked + 1
      BY <1>1 DEF IInv, RetriesCounted, SentWF, Packet
    <3> QED
      BY <1>2, <1>3, <1>4, <1>7, <3>1
  <2> QED
    BY <1>7, <2>1, <2>2 DEF RetriesCounted
<1>11. InFlightRecorded'
  <2>1. ASSUME NEW k \in DOMAIN outgoing'
        PROVE  sent'[k].state \in InFlight \/ outgoing'[k].in \in DOMAIN acks'
    BY <1>2, <1>4, <1>5, <1>7, <2>1 DEF IInv, InFlightRecorded, SentWF
  <2>2. ASSUME NEW k \in DOMAIN sent', sent'[k].state \in InFlight,
               \/ sent'[k].attempt > 1
               \/ \E p \in DOMAIN waiting' : k \in waiting'[p].change \cup waiting'[p].forward
        PROVE  k \in DOMAIN outgoing'
    <3>1. CASE k = new
      BY <1>7, <3>1
    <3>2. CASE k # new
      <4>1. k \in DOMAIN sent /\ k # n /\ sent'[k] = sent[k]
        BY <1>1, <1>4, <1>8, <2>2, <3>2
      <4>2. k \in DOMAIN outgoing
        BY <1>5, <2>2, <4>1 DEF IInv, InFlightRecorded
      <4> QED
        BY <1>7, <4>1, <4>2
    <3> QED
      BY <3>1, <3>2
  <2> QED
    BY <2>1, <2>2 DEF InFlightRecorded
<1> QED
  BY <1>9, <1>10, <1>11

\* A swap appends one new packet for each leg, numbered from the next number on.
LEMMA SwapSends ==
    ASSUME sent \in Seq(Packet), NEW p \in InPackets, NEW m \in Memos, OnRecvSwap(p, m),
           NEW n, n = Len(sent) + 1, NEW c, c = Cardinality(Legs(m))
    PROVE  /\ c \in Nat /\ Len(sent) \in Nat /\ DOMAIN sent = 1..Len(sent)
           /\ sent' \in Seq(Packet) /\ Len(sent') = Len(sent) + c
           /\ DOMAIN sent' = DOMAIN sent \cup (n..(Len(sent) + c))
           /\ (n..(Len(sent) + c)) \cap DOMAIN sent = {}
           /\ \A k \in DOMAIN sent : sent'[k] = sent[k]
           /\ \A k \in n..(Len(sent) + c) :
                 /\ LegAt(m, n, k) \in Legs(m)
                 /\ LegAt(m, n, k).retries \in Nat
                 /\ sent'[k] = NewPacket(LegAt(m, n, k).denom, LegAt(m, n, k).amount,
                                        LegAt(m, n, k).retries, 1)
<1> DEFINE P(i) == NewPacket(LegAt(m, n, Len(sent) + i).denom, LegAt(m, n, Len(sent) + i).amount,
                             LegAt(m, n, Len(sent) + i).retries, 1)
           more == [i \in 1..c |-> P(i)]
<1>1. Len(sent) \in Nat /\ DOMAIN sent = 1..Len(sent) /\ n \in Nat /\ n - 1 = Len(sent)
  BY LenProperties
<1>2. /\ c \in Nat
      /\ \A i \in n..(Len(sent) + c) : \E l \in Legs(m) : SequenceOf(m, l.leg, n) = i
  BY <1>1, LegNumbers
<1>3. ASSUME NEW i \in n..(Len(sent) + c)
      PROVE  /\ LegAt(m, n, i) \in Legs(m)
             /\ LegAt(m, n, i).retries \in Nat
             /\ LegAt(m, n, i).denom \in Denoms /\ LegAt(m, n, i).amount \in Nat
  <2>1. LegAt(m, n, i) \in Legs(m)
    BY <1>2, <1>3 DEF LegAt
  <2> QED
    BY <2>1, LegCases, SwapAssumption
<1>4. sent' = sent \o more
  BY DEF OnRecvSwap
<1>5. \A i \in 1..c : P(i) \in Packet
  <2> TAKE i \in 1..c
  <2>1. Len(sent) + i \in n..(Len(sent) + c)
    BY <1>1, <1>2
  <2> QED
    BY <1>3, <2>1 DEF NewPacket, Packet, InFlight
<1> HIDE DEF P
<1>6. more \in Seq(Packet) /\ Len(more) = c
  BY <1>2, <1>5
<1>7. /\ sent' \in Seq(Packet) /\ Len(sent') = Len(sent) + c
      /\ \A k \in 1..(Len(sent) + c) :
            sent'[k] = IF k <= Len(sent) THEN sent[k] ELSE more[k - Len(sent)]
  <2> HIDE DEF more
  <2>1. /\ sent \o more \in Seq(Packet) /\ Len(sent \o more) = Len(sent) + Len(more)
        /\ \A k \in 1..(Len(sent) + Len(more)) :
              (sent \o more)[k] = IF k <= Len(sent) THEN sent[k] ELSE more[k - Len(sent)]
    BY <1>1, <1>6, ConcatProperties, Zenon
  <2> QED
    BY <1>4, <1>6, <2>1, Zenon
<1>8. DOMAIN sent' = 1..(Len(sent) + c)
  BY <1>7, LenProperties
<1>9. \A k \in 1..Len(sent) : sent'[k] = sent[k]
  <2> TAKE k \in 1..Len(sent)
  <2>1. k \in 1..(Len(sent) + c) /\ k <= Len(sent)
    BY <1>1, <1>2
  <2> QED
    BY <1>7, <2>1, Zenon
<1>10. \A k \in n..(Len(sent) + c) :
          sent'[k] = NewPacket(LegAt(m, n, k).denom, LegAt(m, n, k).amount,
                               LegAt(m, n, k).retries, 1)
  <2> TAKE k \in n..(Len(sent) + c)
  <2>1. k - Len(sent) \in 1..c /\ ~(k <= Len(sent)) /\ k \in 1..(Len(sent) + c)
        /\ Len(sent) + (k - Len(sent)) = k
    BY <1>1, <1>2
  <2>2. sent'[k] = P(k - Len(sent))
    BY <1>7, <2>1
  <2> QED
    BY <2>1, <2>2 DEF P
<1>11. /\ DOMAIN sent' = DOMAIN sent \cup (n..(Len(sent) + c))
       /\ (n..(Len(sent) + c)) \cap DOMAIN sent = {}
  BY <1>1, <1>2, <1>8
<1> QED
  BY <1>1, <1>2, <1>3, <1>7, <1>9, <1>10, <1>11

\* A swap's legs get packets and records of their own, numbered from the next
\* number on; the incoming packet waits for those and for no other.
LEMMA RecvSwapKeeps ==
    ASSUME IInv, NEW p \in InPackets, NEW m \in Memos, OnRecvSwap(p, m)
    PROVE  SentWF' /\ RetriesCounted' /\ InFlightRecorded'
<1> DEFINE n == Len(sent) + 1
           c == Cardinality(Legs(m))
           Index(leg) == {SequenceOf(m, leg, n) : l \in {k \in Legs(m) : k.leg = leg}}
<1>1. /\ sent \in Seq(Packet) /\ Len(sent) \in Nat /\ DOMAIN sent = 1..Len(sent)
      /\ DOMAIN outgoing \subseteq 1..Len(sent)
  BY LenProperties DEF IInv, SentWF
<1>2. /\ c \in Nat
      /\ \A l \in Legs(m) : SequenceOf(m, l.leg, n) \in n..(Len(sent) + c)
  <2>1. n \in Nat /\ n - 1 = Len(sent)
    BY <1>1
  <2> HIDE DEF n
  <2> QED
    BY <2>1, LegNumbers
<1>3. /\ received' = received \cup {p}
      /\ outgoing' = [i \in DOMAIN outgoing \cup (n..(Len(sent) + c)) |->
                        IF i < n THEN outgoing[i]
                        ELSE [in |-> p, retries |-> LegAt(m, n, i).retries]]
  BY DEF OnRecvSwap
<1>4. /\ DOMAIN acks \subseteq DOMAIN acks'
      /\ \A q \in DOMAIN waiting' :
            \/ q \in DOMAIN waiting /\ waiting'[q] = waiting[q]
            \/ waiting'[q] = [change |-> Index("change"), forward |-> Index("forward"),
                              heightParses |-> FALSE]
  <2>1. CASE Legs(m) = {}
    BY <2>1 DEF OnRecvSwap, Assign
  <2>2. CASE Legs(m) # {}
    <3>1. /\ acks' = acks
          /\ waiting' = Assign(waiting, p, [change |-> Index("change"), forward |-> Index("forward"),
                                            heightParses |-> FALSE])
      BY <2>2 DEF OnRecvSwap
    <3> HIDE DEF Index
    <3> QED
      BY <3>1 DEF Assign
  <2> QED
    BY <2>1, <2>2
<1>5. Index("change") \cup Index("forward") \subseteq n..(Len(sent) + c)
  <2> HIDE DEF n, c
  <2> QED
    BY <1>2
<1>6. /\ sent' \in Seq(Packet)
      /\ DOMAIN sent' = DOMAIN sent \cup (n..(Len(sent) + c))
      /\ (n..(Len(sent) + c)) \cap DOMAIN sent = {}
      /\ \A k \in DOMAIN sent : sent'[k] = sent[k]
      /\ \A k \in n..(Len(sent) + c) :
            /\ LegAt(m, n, k).retries \in Nat
            /\ sent'[k] = NewPacket(LegAt(m, n, k).denom, LegAt(m, n, k).amount, LegAt(m, n, k).retries, 1)
  <2>1. n = Len(sent) + 1 /\ c = Cardinality(Legs(m))
    OBVIOUS
  <2> HIDE DEF n, c
  <2>2. sent \in Seq(Packet)
    BY <1>1
  <2>3. /\ sent' \in Seq(Packet)
        /\ DOMAIN sent' = DOMAIN sent \cup (n..(Len(sent) + c))
        /\ (n..(Len(sent) + c)) \cap DOMAIN sent = {}
        /\ \A k \in DOMAIN sent : sent'[k] = sent[k]
    BY <2>1, <2>2, SwapSends
  <2>4. ASSUME NEW k \in n..(Len(sent) + c)
        PROVE  /\ LegAt(m, n, k).retries \in Nat
               /\ sent'[k] = NewPacket(LegAt(m, n, k).denom, LegAt(m, n, k).amount,
                                      LegAt(m, n, k).retries, 1)
    BY <2>1, <2>2, <2>4, SwapSends
  <2> QED
    BY <2>3, <2>4
<1> HIDE DEF c, Index
<1>7. ASSUME NEW k \in n..(Len(sent) + c)
      PROVE  /\ sent'[k].state \in InFlight /\ sent'[k].attempt = 1
             /\ sent'[k].asked = LegAt(m, n, k).retries
  <2>1. sent'[k] = NewPacket(LegAt(m, n, k).denom, LegAt(m, n, k).amount,
                             LegAt(m, n, k).retries, 1)
    BY <1>6, <1>7, Zenon
  <2> QED
    BY <2>1 DEF NewPacket, InFlight
<1>8. /\ DOMAIN outgoing' = DOMAIN outgoing \cup (n..(Len(sent) + c))
      /\ \A k \in DOMAIN outgoing : outgoing'[k] = outgoing[k]
      /\ \A k \in n..(Len(sent) + c) : outgoing'[k] = [in |-> p, retries |-> LegAt(m, n, k).retries]
  BY <1>1, <1>2, <1>3
<1> DEFINE New == n..(Len(sent) + c)
<1> HIDE DEF n
<1>9. SentWF'
  <2>1. DOMAIN outgoing' \subseteq DOMAIN sent'
    BY <1>1, <1>8, <1>6
  <2>2. ASSUME NEW k \in DOMAIN outgoing'
        PROVE  outgoing'[k] \in [in : received', retries : Nat]
    <3>1. CASE k \in DOMAIN outgoing
      BY <1>3, <1>8, <3>1 DEF IInv, SentWF
    <3>2. CASE k \in New
      <4>1. outgoing'[k] = [in |-> p, retries |-> LegAt(m, n, k).retries]
        BY <1>8, <3>2
      <4>2. LegAt(m, n, k).retries \in Nat
        BY <1>6, <3>2
      <4> QED
        BY <1>3, <4>1, <4>2
    <3> QED
      BY <1>8, <2>2, <3>1, <3>2
  <2>3. ASSUME NEW q \in DOMAIN waiting'
        PROVE  waiting'[q] \in [change : SUBSET DOMAIN sent', forward : SUBSET DOMAIN sent',
                                heightParses : BOOLEAN]
    <3>1. CASE q \in DOMAIN waiting /\ waiting'[q] = waiting[q]
      BY <1>6, <3>1 DEF IInv, SentWF
    <3>2. CASE waiting'[q] = [change |-> Index("change"), forward |-> Index("forward"),
                              heightParses |-> FALSE]
      <4>1. Index("change") \in SUBSET DOMAIN sent' /\ Index("forward") \in SUBSET DOMAIN sent'
        BY <1>5, <1>6
      <4> QED
        BY <3>2, <4>1
    <3> QED
      BY <1>4, <2>3, <3>1, <3>2
  <2> QED
    BY <1>6, <2>1, <2>2, <2>3 DEF SentWF
<1>10. RetriesCounted'
  <2>1. ASSUME NEW k \in DOMAIN outgoing
        PROVE  sent'[k].attempt + outgoing'[k].retries = sent'[k].asked + 1
    BY <1>1, <1>6, <1>8, <2>1 DEF IInv, RetriesCounted
  <2>2. ASSUME NEW k \in New
        PROVE  sent'[k].attempt + outgoing'[k].retries = sent'[k].asked + 1
    <3>1. LegAt(m, n, k).retries \in Nat
      BY <1>6, <2>2
    <3>2. sent'[k].attempt = 1 /\ sent'[k].asked = LegAt(m, n, k).retries
      BY <1>7, <2>2
    <3>3. outgoing'[k] = [in |-> p, retries |-> LegAt(m, n, k).retries]
      BY <1>8, <2>2
    <3>4. outgoing'[k].retries = LegAt(m, n, k).retries
      BY <3>3
    <3> QED
      BY <3>1, <3>2, <3>4
  <2> QED
    BY <1>8, <2>1, <2>2 DEF RetriesCounted
<1>11. InFlightRecorded'
  <2>1. ASSUME NEW k \in DOMAIN outgoing'
        PROVE  sent'[k].state \in InFlight \/ outgoing'[k].in \in DOMAIN acks'
    <3>1. CASE k \in DOMAIN outgoing
      BY <1>1, <1>4, <1>6, <1>8, <3>1 DEF IInv, InFlightRecorded
    <3>2. CASE k \in New
      BY <1>7, <3>2
    <3> QED
      BY <1>8, <2>1, <3>1, <3>2
  <2>2. ASSUME NEW k \in DOMAIN sent', sent'[k].state \in InFlight,
               \/ sent'[k].attempt > 1
               \/ \E q \in DOMAIN waiting' : k \in waiting'[q].change \cup waiting'[q].forward
        PROVE  k \in DOMAIN outgoing'
    <3>1. CASE k \in New
      BY <1>8, <3>1
    <3>2. CASE k \notin New
      <4>1. k \in DOMAIN sent /\ sent'[k] = sent[k]
        BY <1>1, <1>6, <2>2, <3>2
      <4>2. sent[k].attempt > 1 \/ \E q \in DOMAIN waiting : k \in waiting[q].change \cup waiting[q].forward
        BY <1>4, <1>5, <2>2, <3>2, <4>1
      <4>3. k \in DOMAIN outgoing
        BY <2>2, <4>1, <4>2 DEF IInv, InFlightRecorded
      <4> QED
        BY <1>8, <4>3
    <3> QED
      BY <3>1, <3>2
  <2> QED
    BY <2>1, <2>2 DEF InFlightRecorded
<1> QED
  BY <1>9, <1>10, <1>11

\* A user's transfer has a number that no packet waits for and needs no record.
LEMMA TransferKeeps ==
    ASSUME IInv, NEW d \in Denoms, Transfer(d)
    PROVE  SentWF' /\ RetriesCounted' /\ InFlightRecorded'
<1> DEFINE new == NewPacket(d, 1, 0, 1)
<1>1. /\ sent \in Seq(Packet) /\ Len(sent) \in Nat /\ DOMAIN sent = 1..Len(sent)
      /\ new \in Packet /\ new.attempt = 1
  BY LenProperties DEF IInv, SentWF, NewPacket, Packet, InFlight
<1> HIDE DEF new
<1>2. sent' = Append(sent, new)
  BY DEF Transfer, new
<1>3. /\ sent' \in Seq(Packet) /\ Len(sent') = Len(sent) + 1
      /\ \A k \in 1..Len(sent) : sent'[k] = sent[k]
      /\ sent'[Len(sent) + 1] = new
  BY <1>1, <1>2, AppendProperties
<1>4. DOMAIN sent' = DOMAIN sent \cup {Len(sent) + 1} /\ Len(sent) + 1 \notin DOMAIN sent
  BY <1>1, <1>3, LenProperties
<1>5. /\ received' = received /\ acks' = acks
      /\ waiting' = waiting /\ outgoing' = outgoing
  BY DEF Transfer
<1>6. SentWF'
  BY <1>3, <1>4, <1>5 DEF IInv, SentWF
<1>7. RetriesCounted'
  BY <1>1, <1>3, <1>5 DEF IInv, SentWF, RetriesCounted
<1>8. InFlightRecorded'
  <2>1. ASSUME NEW k \in DOMAIN outgoing'
        PROVE  sent'[k].state \in InFlight \/ outgoing'[k].in \in DOMAIN acks'
    BY <1>1, <1>3, <1>5, <2>1 DEF IInv, SentWF, InFlightRecorded
  <2>2. ASSUME NEW k \in DOMAIN sent', sent'[k].state \in InFlight,
               \/ sent'[k].attempt > 1
               \/ \E p \in DOMAIN waiting' : k \in waiting'[p].change \cup waiting'[p].forward
        PROVE  k \in DOMAIN outgoing'
    <3>1. k # Len(sent) + 1
      BY <1>1, <1>3, <1>4, <1>5, <2>2 DEF IInv, SentWF
    <3>2. k \in DOMAIN sent /\ sent'[k] = sent[k]
      BY <1>1, <1>3, <1>4, <2>2, <3>1
    <3> QED
      BY <1>5, <2>2, <3>2 DEF IInv, InFlightRecorded
  <2> QED
    BY <2>1, <2>2 DEF InFlightRecorded
<1> QED
  BY <1>6, <1>7, <1>8

\* What happens on the other chain leaves a packet in flight.
LEMMA CounterpartyKeeps ==
    ASSUME IInv, NEW n \in DOMAIN sent, NEW s \in {"ok", "error", "expired"},
           Counterparty(n, s)
    PROVE  SentWF' /\ RetriesCounted' /\ InFlightRecorded'
<1>1. /\ sent \in Seq(Packet) /\ s \in InFlight /\ s \in InFlight \cup Settled
      /\ sent' = [sent EXCEPT ![n].state = s]
  BY DEF IInv, SentWF, InFlight, Counterparty
<1>2. /\ sent' \in Seq(Packet) /\ Len(sent') = Len(sent)
      /\ sent'[n].state = s
      /\ \A k \in DOMAIN sent :
            /\ k # n => sent'[k] = sent[k]
            /\ sent'[k].attempt = sent[k].attempt /\ sent'[k].asked = sent[k].asked
  BY <1>1, StateChanged
<1>3. DOMAIN sent' = DOMAIN sent
  BY <1>1, <1>2, LenProperties
<1>4. /\ received' = received /\ acks' = acks
      /\ waiting' = waiting /\ outgoing' = outgoing
      /\ sent[n].state \in InFlight
  BY DEF Counterparty, InFlight
<1>5. SentWF'
  BY <1>2, <1>3, <1>4 DEF IInv, SentWF
<1>6. RetriesCounted'
  BY <1>2, <1>4 DEF IInv, SentWF, RetriesCounted
<1>7. \A k \in DOMAIN sent : sent'[k].state \in InFlight <=> sent[k].state \in InFlight
  BY <1>1, <1>2, <1>4
<1>8. InFlightRecorded'
  <2>1. ASSUME NEW k \in DOMAIN outgoing'
        PROVE  sent'[k].state \in InFlight \/ outgoing'[k].in \in DOMAIN acks'
    BY <1>4, <1>7, <2>1 DEF IInv, SentWF, InFlightRecorded
  <2>2. ASSUME NEW k \in DOMAIN sent', sent'[k].state \in InFlight,
               \/ sent'[k].attempt > 1
               \/ \E p \in DOMAIN waiting' : k \in waiting'[p].change \cup waiting'[p].forward
        PROVE  k \in DOMAIN outgoing'
    BY <1>2, <1>3, <1>4, <1>7, <2>2 DEF IInv, InFlightRecorded
  <2> QED
    BY <2>1, <2>2 DEF InFlightRecorded
<1> QED
  BY <1>5, <1>6, <1>8

\* The records start in order: none, or the two of an imported packet.
LEMMA RecordsInit == Init => IInv
<1> SUFFICES ASSUME Init PROVE IInv
  OBVIOUS
<1>1. AckedOrWaiting
  BY DEF Init, InitFresh, InitImported, AckedOrWaiting
<1>2. CASE InitFresh
  <2>1. sent \in Seq(Packet) /\ DOMAIN sent = {} /\ DOMAIN outgoing = {} /\ DOMAIN waiting = {}
    BY <1>2 DEF InitFresh
  <2> QED
    BY <1>1, <2>1 DEF IInv, SentWF, RetriesCounted, InFlightRecorded
<1>3. ASSUME NEW p \in Imported, NEW r \in RetryCounts, InitImported(p, r)
      PROVE  IInv
  <2>1. r \in Nat
    BY SwapAssumption
  <2>2. /\ sent \in Seq(Packet) /\ DOMAIN sent = {1, 2}
        /\ \A k \in {1, 2} : /\ sent[k].attempt = 1 /\ sent[k].asked = r
                             /\ sent[k].state \in InFlight
    <3>1. NewPacket("X", 1, r, 1) \in Packet /\ NewPacket("Y", 1, r, 1) \in Packet
      BY <2>1 DEF NewPacket, Packet, InFlight, Denoms
    <3>2. sent = <<NewPacket("X", 1, r, 1), NewPacket("Y", 1, r, 1)>>
      BY <1>3 DEF InitImported
    <3>3. sent \in Seq(Packet) /\ DOMAIN sent = {1, 2}
      BY <3>1, <3>2
    <3>4. sent[1] = NewPacket("X", 1, r, 1) /\ sent[2] = NewPacket("Y", 1, r, 1)
      BY <3>2
    <3> QED
      BY <3>3, <3>4 DEF NewPacket, InFlight
  <2>3. /\ received = {p} /\ DOMAIN outgoing = {1, 2} /\ DOMAIN waiting = {p}
        /\ \A k \in {1, 2} : outgoing[k] = [in |-> p, retries |-> r]
        /\ waiting[p] = [change |-> {1}, forward |-> {2}, heightParses |-> TRUE]
    BY <1>3 DEF InitImported
  <2>4. SentWF
    <3>1. outgoing[1] \in [in : received, retries : Nat] /\ outgoing[2] \in [in : received, retries : Nat]
      BY <2>1, <2>3
    <3>2. {1} \in SUBSET {1, 2} /\ {2} \in SUBSET {1, 2}
      OBVIOUS
    <3>3. waiting[p] \in [change : SUBSET DOMAIN sent, forward : SUBSET DOMAIN sent,
                          heightParses : BOOLEAN]
      BY <2>2, <2>3, <3>2
    <3> QED
      BY <2>2, <2>3, <3>1, <3>3 DEF SentWF
  <2>5. RetriesCounted /\ InFlightRecorded
    BY <2>1, <2>2, <2>3 DEF RetriesCounted, InFlightRecorded
  <2> QED
    BY <1>1, <2>4, <2>5 DEF IInv
<1> QED
  BY <1>2, <1>3 DEF Init

\* Every transaction keeps the records in order.
LEMMA RecordsInductive == IInv /\ [Next]_vars => IInv'
<1> SUFFICES ASSUME IInv, [Next]_vars
             PROVE  SentWF' /\ RetriesCounted' /\ InFlightRecorded'
  BY AnswersInductive DEF IInv
<1>1. ASSUME NEW p \in InPackets, OnRecvTransfer(p) \/ OnRecvError(p)
      PROVE  SentWF' /\ RetriesCounted' /\ InFlightRecorded'
  <2>1. /\ received' = received \cup {p} /\ sent' = sent
        /\ waiting' = waiting /\ outgoing' = outgoing
    BY <1>1 DEF OnRecvTransfer, OnRecvError
  <2>2. DOMAIN acks \subseteq DOMAIN acks'
    BY <1>1 DEF OnRecvTransfer, OnRecvError, Assign
  <2> QED
    BY <2>1, <2>2 DEF IInv, SentWF, RetriesCounted, InFlightRecorded
<1>2. ASSUME NEW p \in InPackets, NEW m \in Memos, OnRecvSwap(p, m)
      PROVE  SentWF' /\ RetriesCounted' /\ InFlightRecorded'
  BY <1>2, RecvSwapKeeps
<1>3. ASSUME NEW d \in Denoms, Transfer(d)
      PROVE  SentWF' /\ RetriesCounted' /\ InFlightRecorded'
  BY <1>3, TransferKeeps
<1>4. ASSUME NEW n \in DOMAIN sent, NEW s \in {"ok", "error", "expired"}, Counterparty(n, s)
      PROVE  SentWF' /\ RetriesCounted' /\ InFlightRecorded'
  BY <1>4, CounterpartyKeeps
<1>5. ASSUME NEW n \in DOMAIN sent, OnAcknowledgementPacket(n)
      PROVE  SentWF' /\ RetriesCounted' /\ InFlightRecorded'
  BY <1>5, AcknowledgementKeeps
<1>6. ASSUME NEW n \in DOMAIN sent, OnTimeoutPacket(n)
      PROVE  SentWF' /\ RetriesCounted' /\ InFlightRecorded'
  <2>1. CASE n \in DOMAIN outgoing /\ Resend(n) /\ Settle(n, "refunded", <<Resent(n)>>)
    BY <2>1, ResendKeeps
  <2>2. CASE n \in DOMAIN outgoing /\ GiveUp(n) /\ Settle(n, "refunded", <<>>)
    BY <2>2, GiveUpKeeps
  <2>3. CASE /\ n \notin DOMAIN outgoing
             /\ Settle(n, "refunded", <<>>)
             /\ UNCHANGED <<outgoing, waiting, acks>>
    <3>1. "refunded" \in Settled
      BY DEF Settled
    <3> QED
      BY <2>3, <3>1, SettledKeeps DEF IInv
  <2> QED
    BY <1>6, <2>1, <2>2, <2>3 DEF OnTimeoutPacket
<1>7. CASE UNCHANGED vars
  BY <1>7 DEF vars, IInv, SentWF, RetriesCounted, InFlightRecorded
<1> QED
  BY <1>1, <1>2, <1>3, <1>4, <1>5, <1>6, <1>7 DEF Next

\* A leg is never sent more often than its memo asked: over all the sequence
\* numbers under which it goes out, OnTimeoutOutgoingInFlightPacket spends one
\* unit of the counter for each new attempt.
THEOREM RetriesBounded == Spec => []RetriesCounted
<1>1. IInv => RetriesCounted
  BY DEF IInv
<1> QED
  BY <1>1, RecordsInit, RecordsInductive, PTL DEF Spec

\* The records of x/swap and the packet commitments of IBC core stay in step:
\* a record is of a packet in flight or of an incoming packet answered before,
\* and a leg or a retry in flight always has its record.
THEOREM RecordsMatchPackets == Spec => []InFlightRecorded
<1>1. IInv => InFlightRecorded
  BY DEF IInv
<1> QED
  BY <1>1, RecordsInit, RecordsInductive, PTL DEF Spec

-----------------------------------------------------------------------------
(***************************************************************************)
(* Money: what the escrow account holds                                    *)
(***************************************************************************)

\* What the legs of a memo take of a denom, when none or one is of that denom.
LEMMA OutflowNone ==
    ASSUME NEW m, NEW d, {k \in Legs(m) : k.denom = d} = {}
    PROVE  Outflow(m, d) = 0
<1> DEFINE F == [l \in {k \in Legs(m) : k.denom = d} |-> l.amount]
<1>1. DOMAIN F = {}
  OBVIOUS
<1> HIDE DEF F
<1>2. SumFunction(F) = 0
  BY <1>1, SumEmpty, Zenon DEF SumFunction
<1> QED
  BY <1>2 DEF F, Outflow

LEMMA OutflowOne ==
    ASSUME NEW m, NEW d, NEW l, {k \in Legs(m) : k.denom = d} = {l}, l.amount \in Nat
    PROVE  Outflow(m, d) = l.amount
<1> DEFINE F == [k \in {j \in Legs(m) : j.denom = d} |-> k.amount]
<1>1. DOMAIN F = {l} /\ F[l] = l.amount
  OBVIOUS
<1> HIDE DEF F
<1>2. SumFunction(F) = F[l]
  BY <1>1, SumSingleton DEF SumFunction
<1> QED
  BY <1>1, <1>2 DEF F, Outflow

\* What the legs of a memo take: no Y but the one that the swap yields, and no
\* X but the amount of the change.
LEMMA OutflowBounds ==
    ASSUME NEW m \in Memos
    PROVE  /\ Outflow(m, "X") = 0 \/ \E l \in Legs(m) : l.leg = "change" /\ Outflow(m, "X") = l.amount
           /\ Outflow(m, "Y") \in {0, 1}
           /\ \A d \in Denoms : Outflow(m, d) \in Nat
<1>1. PICK c, f : /\ c.leg = "change" /\ c.denom = "X"
                  /\ f.leg = "forward" /\ f.denom = "Y" /\ f.amount = 1
                  /\ Legs(m) \in {{}, {c}, {f}, {c, f}}
                  /\ \A l \in Legs(m) : l.amount \in Nat
  BY LegCases
<1>2. {k \in Legs(m) : k.denom = "X"} = {} \/ (c \in Legs(m) /\ {k \in Legs(m) : k.denom = "X"} = {c})
  BY <1>1
<1>3. {k \in Legs(m) : k.denom = "Y"} = {} \/ (f \in Legs(m) /\ {k \in Legs(m) : k.denom = "Y"} = {f})
  BY <1>1
<1>4. Outflow(m, "X") = 0 \/ (c \in Legs(m) /\ Outflow(m, "X") = c.amount)
  BY <1>1, <1>2, OutflowNone, OutflowOne
<1>5. Outflow(m, "Y") \in {0, 1}
  BY <1>1, <1>3, OutflowNone, OutflowOne
<1>6. Outflow(m, "X") \in Nat /\ Outflow(m, "Y") \in Nat
  BY <1>1, <1>4, <1>5
<1> QED
  BY <1>1, <1>4, <1>5, <1>6 DEF Denoms

\* A ledger has a number for every packet.
LEMMA LedgerTerms ==
    ASSUME NEW s \in Seq(Packet), NEW d
    PROVE  /\ IsFiniteSet(DOMAIN s) /\ DOMAIN Ledger(s, d) = DOMAIN s
           /\ \A k \in DOMAIN s : Ledger(s, d)[k] = Locks(s[k], d) /\ Ledger(s, d)[k] \in Int
<1>1. DOMAIN s = 1..Len(s) /\ Len(s) \in Nat
  BY LenProperties
<1>2. IsFiniteSet(1..Len(s))
  BY <1>1, FS_Interval
<1>3. ASSUME NEW k \in DOMAIN s PROVE Locks(s[k], d) \in Int
  <2>1. s[k] \in Packet
    BY <1>3, ElementOfSeq, <1>1
  <2> QED
    BY <2>1 DEF Locks, Packet
<1> QED
  BY <1>1, <1>2, <1>3 DEF Ledger

\* New packets add what they lock.
LEMMA LedgerGrows ==
    ASSUME NEW t \in Seq(Packet), NEW d, NEW S, NEW New, DOMAIN t = S \cup New, New \cap S = {}
    PROVE  SumFunction(Ledger(t, d)) =
                SumFunctionOnSet(Ledger(t, d), S) + SumFunctionOnSet(Ledger(t, d), New)
<1> DEFINE L == Ledger(t, d)
<1>1. /\ IsFiniteSet(DOMAIN t) /\ DOMAIN L = DOMAIN t
      /\ \A k \in DOMAIN t : L[k] \in Int
  BY LedgerTerms
<1>2. IsFiniteSet(S) /\ IsFiniteSet(New)
  BY <1>1, FS_Subset
<1>3. S \cap New = {} /\ \A y \in S \cup New : L[y] \in Int
  BY <1>1
<1>4. SumFunction(L) = SumFunctionOnSet(L, S \cup New)
  BY <1>1, Zenon DEF SumFunction
<1> HIDE DEF L
<1>5. SumFunctionOnSet(L, S \cup New) = SumFunctionOnSet(L, S) + SumFunctionOnSet(L, New)
  BY <1>2, <1>3, SumUnion
<1> QED
  BY <1>4, <1>5 DEF L

\* Packets that stay as they are lock what they did.
LEMMA LedgerStays ==
    ASSUME NEW s \in Seq(Packet), NEW t \in Seq(Packet), NEW d,
           DOMAIN s \subseteq DOMAIN t, \A k \in DOMAIN s : t[k] = s[k]
    PROVE  SumFunctionOnSet(Ledger(t, d), DOMAIN s) = SumFunction(Ledger(s, d))
<1>1. /\ IsFiniteSet(DOMAIN s) /\ DOMAIN Ledger(s, d) = DOMAIN s
      /\ \A k \in DOMAIN s : Ledger(s, d)[k] = Locks(s[k], d) /\ Ledger(s, d)[k] \in Int
  BY LedgerTerms
<1>2. \A k \in DOMAIN s : Ledger(t, d)[k] = Ledger(s, d)[k]
  BY <1>1, LedgerTerms
<1>3. SumFunctionOnSet(Ledger(t, d), DOMAIN s) = SumFunctionOnSet(Ledger(s, d), DOMAIN s)
  BY <1>1, <1>2, SumEqual
<1> QED
  BY <1>1, <1>3 DEF SumFunction

\* A packet that changes its state changes the sum by what it no longer locks.
LEMMA LedgerChanges ==
    ASSUME NEW s \in Seq(Packet), NEW t \in Seq(Packet), NEW d, NEW n \in DOMAIN s,
           DOMAIN s \subseteq DOMAIN t, \A k \in DOMAIN s : k # n => t[k] = s[k]
    PROVE  /\ SumFunctionOnSet(Ledger(t, d), DOMAIN s) =
                 SumFunction(Ledger(s, d)) - Locks(s[n], d) + Locks(t[n], d)
           /\ SumFunction(Ledger(s, d)) \in Int
           /\ Locks(s[n], d) \in Int /\ Locks(t[n], d) \in Int
<1> DEFINE L == Ledger(s, d)
           M == Ledger(t, d)
           S == DOMAIN s
           R == S \ {n}
<1>1. /\ IsFiniteSet(S) /\ DOMAIN L = S
      /\ \A k \in S : L[k] = Locks(s[k], d) /\ L[k] \in Int
  BY LedgerTerms
<1>2. \A k \in S : M[k] = Locks(t[k], d) /\ M[k] \in Int
  BY LedgerTerms
<1>3. IsFiniteSet(R) /\ R \subseteq S /\ n \in S
  BY <1>1, FS_Subset
<1>4. \A k \in R : L[k] \in Int /\ M[k] = L[k]
  BY <1>1, <1>2
<1>5. SumFunction(L) = SumFunctionOnSet(L, S)
  BY <1>1, Zenon DEF SumFunction
<1>6. L[n] = Locks(s[n], d) /\ M[n] = Locks(t[n], d) /\ L[n] \in Int /\ M[n] \in Int
  BY <1>1, <1>2, <1>3
<1> HIDE DEF L, M
<1>7. SumFunctionOnSet(M, R) = SumFunctionOnSet(L, R)
  <2> HIDE DEF R
  <2> QED BY <1>3, <1>4, SumEqual
<1> HIDE DEF S
<1>8. SumFunctionOnSet(L, S) \in Int /\ SumFunctionOnSet(L, S) = L[n] + SumFunctionOnSet(L, S \ {n})
  BY <1>1, <1>3, SumRemove
<1>9. SumFunctionOnSet(M, S) = M[n] + SumFunctionOnSet(M, S \ {n})
  BY <1>1, <1>2, <1>3, SumRemove
<1>10. SumFunctionOnSet(L, R) \in Int
  <2> HIDE DEF R
  <2> QED BY <1>3, <1>4, SumRemove
<1>11. SumFunctionOnSet(M, S) = SumFunctionOnSet(L, S) - L[n] + M[n]
  BY <1>6, <1>7, <1>8, <1>9, <1>10
<1> QED
  BY <1>5, <1>6, <1>8, <1>11 DEF L, M, S

\* What a packet locks at first: its amount.
LEMMA NewLocks ==
    ASSUME NEW denom, NEW amount \in Nat, NEW asked, NEW d
    PROVE  Locks(NewPacket(denom, amount, asked, 1), d) = IF denom = d THEN amount ELSE 0
BY DEF Locks, NewPacket

\* The packets of a swap lock what its legs take.
LEMMA SwapLocks ==
    ASSUME sent \in Seq(Packet), NEW p \in InPackets, NEW m \in Memos, OnRecvSwap(p, m),
           NEW n, n = Len(sent) + 1, NEW c, c = Cardinality(Legs(m)), NEW d \in Denoms
    PROVE  SumFunctionOnSet(Ledger(sent', d), n..(Len(sent) + c)) = Outflow(m, d)
<1> DEFINE L == Ledger(sent', d)
           New == n..(Len(sent) + c)
           Of(l) == IF l.denom = d THEN l.amount ELSE 0
<1>1. /\ Len(sent) \in Nat /\ c \in Nat /\ sent' \in Seq(Packet)
      /\ DOMAIN sent' = DOMAIN sent \cup New
  BY SwapSends
<1>2. ASSUME NEW k \in New
      PROVE  /\ LegAt(m, n, k) \in Legs(m)
             /\ sent'[k] = NewPacket(LegAt(m, n, k).denom, LegAt(m, n, k).amount,
                                    LegAt(m, n, k).retries, 1)
  BY <1>2, SwapSends
<1>3. ASSUME NEW k \in New
      PROVE  SequenceOf(m, LegAt(m, n, k).leg, n) = k
  <2>1. n \in Nat /\ n - 1 = Len(sent)
    BY <1>1
  <2>2. \E l \in Legs(m) : SequenceOf(m, l.leg, n) = k
    BY <1>3, <2>1, LegNumbers
  <2> QED
    BY <2>2 DEF LegAt
<1>4. PICK x, y : /\ x.leg = "change" /\ x.denom = "X"
                  /\ y.leg = "forward" /\ y.denom = "Y"
                  /\ Legs(m) \in {{}, {x}, {y}, {x, y}}
                  /\ \A l \in Legs(m) : l.amount \in Nat
  BY LegCases
<1>5. x # y
  BY <1>4
<1>6. ASSUME NEW k \in New
      PROVE  L[k] = Of(LegAt(m, n, k)) /\ L[k] \in Int
  <2>1. L[k] = Locks(sent'[k], d) /\ L[k] \in Int
    BY <1>1, <1>6, LedgerTerms
  <2>2. LegAt(m, n, k).amount \in Nat
    BY <1>2, <1>4, <1>6
  <2>3. Locks(sent'[k], d) = Of(LegAt(m, n, k))
    BY <1>2, <1>6, <2>2, NewLocks
  <2> QED
    BY <2>1, <2>3
<1>7. ASSUME NEW l, Legs(m) = {l}
      PROVE  SumFunctionOnSet(L, New) = Outflow(m, d)
  <2>1. c = 1
    BY <1>7, FS_Singleton
  <2>2. New = {n}
    BY <1>1, <2>1
  <2>3. LegAt(m, n, n) = l
    BY <1>2, <1>7, <2>2
  <2>4. L[n] = Of(l) /\ L[n] \in Int
    BY <1>6, <2>2, <2>3
  <2>5. SumFunctionOnSet(L, New) = Of(l)
    <3> HIDE DEF L, New, Of
    <3> QED BY <2>2, <2>4, SumSingleton
  <2>6. CASE l.denom = d
    <3>1. {k \in Legs(m) : k.denom = d} = {l} /\ l.amount \in Nat
      BY <1>4, <1>7, <2>6
    <3> QED
      BY <2>5, <2>6, <3>1, OutflowOne
  <2>7. CASE l.denom # d
    <3>1. {k \in Legs(m) : k.denom = d} = {}
      BY <1>7, <2>7
    <3> QED
      BY <2>5, <2>7, <3>1, OutflowNone
  <2> QED
    BY <2>6, <2>7
<1>8. CASE Legs(m) = {}
  <2>1. c = 0
    BY <1>8, FS_EmptySet
  <2>2. New = {}
    BY <1>1, <2>1
  <2>3. Outflow(m, d) = 0
    BY <1>8, OutflowNone
  <2>4. SumFunctionOnSet(L, New) = 0
    BY <2>2, SumEmpty, Zenon
  <2> QED
    BY <2>3, <2>4
<1>9. CASE Legs(m) = {x, y}
  <2>1. c = 2
    <3>1. IsFiniteSet({x}) /\ Cardinality({x}) = 1 /\ y \notin {x}
      BY <1>5, FS_Singleton
    <3>2. Cardinality({x} \cup {y}) = Cardinality({x}) + 1
      BY <3>1, FS_AddElement
    <3>3. {x} \cup {y} = {x, y}
      OBVIOUS
    <3>4. Cardinality(Legs(m)) = Cardinality({x} \cup {y})
      BY <1>9, <3>3, Zenon
    <3>5. c = Cardinality({x}) + 1
      BY <3>2, <3>4, Zenon
    <3> QED
      BY <3>1, <3>5
  <2>2. New = {n} \cup {n + 1} /\ n + 1 \notin {n} /\ n \in New /\ n + 1 \in New
    BY <1>1, <2>1
  <2>3. SequenceOf(m, x.leg, n) = n /\ SequenceOf(m, y.leg, n) = n + 1
    BY <1>4, <1>9 DEF SequenceOf
  <2>4. LegAt(m, n, n) = x /\ LegAt(m, n, n + 1) = y
    <3>1. LegAt(m, n, n) \in {x, y} /\ LegAt(m, n, n + 1) \in {x, y}
      BY <1>2, <1>9, <2>2
    <3>2. /\ SequenceOf(m, LegAt(m, n, n).leg, n) = n
          /\ SequenceOf(m, LegAt(m, n, n + 1).leg, n) = n + 1
      BY <1>3, <2>2
    <3>3. n # n + 1
      BY <1>1
    <3> QED
      BY <2>3, <3>1, <3>2, <3>3
  <2>5. L[n] = Of(x) /\ L[n + 1] = Of(y) /\ L[n] \in Int /\ L[n + 1] \in Int
    BY <1>6, <2>2, <2>4
  <2>6. SumFunctionOnSet(L, New) = Of(y) + Of(x)
    <3> HIDE DEF L, New, Of
    <3>1. SumFunctionOnSet(L, {n}) = L[n]
      BY <2>5, SumSingleton
    <3>2. IsFiniteSet({n}) /\ \A z \in {n} \cup {n + 1} : L[z] \in Int
      BY <2>5, FS_Singleton
    <3>3. SumFunctionOnSet(L, {n} \cup {n + 1}) = L[n + 1] + SumFunctionOnSet(L, {n})
      BY <2>2, <3>2, SumAdd
    <3> QED
      BY <2>2, <2>5, <3>1, <3>3
  <2>7. CASE d = "X"
    <3>1. {k \in Legs(m) : k.denom = d} = {x} /\ x.amount \in Nat /\ Of(y) = 0
      BY <1>4, <1>9, <2>7
    <3> QED
      BY <1>4, <2>6, <2>7, <3>1, OutflowOne
  <2>8. CASE d = "Y"
    <3>1. {k \in Legs(m) : k.denom = d} = {y} /\ y.amount \in Nat /\ Of(x) = 0
      BY <1>4, <1>9, <2>8
    <3> QED
      BY <1>4, <2>6, <2>8, <3>1, OutflowOne
  <2> QED
    BY <2>7, <2>8 DEF Denoms
<1> QED
  BY <1>4, <1>7, <1>8, <1>9

\* One packet changes its state and packets that lock nothing are added.
LEMMA LedgerSettles ==
    ASSUME NEW s \in Seq(Packet), NEW t \in Seq(Packet), NEW d, NEW n \in DOMAIN s, NEW New,
           IsFiniteSet(New), DOMAIN t = DOMAIN s \cup New, New \cap DOMAIN s = {},
           \A k \in DOMAIN s : k # n => t[k] = s[k],
           \A k \in New : Locks(t[k], d) = 0
    PROVE  /\ SumFunction(Ledger(t, d)) =
                SumFunction(Ledger(s, d)) - Locks(s[n], d) + Locks(t[n], d)
           /\ SumFunction(Ledger(s, d)) \in Int
           /\ Locks(s[n], d) \in Int /\ Locks(t[n], d) \in Int
<1>1. SumFunction(Ledger(t, d)) =
        SumFunctionOnSet(Ledger(t, d), DOMAIN s) + SumFunctionOnSet(Ledger(t, d), New)
  BY LedgerGrows
<1>2. SumFunctionOnSet(Ledger(t, d), New) = 0
  <2>1. \A k \in New : Ledger(t, d)[k] = 0
    BY LedgerTerms
  <2> QED
    BY <2>1, SumZero
<1>3. /\ SumFunctionOnSet(Ledger(t, d), DOMAIN s) =
            SumFunction(Ledger(s, d)) - Locks(s[n], d) + Locks(t[n], d)
      /\ SumFunction(Ledger(s, d)) \in Int
      /\ Locks(s[n], d) \in Int /\ Locks(t[n], d) \in Int
  BY LedgerChanges
<1> QED
  BY <1>1, <1>2, <1>3

\* Every packet of a sequence of packets is one.
LEMMA PacketAt ==
    ASSUME NEW s \in Seq(Packet), NEW k \in DOMAIN s
    PROVE  /\ s[k] \in Packet
           /\ s[k].denom \in Denoms /\ s[k].amount \in Nat /\ s[k].attempt \in Nat \ {0}
<1>1. s[k] \in Packet
  BY LenProperties, ElementOfSeq
<1> QED
  BY <1>1 DEF Packet

\* While no packet of its denom was sent again, escrow covers a packet in flight.
LEMMA CoveredUnlessRetried ==
    ASSUME sent \in Seq(Packet), EscrowAccounting, NEW n \in DOMAIN sent,
           sent[n].state \in InFlight,
           \A k \in DOMAIN sent : sent[k].denom = sent[n].denom => sent[k].attempt = 1
    PROVE  escrow[sent[n].denom] >= sent[n].amount
<1> DEFINE d == sent[n].denom
           L == Ledger(sent, d)
           S == DOMAIN sent
           R == S \ {n}
<1>1. \A k \in S : sent[k] \in Packet
  BY LenProperties, ElementOfSeq
<1>2. /\ IsFiniteSet(S) /\ DOMAIN L = S
      /\ \A k \in S : L[k] = Locks(sent[k], d) /\ L[k] \in Int
  BY LedgerTerms
<1>3. \A k \in S : L[k] \in Nat
  <2> TAKE k \in S
  <2>1. Locks(sent[k], d) \in Nat
    BY <1>1 DEF Locks, Packet
  <2> QED
    BY <1>2, <2>1
<1>4. L[n] = sent[n].amount /\ sent[n].amount \in Nat
  <2>1. Locks(sent[n], d) = sent[n].amount
    BY <1>1 DEF Locks, Packet, InFlight
  <2> QED
    BY <1>1, <1>2, <2>1 DEF Packet
<1>5. d \in Denoms /\ escrow[d] = SumFunction(L)
  BY <1>1 DEF EscrowAccounting, Packet
<1>6. SumFunction(L) = SumFunctionOnSet(L, S)
  BY <1>2, Zenon DEF SumFunction
<1>7. IsFiniteSet(R) /\ \A k \in R : L[k] \in Nat
  BY <1>2, <1>3, FS_Subset
<1> HIDE DEF L, S
<1>8. SumFunctionOnSet(L, S) = L[n] + SumFunctionOnSet(L, S \ {n})
  BY <1>2, SumRemove DEF S
<1>9. SumFunctionOnSet(L, R) \in Nat
  <2> HIDE DEF R
  <2> QED BY <1>7, SumNat
<1> QED
  BY <1>4, <1>5, <1>6, <1>8, <1>9

\* The end of a packet, with a retry of it or without: escrow gives back what
\* the packet locked, the retry locks nothing, and a refund that fails for want
\* of escrow is of a denom that was sent again before.
LEMMA SettledEscrow ==
    ASSUME sent \in Seq(Packet), escrow \in [Denoms -> Int], EscrowAccounting,
           NEW n \in DOMAIN sent, sent[n].state \in InFlight,
           NEW s \in Settled, s = "unrefunded" => ~CanRefund(n),
           NEW more \in Seq(Packet), Settle(n, s, more),
           \A k \in 1..Len(more) :
               more[k].state # "unrefunded" /\ \A d : Locks(more[k], d) = 0
    PROVE  EscrowAccounting'
<1> DEFINE New == (Len(sent) + 1)..(Len(sent) + Len(more))
<1>1. /\ sent' \in Seq(Packet)
      /\ Len(sent') = Len(sent) + Len(more)
      /\ sent'[n].state = s
  BY SettledSent
<1>2. \A k \in DOMAIN sent :
         /\ k # n => sent'[k] = sent[k]
         /\ sent'[k].attempt = sent[k].attempt
         /\ sent'[k].denom = sent[k].denom /\ sent'[k].amount = sent[k].amount
  BY SettledSent
<1>3. \A k \in 1..Len(more) : sent'[Len(sent) + k] = more[k]
  BY SettledSent
<1>4. /\ Len(sent) \in Nat /\ Len(more) \in Nat /\ DOMAIN sent = 1..Len(sent)
      /\ DOMAIN sent' = 1..(Len(sent) + Len(more))
  BY <1>1, LenProperties
<1>5. DOMAIN sent' = DOMAIN sent \cup New /\ New \cap DOMAIN sent = {} /\ IsFiniteSet(New)
  <2>1. IsFiniteSet(New)
    <3>1. Len(sent) + 1 \in Int /\ Len(sent) + Len(more) \in Int
      BY <1>4
    <3> QED
      BY <3>1, FS_Interval, Zenon
  <2>2. DOMAIN sent' = DOMAIN sent \cup New /\ New \cap DOMAIN sent = {}
    BY <1>4
  <2> QED
    BY <2>1, <2>2
<1>6. ASSUME NEW k \in New
      PROVE  sent'[k].state # "unrefunded" /\ \A d : Locks(sent'[k], d) = 0
  <2>1. k - Len(sent) \in 1..Len(more) /\ Len(sent) + (k - Len(sent)) = k
    BY <1>4
  <2>2. sent'[k] = more[k - Len(sent)]
    BY <1>3, <2>1
  <2> QED
    BY <2>1, <2>2
<1>7. sent[n] \in Packet
  BY <1>4, ElementOfSeq
<1> HIDE DEF New
<1>8. ASSUME NEW d \in Denoms
      PROVE  escrow'[d] = SumFunction(Ledger(sent', d))
  <2>1. \A k \in New : Locks(sent'[k], d) = 0
    BY <1>6
  <2>2. \A k \in DOMAIN sent : k # n => sent'[k] = sent[k]
    BY <1>2
  <2>3. /\ SumFunction(Ledger(sent', d)) =
              SumFunction(Ledger(sent, d)) - Locks(sent[n], d) + Locks(sent'[n], d)
        /\ SumFunction(Ledger(sent, d)) \in Int
        /\ Locks(sent[n], d) \in Int /\ Locks(sent'[n], d) \in Int
    BY <1>1, <1>5, <2>1, <2>2, LedgerSettles
  <2>4. escrow[d] = SumFunction(Ledger(sent, d))
    BY DEF EscrowAccounting
  <2>5. CASE s = "refunded" /\ sent[n].denom = d
    <3>1. Locks(sent'[n], d) = Locks(sent[n], d) - sent[n].amount
      <4>1. /\ sent'[n].denom = d /\ sent'[n].amount = sent[n].amount
            /\ sent'[n].attempt = sent[n].attempt /\ sent'[n].state = "refunded"
        BY <1>1, <1>2, <2>5
      <4>2. sent[n].state # "refunded" /\ sent[n].amount \in Nat
        BY <1>7 DEF Packet, InFlight
      <4> QED
        BY <2>5, <4>1, <4>2 DEF Locks
    <3>2. escrow'[d] = escrow[d] - sent[n].amount
      BY <1>7, <2>5 DEF Settle, Add, Packet
    <3>3. sent[n].amount \in Nat
      BY <1>7 DEF Packet
    <3> QED
      BY <2>3, <2>4, <3>1, <3>2, <3>3
  <2>6. CASE ~(s = "refunded" /\ sent[n].denom = d)
    <3>1. Locks(sent'[n], d) = Locks(sent[n], d)
      BY <1>1, <1>2, <1>7, <2>6 DEF Locks, Packet, InFlight
    <3>2. escrow'[d] = escrow[d]
      BY <1>7, <2>6 DEF Settle, Add, Packet
    <3> QED
      BY <2>3, <2>4, <3>1, <3>2
  <2> QED
    BY <2>5, <2>6
<1>9. ASSUME NEW k \in DOMAIN sent', sent'[k].state = "unrefunded"
      PROVE  \E j \in DOMAIN sent' : sent'[j].denom = sent'[k].denom /\ sent'[j].attempt > 1
  <2>1. k \in DOMAIN sent
    BY <1>5, <1>6, <1>9
  <2>2. PICK j \in DOMAIN sent : sent[j].denom = sent[k].denom /\ sent[j].attempt > 1
    <3>1. CASE k # n
      BY <1>2, <1>9, <2>1, <3>1 DEF EscrowAccounting
    <3>2. CASE k = n
      <4>1. ~CanRefund(n)
        BY <1>1, <1>9, <3>2
      <4>2. ~(escrow[sent[n].denom] >= sent[n].amount)
        BY <4>1 DEF CanRefund
      <4>3. \E j \in DOMAIN sent : sent[j].denom = sent[n].denom /\ sent[j].attempt # 1
        BY <4>2, CoveredUnlessRetried
      <4>4. \A j \in DOMAIN sent : sent[j].attempt \in Nat \ {0}
        BY PacketAt
      <4> QED
        BY <3>2, <4>3, <4>4
    <3> QED
      BY <3>1, <3>2
  <2> QED
    BY <1>2, <1>5, <2>1, <2>2
<1> QED
  BY <1>8, <1>9 DEF EscrowAccounting

\* Packets sent for what is put into escrow keep the accounts in order.
LEMMA SentEscrow ==
    ASSUME sent \in Seq(Packet), sent' \in Seq(Packet), EscrowAccounting, NEW New,
           DOMAIN sent' = DOMAIN sent \cup New, New \cap DOMAIN sent = {},
           \A k \in DOMAIN sent : sent'[k] = sent[k],
           \A k \in New : sent'[k].state = "sent",
           \A d \in Denoms : escrow'[d] = escrow[d] + SumFunctionOnSet(Ledger(sent', d), New)
    PROVE  EscrowAccounting'
<1>1. ASSUME NEW d \in Denoms
      PROVE  escrow'[d] = SumFunction(Ledger(sent', d))
  <2>1. SumFunction(Ledger(sent', d)) =
          SumFunctionOnSet(Ledger(sent', d), DOMAIN sent) + SumFunctionOnSet(Ledger(sent', d), New)
    BY LedgerGrows
  <2>2. SumFunctionOnSet(Ledger(sent', d), DOMAIN sent) = SumFunction(Ledger(sent, d))
    <3>1. DOMAIN sent \subseteq DOMAIN sent'
      OBVIOUS
    <3> QED BY <3>1, LedgerStays
  <2>3. escrow[d] = SumFunction(Ledger(sent, d))
    BY DEF EscrowAccounting
  <2> QED
    BY <2>1, <2>2, <2>3
<1>2. ASSUME NEW k \in DOMAIN sent', sent'[k].state = "unrefunded"
      PROVE  \E j \in DOMAIN sent' : sent'[j].denom = sent'[k].denom /\ sent'[j].attempt > 1
  BY <1>2 DEF EscrowAccounting
<1> QED
  BY <1>1, <1>2 DEF EscrowAccounting

\* A swap puts into escrow what its legs lock.
LEMMA RecvSwapEscrow ==
    ASSUME sent \in Seq(Packet), EscrowAccounting,
           NEW p \in InPackets, NEW m \in Memos, OnRecvSwap(p, m)
    PROVE  EscrowAccounting'
<1> DEFINE n == Len(sent) + 1
           c == Cardinality(Legs(m))
           New == n..(Len(sent) + c)
<1>1. n = Len(sent) + 1 /\ c = Cardinality(Legs(m))
  OBVIOUS
<1> HIDE DEF n, c
<1>2. /\ sent' \in Seq(Packet) /\ DOMAIN sent' = DOMAIN sent \cup New /\ New \cap DOMAIN sent = {}
      /\ \A k \in DOMAIN sent : sent'[k] = sent[k]
  BY <1>1, SwapSends
<1>3. ASSUME NEW k \in New PROVE sent'[k].state = "sent"
  <2>1. sent'[k] = NewPacket(LegAt(m, n, k).denom, LegAt(m, n, k).amount,
                             LegAt(m, n, k).retries, 1)
    BY <1>1, <1>3, SwapSends
  <2> QED
    BY <2>1 DEF NewPacket
<1>4. ASSUME NEW d \in Denoms
      PROVE  escrow'[d] = escrow[d] + SumFunctionOnSet(Ledger(sent', d), New)
  <2>1. SumFunctionOnSet(Ledger(sent', d), New) = Outflow(m, d)
    BY <1>1, SwapLocks
  <2>2. escrow'[d] = escrow[d] + Outflow(m, d)
    BY DEF OnRecvSwap
  <2> QED
    BY <2>1, <2>2
<1> HIDE DEF New
<1> QED
  BY <1>2, <1>3, <1>4, SentEscrow

\* A user's transfer puts into escrow what it sends.
LEMMA TransferEscrow ==
    ASSUME sent \in Seq(Packet), escrow \in [Denoms -> Int], EscrowAccounting,
           NEW d \in Denoms, Transfer(d)
    PROVE  EscrowAccounting'
<1> DEFINE new == NewPacket(d, 1, 0, 1)
           n == Len(sent) + 1
<1>1. new \in Packet /\ new.state = "sent"
  BY DEF NewPacket, Packet, InFlight
<1>2. sent' = Append(sent, new)
  BY DEF Transfer
<1> HIDE DEF new
<1>3. /\ sent' \in Seq(Packet) /\ Len(sent') = n
      /\ \A k \in 1..Len(sent) : sent'[k] = sent[k]
      /\ sent'[n] = new
  BY <1>1, <1>2, AppendProperties
<1>4. /\ DOMAIN sent = 1..Len(sent) /\ Len(sent) \in Nat
      /\ DOMAIN sent' = DOMAIN sent \cup {n} /\ {n} \cap DOMAIN sent = {}
  BY <1>3, LenProperties
<1> HIDE DEF n
<1>5. ASSUME NEW x \in Denoms
      PROVE  escrow'[x] = escrow[x] + SumFunctionOnSet(Ledger(sent', x), {n})
  <2>1. Ledger(sent', x)[n] = Locks(new, x) /\ Ledger(sent', x)[n] \in Int
    <3>1. n \in DOMAIN sent'
      BY <1>4
    <3> QED
      BY <1>3, <3>1, LedgerTerms
  <2>2. Locks(new, x) = IF d = x THEN 1 ELSE 0
    BY NewLocks DEF new
  <2>3. SumFunctionOnSet(Ledger(sent', x), {n}) = IF d = x THEN 1 ELSE 0
    BY <2>1, <2>2, SumSingleton
  <2>4. escrow'[x] = escrow[x] + (IF d = x THEN 1 ELSE 0)
    BY DEF Transfer, Add
  <2> QED
    BY <2>3, <2>4
<1>6. \A k \in DOMAIN sent : sent'[k] = sent[k]
  BY <1>3, <1>4
<1>7. \A k \in {n} : sent'[k].state = "sent"
  BY <1>1, <1>3
<1> QED
  BY <1>3, <1>4, <1>5, <1>6, <1>7, SentEscrow

\* What happens on the other chain moves no money here.
LEMMA CounterpartyEscrow ==
    ASSUME sent \in Seq(Packet), EscrowAccounting,
           NEW n \in DOMAIN sent, NEW s \in {"ok", "error", "expired"}, Counterparty(n, s)
    PROVE  EscrowAccounting'
<1>1. /\ sent' = [sent EXCEPT ![n].state = s] /\ s \in InFlight \cup Settled
      /\ s # "refunded" /\ s # "unrefunded" /\ sent[n].state = "sent" /\ escrow' = escrow
  BY DEF Counterparty, InFlight
<1>2. /\ sent' \in Seq(Packet) /\ Len(sent') = Len(sent) /\ sent'[n].state = s
      /\ \A k \in DOMAIN sent : k # n => sent'[k] = sent[k]
  BY <1>1, StateChanged
<1>3. \A k \in DOMAIN sent : /\ sent'[k].attempt = sent[k].attempt
                             /\ sent'[k].denom = sent[k].denom
                             /\ sent'[k].amount = sent[k].amount
  BY <1>1, StateChanged
<1>4. DOMAIN sent' = DOMAIN sent
  BY <1>2, LenProperties
<1>5. ASSUME NEW d \in Denoms
      PROVE  escrow'[d] = SumFunction(Ledger(sent', d))
  <2>1. /\ IsFiniteSet({}) /\ DOMAIN sent' = DOMAIN sent \cup {} /\ {} \cap DOMAIN sent = {}
        /\ \A k \in {} : Locks(sent'[k], d) = 0
    BY <1>4, FS_EmptySet
  <2>2. /\ SumFunction(Ledger(sent', d)) =
              SumFunction(Ledger(sent, d)) - Locks(sent[n], d) + Locks(sent'[n], d)
        /\ SumFunction(Ledger(sent, d)) \in Int /\ Locks(sent[n], d) \in Int
    BY <1>2, <2>1, LedgerSettles
  <2>3. Locks(sent'[n], d) = Locks(sent[n], d)
    <3>1. /\ sent'[n].state # "refunded" /\ sent[n].state # "refunded"
          /\ sent'[n].attempt = sent[n].attempt
          /\ sent'[n].denom = sent[n].denom /\ sent'[n].amount = sent[n].amount
      BY <1>1, <1>2, <1>3
    <3> QED
      BY <3>1, Zenon DEF Locks
  <2>4. escrow[d] = SumFunction(Ledger(sent, d))
    BY DEF EscrowAccounting
  <2> QED
    BY <1>1, <2>2, <2>3, <2>4
<1>6. ASSUME NEW k \in DOMAIN sent', sent'[k].state = "unrefunded"
      PROVE  \E j \in DOMAIN sent' : sent'[j].denom = sent'[k].denom /\ sent'[j].attempt > 1
  <2>1. k # n /\ sent'[k] = sent[k]
    BY <1>1, <1>2, <1>4, <1>6
  <2>2. PICK j \in DOMAIN sent : sent[j].denom = sent[k].denom /\ sent[j].attempt > 1
    BY <1>4, <1>6, <2>1 DEF EscrowAccounting
  <2> QED
    BY <1>3, <1>4, <2>1, <2>2
<1> QED
  BY <1>5, <1>6 DEF EscrowAccounting

\* The accounts start in order: nothing sent, or the two legs of an imported
\* packet and one token locked for each.
LEMMA EscrowInit == Init => EscrowAccounting
<1> SUFFICES ASSUME Init PROVE EscrowAccounting
  OBVIOUS
<1>1. CASE InitFresh
  <2>1. sent = <<>> /\ DOMAIN sent = {} /\ \A d \in Denoms : escrow[d] = 0
    BY <1>1 DEF InitFresh
  <2>2. \A d : DOMAIN Ledger(sent, d) = {}
    BY <2>1 DEF Ledger
  <2>3. \A d : SumFunction(Ledger(sent, d)) = 0
    BY <2>2, SumEmpty, Zenon DEF SumFunction
  <2> QED
    BY <2>1, <2>3 DEF EscrowAccounting
<1>2. ASSUME NEW p \in Imported, NEW r \in RetryCounts, InitImported(p, r)
      PROVE  EscrowAccounting
  <2> DEFINE x == NewPacket("X", 1, r, 1)
             y == NewPacket("Y", 1, r, 1)
  <2>1. sent = <<x, y>> /\ \A d \in Denoms : escrow[d] = 1
    BY <1>2 DEF InitImported
  <2>2. x.state = "sent" /\ y.state = "sent"
    BY DEF NewPacket
  <2>3. /\ \A d : Locks(x, d) = IF "X" = d THEN 1 ELSE 0
        /\ \A d : Locks(y, d) = IF "Y" = d THEN 1 ELSE 0
    BY NewLocks
  <2> HIDE DEF x, y
  <2>4. DOMAIN sent = {1} \cup {2} /\ sent[1] = x /\ sent[2] = y
    BY <2>1
  <2>5. ASSUME NEW d \in Denoms
        PROVE  SumFunction(Ledger(sent, d)) = 1
    <3> DEFINE L == Ledger(sent, d)
    <3>1. /\ DOMAIN L = {1} \cup {2}
          /\ L[1] = (IF "X" = d THEN 1 ELSE 0) /\ L[2] = (IF "Y" = d THEN 1 ELSE 0)
      BY <2>3, <2>4 DEF Ledger
    <3> HIDE DEF L
    <3>2. SumFunctionOnSet(L, {1}) = L[1]
      BY <3>1, SumSingleton
    <3>3. IsFiniteSet({1}) /\ 2 \notin {1} /\ \A z \in {1} \cup {2} : L[z] \in Int
      <4>1. IsFiniteSet({1})
        BY FS_Singleton, Zenon
      <4>2. 2 \notin {1} /\ L[1] \in Int /\ L[2] \in Int
        BY <3>1
      <4> QED
        BY <4>1, <4>2
    <3>4. SumFunctionOnSet(L, {1} \cup {2}) = L[2] + SumFunctionOnSet(L, {1})
      BY <3>3, SumAdd
    <3>5. SumFunction(L) = SumFunctionOnSet(L, {1} \cup {2})
      BY <3>1, Zenon DEF SumFunction
    <3>6. L[2] + L[1] = 1
      BY <3>1 DEF Denoms
    <3>7. SumFunction(L) = 1
      BY <3>2, <3>4, <3>5, <3>6
    <3> QED
      BY <3>7 DEF L
  <2> QED
    BY <2>1, <2>2, <2>4, <2>5 DEF EscrowAccounting
<1> QED
  BY <1>1, <1>2 DEF Init

-----------------------------------------------------------------------------
(***************************************************************************)
(* Balances, and the theorems about money                                  *)
(***************************************************************************)

\* What of the types does not follow from the invariant about records.
Balances ==
    /\ received \subseteq InPackets
    /\ \A p \in DOMAIN acks : acks[p] \in {"error", "result"}
    /\ Len(sent) <= MaxSends
    /\ receiver \in [Denoms -> Nat] /\ module \in [Denoms -> Nat]
    /\ escrow \in [Denoms -> Int]

\* Adding to the entry of a denom.
LEMMA AddTyped ==
    /\ \A d \in Denoms, x \in Nat : \A f \in [Denoms -> Nat] : Add(f, d, x) \in [Denoms -> Nat]
    /\ \A d \in Denoms, x \in Int : \A f \in [Denoms -> Int] : Add(f, d, x) \in [Denoms -> Int]
BY DEF Add

\* ShouldDeleteCompletedWaitingPacket writes success only.
LEMMA CompletionAcks ==
    ASSUME NEW p, NEW w, ShouldDeleteCompletedWaitingPacket(p, w),
           \A q \in DOMAIN acks : acks[q] \in {"error", "result"}
    PROVE  \A q \in DOMAIN acks' : acks'[q] \in {"error", "result"}
BY DEF ShouldDeleteCompletedWaitingPacket, Assign

\* The end of a packet keeps the balances, when the bound leaves room for more.
LEMMA SettledBalances ==
    ASSUME sent \in Seq(Packet), Balances, NEW n \in DOMAIN sent, NEW s \in Settled,
           NEW more \in Seq(Packet), Settle(n, s, more), Len(sent) + Len(more) <= MaxSends,
           \A p \in DOMAIN acks' : acks'[p] \in {"error", "result"}
    PROVE  Balances'
<1>1. Len(sent') = Len(sent) + Len(more)
  BY SettledSent
<1>2. sent[n].denom \in Denoms /\ sent[n].amount \in Nat /\ -sent[n].amount \in Int
  BY PacketAt
<1>3. received' = received /\ module' = module
  BY DEF Settle
<1>4. receiver' \in [Denoms -> Nat] /\ escrow' \in [Denoms -> Int]
  <2>1. CASE s = "refunded"
    <3>1. /\ receiver' = Add(receiver, sent[n].denom, sent[n].amount)
          /\ escrow' = Add(escrow, sent[n].denom, -sent[n].amount)
      BY <2>1 DEF Settle
    <3> QED
      BY <1>2, <3>1, AddTyped DEF Balances
  <2>2. CASE s # "refunded"
    BY <2>2 DEF Settle, Balances
  <2> QED
    BY <2>1, <2>2
<1> QED
  BY <1>1, <1>3, <1>4 DEF Balances

\* A swap pays the receiver before it sends from the receiver's account, and
\* sends no change that is not there.
LEMMA RecvSwapBalances ==
    ASSUME sent \in Seq(Packet), Balances,
           NEW p \in InPackets, NEW m \in Memos, OnRecvSwap(p, m)
    PROVE  Balances'
<1> DEFINE n == Len(sent) + 1
           c == Cardinality(Legs(m))
<1>1. n = Len(sent) + 1 /\ c = Cardinality(Legs(m))
  OBVIOUS
<1> HIDE DEF n, c
<1>2. Len(sent') = Len(sent) + c
  BY <1>1, SwapSends
<1>3. received' \subseteq InPackets /\ Len(sent') <= MaxSends
  BY <1>1, <1>2 DEF OnRecvSwap, CanSend, Balances
<1>4. \A q \in DOMAIN acks' : acks'[q] \in {"error", "result"}
  BY DEF OnRecvSwap, Balances, Assign
<1>5. module' \in [Denoms -> Nat]
  <2>1. Remainder(m) \in Nat
    BY SwapAssumption DEF Memos, Remainder
  <2>2. "X" \in Denoms
    BY DEF Denoms
  <2>3. module' = Add(module, "X", Remainder(m))
    BY DEF OnRecvSwap
  <2> QED
    BY <2>1, <2>2, <2>3, AddTyped DEF Balances
<1>6. \A d \in Denoms : Outflow(m, d) \in Nat
  BY OutflowBounds
<1>7. escrow' \in [Denoms -> Int]
  <2>1. escrow' = [d \in Denoms |-> escrow[d] + Outflow(m, d)]
    BY DEF OnRecvSwap
  <2> QED
    BY <1>6, <2>1 DEF Balances
<1>8. receiver' \in [Denoms -> Nat]
  <2>1. receiver' = [d \in Denoms |->
                       receiver[d] + (IF d = "Y" THEN 1 ELSE 0) - Outflow(m, d)]
    BY DEF OnRecvSwap
  <2>2. receiver["X"] >= Outflow(m, "X")
    <3>1. CASE Outflow(m, "X") = 0
      BY <3>1 DEF Balances, Denoms
    <3>2. CASE \E l \in Legs(m) : l.leg = "change" /\ Outflow(m, "X") = l.amount
      BY <3>2 DEF OnRecvSwap, CanSend
    <3> QED
      BY <3>1, <3>2, OutflowBounds
  <2>3. Outflow(m, "Y") <= 1
    BY OutflowBounds
  <2> QED
    BY <1>6, <2>1, <2>2, <2>3 DEF Balances, Denoms
<1> QED
  BY <1>3, <1>4, <1>5, <1>7, <1>8 DEF Balances

\* The balances at the start.
LEMMA BalancesInit == Init => Balances
<1> SUFFICES ASSUME Init PROVE Balances
  OBVIOUS
<1>1. /\ \A p \in DOMAIN acks : acks[p] \in {"error", "result"}
      /\ receiver \in [Denoms -> Nat] /\ module \in [Denoms -> Nat]
  BY SwapAssumption DEF Init
<1>2. CASE InitFresh
  <2>1. received = {} /\ Len(sent) = 0 /\ escrow = [d \in Denoms |-> 0]
    BY <1>2 DEF InitFresh
  <2> QED
    BY <1>1, <2>1, SwapAssumption DEF Balances
<1>3. ASSUME NEW p \in Imported, NEW r \in RetryCounts, InitImported(p, r)
      PROVE  Balances
  <2>1. received = {p} /\ Len(sent) = 2 /\ escrow = [d \in Denoms |-> 1]
    BY <1>3 DEF InitImported
  <2>2. p \in InPackets /\ MaxSends >= 2
    BY SwapAssumption
  <2> QED
    BY <1>1, <2>1, <2>2 DEF Balances
<1> QED
  BY <1>2, <1>3 DEF Init

\* The inductive invariant for money.  That escrow accounts for the packets
\* needs the types of the packets and balances, and the latter the records.
MInv == IInv /\ Balances /\ EscrowAccounting

\* An acknowledgement keeps balances and escrow in order, also where the
\* middleware goes on after a refund that failed.
LEMMA AcknowledgementMoney ==
    ASSUME MInv, NEW n \in DOMAIN sent, OnAcknowledgementPacket(n)
    PROVE  Balances' /\ EscrowAccounting'
<1> DEFINE none == <<>>
<1>1. PICK s \in Settled : /\ Settle(n, s, none)
                           /\ s = "unrefunded" => ~CanRefund(n)
  BY DEF OnAcknowledgementPacket, Settled
<1>2. sent \in Seq(Packet) /\ sent[n].state \in InFlight
  BY DEF OnAcknowledgementPacket, MInv, IInv, SentWF, InFlight
<1>3. none \in Seq(Packet) /\ Len(none) = 0 /\ 1..Len(none) = {}
  BY EmptySeq
<1> HIDE DEF none
<1>4. \A p \in DOMAIN acks' : acks'[p] \in {"error", "result"}
  BY CompletionAcks DEF MInv, Balances, OnAcknowledgementPacket, OnAcknowledgementOutgoingInFlightPacket
<1>5. escrow \in [Denoms -> Int] /\ Len(sent) <= MaxSends /\ Len(sent) \in Nat
  BY <1>2, LenProperties DEF MInv, Balances
<1>6. Balances'
  <2>1. Len(sent) + Len(none) <= MaxSends
    BY <1>3, <1>5
  <2> QED
    BY <1>1, <1>2, <1>3, <1>4, <2>1, SettledBalances DEF MInv
<1>7. EscrowAccounting'
  <2>1. \A k \in 1..Len(none) : none[k].state # "unrefunded" /\ \A d : Locks(none[k], d) = 0
    BY <1>3
  <2>2. /\ none \in Seq(Packet) /\ Settle(n, s, none) /\ EscrowAccounting
        /\ s = "unrefunded" => ~CanRefund(n)
    BY <1>1, <1>3 DEF MInv
  <2> QED
    BY <1>2, <1>5, <2>1, <2>2, SettledEscrow
<1> QED
  BY <1>6, <1>7

\* A timeout refunds; the retry locks nothing, since its amount was refunded.
LEMMA TimeoutMoney ==
    ASSUME MInv, NEW n \in DOMAIN sent, OnTimeoutPacket(n)
    PROVE  Balances' /\ EscrowAccounting'
<1>1. /\ sent \in Seq(Packet) /\ sent[n].state \in InFlight /\ escrow \in [Denoms -> Int]
      /\ Len(sent) <= MaxSends /\ Len(sent) \in Nat /\ "refunded" \in Settled
      /\ "refunded" # "unrefunded"
  BY LenProperties DEF OnTimeoutPacket, MInv, IInv, SentWF, Balances, InFlight, Settled
<1>2. ASSUME NEW more \in Seq(Packet), Settle(n, "refunded", more),
             Len(sent) + Len(more) <= MaxSends,
             \A k \in 1..Len(more) :
                 more[k].state # "unrefunded" /\ \A d : Locks(more[k], d) = 0,
             \A p \in DOMAIN acks' : acks'[p] \in {"error", "result"}
      PROVE  Balances' /\ EscrowAccounting'
  <2>1. Balances'
    BY <1>1, <1>2, SettledBalances DEF MInv
  <2>2. EscrowAccounting'
    BY <1>1, <1>2, SettledEscrow DEF MInv
  <2> QED
    BY <2>1, <2>2
<1> DEFINE none == <<>>
           again == <<Resent(n)>>
<1>3. none \in Seq(Packet) /\ Len(none) = 0 /\ 1..Len(none) = {}
  BY EmptySeq
<1>4. /\ Resent(n) \in Packet /\ Resent(n).state = "sent"
      /\ \A d : Locks(Resent(n), d) = 0
  <2>1. sent[n] \in Packet
    BY <1>1, PacketAt
  <2> QED
    BY <2>1 DEF Resent, NewPacket, Locks, Packet, InFlight
<1>5. again \in Seq(Packet) /\ Len(again) = 1 /\ again[1] = Resent(n) /\ 1..Len(again) = {1}
  BY <1>4
<1>6. \/ n \in DOMAIN outgoing /\ Resend(n) /\ Settle(n, "refunded", again)
      \/ n \in DOMAIN outgoing /\ GiveUp(n) /\ Settle(n, "refunded", none)
      \/ Settle(n, "refunded", none) /\ UNCHANGED <<outgoing, waiting, acks>>
  BY DEF OnTimeoutPacket
<1> HIDE DEF none, again
<1>7. CASE Resend(n) /\ Settle(n, "refunded", again)
  <2>1. \A p \in DOMAIN acks' : acks'[p] \in {"error", "result"}
    BY <1>7 DEF Resend, MInv, Balances
  <2>2. Len(sent) + Len(again) <= MaxSends
    BY <1>1, <1>5, <1>7, SwapAssumption DEF Resend
  <2>3. \A k \in 1..Len(again) : again[k].state # "unrefunded" /\ \A d : Locks(again[k], d) = 0
    BY <1>4, <1>5
  <2> QED
    BY <1>2, <1>5, <1>7, <2>1, <2>2, <2>3
<1>8. CASE Settle(n, "refunded", none) /\ (GiveUp(n) \/ UNCHANGED <<outgoing, waiting, acks>>)
  <2>1. \A p \in DOMAIN acks' : acks'[p] \in {"error", "result"}
    BY <1>8, CompletionAcks DEF GiveUp, MInv, Balances
  <2>2. Len(sent) + Len(none) <= MaxSends
    BY <1>1, <1>3
  <2>3. \A k \in 1..Len(none) : none[k].state # "unrefunded" /\ \A d : Locks(none[k], d) = 0
    BY <1>3
  <2> QED
    BY <1>2, <1>3, <1>8, <2>1, <2>2, <2>3
<1> QED
  BY <1>6, <1>7, <1>8

\* Every transaction keeps balances and escrow in order.
LEMMA MoneyInductive == MInv /\ [Next]_vars => MInv'
<1> SUFFICES ASSUME MInv, [Next]_vars
             PROVE  Balances' /\ EscrowAccounting'
  BY RecordsInductive DEF MInv
<1>1. sent \in Seq(Packet)
  BY DEF MInv, IInv, SentWF
<1>2. ASSUME NEW p \in InPackets, OnRecvTransfer(p) \/ OnRecvError(p)
      PROVE  Balances' /\ EscrowAccounting'
  <2>1. receiver' = receiver \/ receiver' = Add(receiver, "X", AmountIn)
    BY <1>2 DEF OnRecvTransfer, OnRecvError
  <2>2. "X" \in Denoms /\ AmountIn \in Nat
    BY SwapAssumption DEF Denoms
  <2>3. receiver' \in [Denoms -> Nat]
    BY <2>1, <2>2, AddTyped DEF MInv, Balances
  <2>4. \A q \in DOMAIN acks' : acks'[q] \in {"error", "result"}
    BY <1>2 DEF OnRecvTransfer, OnRecvError, Assign, MInv, Balances
  <2>5. received' = received \cup {p} /\ sent' = sent /\ module' = module /\ escrow' = escrow
    BY <1>2 DEF OnRecvTransfer, OnRecvError
  <2>6. Balances'
    BY <2>3, <2>4, <2>5 DEF MInv, Balances
  <2>7. EscrowAccounting'
    BY <2>5 DEF MInv, EscrowAccounting
  <2> QED
    BY <2>6, <2>7
<1>3. ASSUME NEW p \in InPackets, NEW m \in Memos, OnRecvSwap(p, m)
      PROVE  Balances' /\ EscrowAccounting'
  BY <1>1, <1>3, RecvSwapBalances, RecvSwapEscrow DEF MInv
<1>4. ASSUME NEW d \in Denoms, Transfer(d)
      PROVE  Balances' /\ EscrowAccounting'
  <2>1. EscrowAccounting'
    BY <1>1, <1>4, TransferEscrow DEF MInv, Balances
  <2>2. Len(sent') = Len(sent) + 1 /\ Len(sent) \in Nat /\ Len(sent) < MaxSends
    BY <1>1, <1>4, AppendProperties, LenProperties DEF Transfer
  <2>3. receiver' \in [Denoms -> Nat] /\ escrow' \in [Denoms -> Int]
    BY <1>4 DEF Transfer, Add, MInv, Balances
  <2>4. received' = received /\ acks' = acks /\ module' = module
    BY <1>4 DEF Transfer
  <2> QED
    BY <2>1, <2>2, <2>3, <2>4, SwapAssumption DEF MInv, Balances
<1>5. ASSUME NEW n \in DOMAIN sent, NEW s \in {"ok", "error", "expired"}, Counterparty(n, s)
      PROVE  Balances' /\ EscrowAccounting'
  <2>1. EscrowAccounting'
    BY <1>1, <1>5, CounterpartyEscrow DEF MInv
  <2>2. /\ sent' = [sent EXCEPT ![n].state = s] /\ s \in InFlight \cup Settled
        /\ UNCHANGED <<received, acks, receiver, module, escrow>>
    BY <1>5 DEF Counterparty, InFlight
  <2>3. Len(sent') = Len(sent)
    BY <1>1, <2>2, StateChanged
  <2> QED
    BY <2>1, <2>2, <2>3 DEF MInv, Balances
<1>6. ASSUME NEW n \in DOMAIN sent, OnAcknowledgementPacket(n)
      PROVE  Balances' /\ EscrowAccounting'
  BY <1>6, AcknowledgementMoney
<1>7. ASSUME NEW n \in DOMAIN sent, OnTimeoutPacket(n)
      PROVE  Balances' /\ EscrowAccounting'
  BY <1>7, TimeoutMoney
<1>8. CASE UNCHANGED vars
  BY <1>8 DEF vars, MInv, Balances, EscrowAccounting
<1> QED
  BY <1>2, <1>3, <1>4, <1>5, <1>6, <1>7, <1>8 DEF Next

LEMMA MoneyAlways == Spec => []MInv
<1>1. Init => MInv
  BY RecordsInit, BalancesInit, EscrowInit DEF MInv
<1> QED
  BY <1>1, MoneyInductive, PTL DEF Spec

\* Whatever swaps, transfers, acknowledgements, timeouts and retries come in
\* whatever order, escrow holds what was sent and not refunded, less one amount
\* for every retry; and the middleware ignores the failure of a refund only
\* when a packet of that denom was sent again before.
THEOREM EscrowExact == Spec => []EscrowAccounting
<1>1. MInv => EscrowAccounting
  BY DEF MInv
<1> QED
  BY <1>1, MoneyAlways, PTL

\* The stores keep their types and no balance is overdrawn: the change is never
\* sent without the funds, and what a waiting packet waits for was sent.
THEOREM TypesCorrect == Spec => []TypeOK
<1>1. MInv => TypeOK
  <2> SUFFICES ASSUME MInv PROVE TypeOK
    OBVIOUS
  <2>1. \A p \in DOMAIN waiting : waiting[p].change \cup waiting[p].forward \subseteq DOMAIN sent
    BY DEF MInv, IInv, SentWF
  <2>2. /\ DOMAIN outgoing \subseteq DOMAIN sent
        /\ \A n \in DOMAIN outgoing : outgoing[n].in \in received /\ outgoing[n].retries \in Nat
    BY DEF MInv, IInv, SentWF
  <2>3. received \subseteq InPackets /\ received = DOMAIN acks \cup DOMAIN waiting
    BY DEF MInv, IInv, AckedOrWaiting, Balances
  <2>4. sent \in Seq(Packet) /\ Len(sent) <= MaxSends
    BY DEF MInv, IInv, SentWF, Balances
  <2> QED
    BY <2>1, <2>2, <2>3, <2>4 DEF MInv, Balances, TypeOK
<1> QED
  BY <1>1, MoneyAlways, PTL

=============================================================================
