----------------------------- MODULE FlowProofs -----------------------------
(***************************************************************************)
(* For captures of every length and content: what a flow is said to be is  *)
(* what its packets show, and reading on takes nothing back.  The fold is  *)
(* followed one packet at a time.  Each accumulator is related to the set  *)
(* S of the ids of the packets of its flow in the capture g, and the       *)
(* packet n that follows them changes the two alike.                       *)
(***************************************************************************)
EXTENDS FlowAnalysis, FiniteSetTheorems, SequenceTheorems, TLAPS

-----------------------------------------------------------------------------
\* A set of packets that are known, and a packet that comes after them.

Known(g, S) == S \subseteq Nat /\ \A i \in S : g[i] \in PacketRecord /\ g[i].id = i

Follows(g, S, n) == /\ Known(g, S \cup {n})
                    /\ \A i \in S : i < n

\* The least and the greatest of a set of ids, or None.
Earliest(x, S) == IF x = None THEN S = {} ELSE x \in S /\ \A j \in S : x <= j
Newest(x, S) == IF x = None THEN S = {} ELSE x \in S /\ \A j \in S : j <= x

\* What the segments of a TCP flow show of its connection.

Segments(g, S) == \A i \in S : g[i].tcp \in TcpPacketData

Syns(g, S) == {i \in S : IsSyn(g[i].tcp.flags)}
Resets(g, S) == {i \in S : "RST" \in g[i].tcp.flags}
Fins(g, S) == {i \in S : "FIN" \in g[i].tcp.flags}

Repeats(g, S, syn) ==
    {i \in Syns(g, S) : syn # None /\ syn < i /\ Direction(g[i]) = Direction(g[syn])}

Answers(g, S, syn) ==
    {i \in S : /\ syn # None /\ syn < i /\ IsSynAck(g[i].tcp.flags)
               /\ Direction(g[i]) # Direction(g[syn])}

Acks(g, S, syn, answer) ==
    {i \in S : /\ answer # None /\ answer < i /\ "ACK" \in g[i].tcp.flags
               /\ Direction(g[i]) = Direction(g[syn])}

Opening(g, S, tcp) ==
    /\ Earliest(tcp.first_syn, Syns(g, S))
    /\ tcp.first_syn = None => tcp.first_syn_direction = None
    /\ tcp.first_syn # None =>
          /\ tcp.first_syn_direction = Direction(g[tcp.first_syn])
          /\ tcp.first_syn_timestamp = g[tcp.first_syn].ts
    /\ tcp.first_syn = None => tcp.first_syn_timestamp = None
    /\ tcp.repeated_syn = None <=> Repeats(g, S, tcp.first_syn) = {}
    /\ tcp.repeated_syn # None =>
          /\ tcp.repeated_syn.first = tcp.first_syn
          /\ Earliest(tcp.repeated_syn.second, Repeats(g, S, tcp.first_syn))

Completion(g, S, tcp) ==
    /\ Earliest(tcp.syn_ack, Answers(g, S, tcp.first_syn))
    /\ Earliest(tcp.established_ack, Acks(g, S, tcp.first_syn, tcp.syn_ack))
    /\ tcp.established_ack_timestamp =
          IF tcp.established_ack = None THEN None ELSE g[tcp.established_ack].ts

Teardown(g, S, tcp) ==
    /\ Newest(tcp.reset, Resets(g, S))
    /\ Earliest(tcp.fin_first, Fins(g, S))
    /\ Earliest(tcp.fin_last, Fins(g, S) \ {tcp.fin_first})

\* What the numbers of its segments show, in each direction.

Sequenced(g, S, d) == {i \in S : Direction(g[i]) = d /\ g[i].tcp.sequence # None}
Acknowledged(g, S, d) == {i \in S : Direction(g[i]) = d /\ g[i].tcp.acknowledgment # None}

Again(g, S, d) ==
    {x \in Neighbours(Sequenced(g, S, d)) : g[x[1]].tcp.sequence = g[x[2]].tcp.sequence}
Behind(g, S, d) ==
    {x \in Neighbours(Sequenced(g, S, d)) : g[x[2]].tcp.sequence < g[x[1]].tcp.sequence}
Duplicate(g, S, d) ==
    {x \in Neighbours(Acknowledged(g, S, d)) :
        /\ g[x[1]].tcp.acknowledgment = g[x[2]].tcp.acknowledgment
        /\ "ACK" \in g[x[2]].tcp.flags}

Indicates(g, indicator, pairs) ==
    IF indicator = None THEN pairs = {}
    ELSE /\ FirstPairs(pairs) = {<<indicator.first, indicator.second>>}
         /\ indicator.direction = Direction(g[indicator.second])

LastNumbers(g, S, tcp, d) ==
    /\ Newest(tcp.side[d].last_sequence_packet, Sequenced(g, S, d))
    /\ tcp.side[d].last_sequence =
          IF tcp.side[d].last_sequence_packet = None THEN None
          ELSE g[tcp.side[d].last_sequence_packet].tcp.sequence
    /\ Newest(tcp.side[d].last_ack_packet, Acknowledged(g, S, d))
    /\ tcp.side[d].last_ack =
          IF tcp.side[d].last_ack_packet = None THEN None
          ELSE g[tcp.side[d].last_ack_packet].tcp.acknowledgment
    /\ IsFiniteSet(Again(g, S, d))
    /\ tcp.side[d].retransmission_sequence_count = Cardinality(Again(g, S, d))

Numbers(g, S, tcp) ==
    /\ LastNumbers(g, S, tcp, "AToB")
    /\ LastNumbers(g, S, tcp, "BToA")
    /\ Indicates(g, tcp.retransmission, Again(g, S, "AToB") \cup Again(g, S, "BToA"))
    /\ Indicates(g, tcp.out_of_order, Behind(g, S, "AToB") \cup Behind(g, S, "BToA"))
    /\ Indicates(g, tcp.duplicate_ack, Duplicate(g, S, "AToB") \cup Duplicate(g, S, "BToA"))

\* What its messages show of the DNS transactions.

TransactionOf(g, S, t) ==
    {i \in S : /\ g[i].dns # None /\ g[i].dns.id = t
               /\ g[i].dns.is_response \/ g[i].dns.asks}
TimedOf(g, S, t) == {i \in TransactionOf(g, S, t) : g[i].ts # None}

Unanswered(g, x, M) ==
    IF x = None THEN M = {} \/ \E m \in M : g[m].dns.is_response /\ \A j \in M : j <= m
    ELSE x \in M /\ ~g[x].dns.is_response /\ \A j \in M : j <= x

Answered(g, S, r) ==
    {q \in TransactionOf(g, S, g[r].dns.id) :
        /\ q < r /\ ~g[q].dns.is_response
        /\ Adjacent(TransactionOf(g, S, g[r].dns.id), q, r)}

Errors(g, S) == {i \in S : g[i].dns # None /\ g[i].dns.is_response /\ g[i].dns.failed}

ErrorPair(g, S, r) ==
    IF Answered(g, S, r) = {} THEN [first |-> r, second |-> None]
    ELSE [first |-> Latest(Answered(g, S, r)), second |-> r]

Transactions(g, S, flow) ==
    /\ \A t \in TransactionIds : Unanswered(g, flow.dns_queries[t], TransactionOf(g, S, t))
    /\ flow.dns_error_responses = {ErrorPair(g, S, r) : r \in Errors(g, S)}

\* q is the first of M since the response before it, and none has answered it.
Awaits(g, M, q) ==
    /\ q \in M /\ ~g[q].dns.is_response
    /\ \A m \in M : m < q => \E r \in M : m <= r /\ r < q /\ g[r].dns.is_response
    /\ \A m \in M : q < m => ~g[m].dns.is_response

Measured(g, M) ==
    {x \in M \X M :
        /\ x[1] < x[2] /\ ~g[x[1]].dns.is_response /\ g[x[2]].dns.is_response
        /\ \A m \in M : x[1] < m /\ m < x[2] => ~g[m].dns.is_response
        /\ \A m \in M : m < x[1] =>
              \E r \in M : m <= r /\ r < x[1] /\ g[r].dns.is_response}

MeasuredPairs(g, S) == UNION {Measured(g, TimedOf(g, S, t)) : t \in TransactionIds}

Latencies(g, S) ==
    {Duration(g[x[1]].ts, g[x[2]].ts) : x \in MeasuredPairs(g, S)} \ {None}

\* Since when the transaction M waits for an answer, if it does.
Waits(g, start, M) ==
    IF start = None THEN \A m \in M : \E r \in M : m <= r /\ g[r].dns.is_response
    ELSE \E q \in M : Awaits(g, M, q) /\ start = g[q].ts

Clocks(g, S, flow) ==
    /\ \A t \in TransactionIds : Waits(g, flow.first_dns_query[t], TimedOf(g, S, t))
    /\ Earliest(flow.dns_response_latency, Latencies(g, S))

\* What a flow counts, times and lists.

FromB(g, S) == {i \in S : Direction(g[i]) = "BToA"}

Counts(g, S, flow) ==
    /\ IsFiniteSet(S)
    /\ flow.packets.packets_from_b = Cardinality(FromB(g, S))
    /\ flow.packets.packets_from_a = Cardinality(S \ FromB(g, S))
    /\ Earliest(flow.packets.first_packet, S)
    /\ flow.truncation_seen <=> \E i \in S : g[i].truncated

Times(g, S) == {g[i].ts : i \in S} \ {None}

Span(g, S, flow) ==
    /\ Times(g, S) = {} => /\ flow.packets.first_timestamp = None
                           /\ flow.packets.last_timestamp = None
    /\ Times(g, S) # {} => /\ flow.packets.first_timestamp \in Times(g, S)
                           /\ flow.packets.last_timestamp \in Times(g, S)
    /\ \A t \in Times(g, S) : /\ ~Before(t, flow.packets.first_timestamp)
                              /\ ~Before(flow.packets.last_timestamp, t)

Lists(g, S, messages) ==
    /\ \A n \in DOMAIN messages : /\ messages[n].packet \in S
                                  /\ messages[n].direction = Direction(g[messages[n].packet])
    /\ \A i \in S : \E n \in DOMAIN messages : messages[n].packet = i
    /\ \A n \in DOMAIN messages : \A m \in 1 .. n - 1 :
          messages[m].packet < messages[n].packet

\* What a flow shows of its connection: a TCP flow has one, no other has.
ConnectionShows(g, S, tcp) ==
    /\ tcp = None => \A i \in S : g[i].tcp = None
    /\ tcp # None => /\ S # {}
                     /\ Segments(g, S)
                     /\ Opening(g, S, tcp)
                     /\ Completion(g, S, tcp)
                     /\ Teardown(g, S, tcp)
                     /\ Numbers(g, S, tcp)

\* All of it.
FlowShows(g, S, flow) ==
    /\ flow \in Flows
    /\ ConnectionShows(g, S, flow.tcp)
    /\ Transactions(g, S, flow)
    /\ Clocks(g, S, flow)
    /\ Counts(g, S, flow)
    /\ Span(g, S, flow)
    /\ Lists(g, S, flow.messages)

PacketsOf(h, k) == {i \in DOMAIN h : HasFlow(h[i]) /\ FlowKey(h[i]) = k}

\* The captures that h may become: what its packets show is shown in all.
Continues(g, h) == /\ g \in Seq(PacketRecord)
                   /\ DOMAIN h \subseteq DOMAIN g
                   /\ \A i \in DOMAIN h : g[i] = h[i]

Histories(h, fs) ==
    /\ DOMAIN fs = {FlowKey(h[i]) : i \in {i \in DOMAIN h : HasFlow(h[i])}}
    /\ \A g : Continues(g, h) =>
          \A k \in DOMAIN fs : FlowShows(g, PacketsOf(h, k), fs[k])

\* What a packet of a flow is.
Consistent(p) == p.protocol # None => (p.protocol = "Tcp" <=> p.tcp # None)

Captured(h) ==
    /\ h \in Seq(PacketRecord)
    /\ \A i \in DOMAIN h : h[i].id = i /\ Consistent(h[i])

Inv ==
    /\ input \in DOMAIN Captures
    /\ Captured(capture)
    /\ Histories(capture, flows)
-----------------------------------------------------------------------------
\* What one segment changes, field by field.

\* A slot that is filled holds what a slot may hold.
LEMMA OnceTyped ==
    ASSUME NEW T, NEW x \in Optional(T), NEW c, NEW v, c => v \in Optional(T)
    PROVE  Once(x, c, v) \in Optional(T)
BY DEF Once, Optional

\* Two states of a connection that agree on one of its matters.

SameOpening(a, b) ==
    /\ a.first_syn = b.first_syn /\ a.first_syn_direction = b.first_syn_direction
    /\ a.first_syn_timestamp = b.first_syn_timestamp /\ a.repeated_syn = b.repeated_syn

SameCompletion(a, b) ==
    /\ a.syn_ack = b.syn_ack /\ a.established_ack = b.established_ack
    /\ a.established_ack_timestamp = b.established_ack_timestamp

SameTeardown(a, b) ==
    a.reset = b.reset /\ a.fin_first = b.fin_first /\ a.fin_last = b.fin_last

SameNumbers(a, b) ==
    /\ a.side = b.side /\ a.retransmission = b.retransmission
    /\ a.out_of_order = b.out_of_order /\ a.duplicate_ack = b.duplicate_ack

\* What a segment is compared with on its side.

IsSequenced(p, d) == d # "Unknown" /\ p.tcp.sequence # None
SameSequence(tcp, p, d) == tcp.side[d].last_sequence = p.tcp.sequence
LowerSequence(tcp, p, d) ==
    tcp.side[d].last_sequence # None /\ p.tcp.sequence < tcp.side[d].last_sequence
SequencePair(tcp, p, d) == Indicator(d, tcp.side[d].last_sequence_packet, p.id)

SequencedSide(tcp, p, d) ==
    [tcp.side[d] EXCEPT
       !.retransmission_sequence_count =
           tcp.side[d].retransmission_sequence_count + IF SameSequence(tcp, p, d) THEN 1 ELSE 0,
       !.last_sequence = p.tcp.sequence,
       !.last_sequence_packet = p.id]

\* The sequence number changes its own side and the first indicators.
LEMMA SequenceNoted ==
    ASSUME NEW tcp \in TcpFlowAccumulators, NEW p, p.id \in Nat,
           p.tcp \in TcpPacketData, NEW d \in FlowDirection,
           NEW a, a = NoteSequence(tcp, p, d)
    PROVE  /\ a \in TcpFlowAccumulators
           /\ SameOpening(a, tcp) /\ SameCompletion(a, tcp) /\ SameTeardown(a, tcp)
           /\ a.duplicate_ack = tcp.duplicate_ack
           /\ a.retransmission =
                Once(tcp.retransmission, IsSequenced(p, d) /\ SameSequence(tcp, p, d),
                     SequencePair(tcp, p, d))
           /\ a.out_of_order =
                Once(tcp.out_of_order, IsSequenced(p, d) /\ LowerSequence(tcp, p, d),
                     SequencePair(tcp, p, d))
           /\ \A e \in {"AToB", "BToA"} :
                a.side[e] = IF IsSequenced(p, d) /\ e = d THEN SequencedSide(tcp, p, d)
                            ELSE tcp.side[e]
<1>1. CASE ~IsSequenced(p, d)
  <2>1. a = tcp
    BY <1>1 DEF NoteSequence, IsSequenced
  <2> QED BY <1>1, <2>1 DEF Once, SameOpening, SameCompletion, SameTeardown
<1>2. CASE IsSequenced(p, d)
  <2>1. d \in {"AToB", "BToA"} /\ p.tcp.sequence \in Nat
    BY <1>2 DEF FlowDirection, TcpPacketData, Optional, IsSequenced
  <2>2. tcp.side[d] \in TcpDirectionAccumulators
    BY <2>1 DEF TcpFlowAccumulators
  <2>3. SequencedSide(tcp, p, d) \in TcpDirectionAccumulators
    <3>1. tcp.side[d].retransmission_sequence_count + (IF SameSequence(tcp, p, d) THEN 1 ELSE 0)
              \in Nat
      BY <2>2 DEF TcpDirectionAccumulators
    <3> QED BY <2>1, <2>2, <3>1 DEF SequencedSide, TcpDirectionAccumulators, Optional
  <2>4. a = [tcp EXCEPT !.retransmission = Once(@, SameSequence(tcp, p, d), SequencePair(tcp, p, d)),
                        !.out_of_order = Once(@, LowerSequence(tcp, p, d), SequencePair(tcp, p, d)),
                        !.side[d] = SequencedSide(tcp, p, d)]
    BY <1>2 DEF NoteSequence, SequencedSide, SameSequence, LowerSequence, SequencePair, IsSequenced
  <2>5. SequencePair(tcp, p, d) \in TcpDirectionalIndicator
    BY <2>2 DEF TcpDirectionalIndicator, Indicator, SequencePair, TcpDirectionAccumulators
  <2>6. /\ Once(tcp.retransmission, SameSequence(tcp, p, d), SequencePair(tcp, p, d))
              \in Optional(TcpDirectionalIndicator)
        /\ Once(tcp.out_of_order, LowerSequence(tcp, p, d), SequencePair(tcp, p, d))
              \in Optional(TcpDirectionalIndicator)
    BY <2>5 DEF Once, Optional, TcpFlowAccumulators
  <2>7. [tcp.side EXCEPT ![d] = SequencedSide(tcp, p, d)]
              \in [{"AToB", "BToA"} -> TcpDirectionAccumulators]
    BY <2>1, <2>3 DEF TcpFlowAccumulators
  <2>8. a \in TcpFlowAccumulators
    BY <2>4, <2>6, <2>7 DEF TcpFlowAccumulators
  <2>9. /\ a.side = [tcp.side EXCEPT ![d] = SequencedSide(tcp, p, d)]
        /\ SameOpening(a, tcp) /\ SameCompletion(a, tcp) /\ SameTeardown(a, tcp)
        /\ a.duplicate_ack = tcp.duplicate_ack
        /\ a.retransmission = Once(tcp.retransmission, SameSequence(tcp, p, d), SequencePair(tcp, p, d))
        /\ a.out_of_order = Once(tcp.out_of_order, LowerSequence(tcp, p, d), SequencePair(tcp, p, d))
    BY <2>4 DEF TcpFlowAccumulators, SameOpening, SameCompletion, SameTeardown
  <2>10. \A e \in {"AToB", "BToA"} :
            a.side[e] = IF e = d THEN SequencedSide(tcp, p, d) ELSE tcp.side[e]
    BY <2>9, <2>1 DEF TcpFlowAccumulators
  <2> QED BY <1>2, <2>8, <2>9, <2>10 DEF Once
<1> QED BY <1>1, <1>2

\* What an acknowledgment is compared with on its side.

IsAcknowledged(p, d) == d # "Unknown" /\ p.tcp.acknowledgment # None
SameAck(tcp, p, d) ==
    tcp.side[d].last_ack = p.tcp.acknowledgment /\ "ACK" \in p.tcp.flags
AckPair(tcp, p, d) == Indicator(d, tcp.side[d].last_ack_packet, p.id)

AcknowledgedSide(tcp, p, d) ==
    [tcp.side[d] EXCEPT !.last_ack = p.tcp.acknowledgment, !.last_ack_packet = p.id]

\* The acknowledgment number changes its own side and the first indicator.
LEMMA AcknowledgmentNoted ==
    ASSUME NEW tcp \in TcpFlowAccumulators, NEW p, p.id \in Nat,
           p.tcp \in TcpPacketData, NEW d \in FlowDirection,
           NEW a, a = NoteAcknowledgment(tcp, p, d)
    PROVE  /\ a \in TcpFlowAccumulators
           /\ SameOpening(a, tcp) /\ SameCompletion(a, tcp) /\ SameTeardown(a, tcp)
           /\ a.retransmission = tcp.retransmission /\ a.out_of_order = tcp.out_of_order
           /\ a.duplicate_ack =
                Once(tcp.duplicate_ack, IsAcknowledged(p, d) /\ SameAck(tcp, p, d),
                     AckPair(tcp, p, d))
           /\ \A e \in {"AToB", "BToA"} :
                a.side[e] = IF IsAcknowledged(p, d) /\ e = d THEN AcknowledgedSide(tcp, p, d)
                            ELSE tcp.side[e]
<1>1. CASE ~IsAcknowledged(p, d)
  <2>1. a = tcp
    BY <1>1 DEF NoteAcknowledgment, IsAcknowledged
  <2> QED BY <1>1, <2>1 DEF Once, SameOpening, SameCompletion, SameTeardown
<1>2. CASE IsAcknowledged(p, d)
  <2>1. d \in {"AToB", "BToA"} /\ p.tcp.acknowledgment \in Nat
    BY <1>2 DEF FlowDirection, TcpPacketData, Optional, IsAcknowledged
  <2>2. tcp.side[d] \in TcpDirectionAccumulators
    BY <2>1 DEF TcpFlowAccumulators
  <2>3. AcknowledgedSide(tcp, p, d) \in TcpDirectionAccumulators
    BY <2>1, <2>2 DEF AcknowledgedSide, TcpDirectionAccumulators, Optional
  <2>4. a = [tcp EXCEPT !.duplicate_ack = Once(@, SameAck(tcp, p, d), AckPair(tcp, p, d)),
                        !.side[d] = AcknowledgedSide(tcp, p, d)]
    BY <1>2 DEF NoteAcknowledgment, AcknowledgedSide, SameAck, AckPair, IsAcknowledged
  <2>5. AckPair(tcp, p, d) \in TcpDirectionalIndicator
    BY <2>2 DEF TcpDirectionalIndicator, Indicator, AckPair, TcpDirectionAccumulators
  <2>6. Once(tcp.duplicate_ack, SameAck(tcp, p, d), AckPair(tcp, p, d))
              \in Optional(TcpDirectionalIndicator)
    BY <2>5 DEF Once, Optional, TcpFlowAccumulators
  <2>7. [tcp.side EXCEPT ![d] = AcknowledgedSide(tcp, p, d)]
              \in [{"AToB", "BToA"} -> TcpDirectionAccumulators]
    BY <2>1, <2>3 DEF TcpFlowAccumulators
  <2>8. a \in TcpFlowAccumulators
    BY <2>4, <2>6, <2>7 DEF TcpFlowAccumulators
  <2>9. /\ a.side = [tcp.side EXCEPT ![d] = AcknowledgedSide(tcp, p, d)]
        /\ SameOpening(a, tcp) /\ SameCompletion(a, tcp) /\ SameTeardown(a, tcp)
        /\ a.retransmission = tcp.retransmission /\ a.out_of_order = tcp.out_of_order
        /\ a.duplicate_ack = Once(tcp.duplicate_ack, SameAck(tcp, p, d), AckPair(tcp, p, d))
    BY <2>4 DEF TcpFlowAccumulators, SameOpening, SameCompletion, SameTeardown
  <2>10. \A e \in {"AToB", "BToA"} :
            a.side[e] = IF e = d THEN AcknowledgedSide(tcp, p, d) ELSE tcp.side[e]
    BY <2>9, <2>1 DEF TcpFlowAccumulators
  <2> QED BY <1>2, <2>8, <2>9, <2>10 DEF Once
<1> QED BY <1>1, <1>2

\* A segment as the connection takes it in.
Taken(p, d) == p.id \in Nat /\ p.ts \in Optional(CaptureTimestamp)
               /\ p.tcp \in TcpPacketData /\ d \in FlowDirection

\* The first SYN and one that repeats it.
SynPair(tcp, p) == [first |-> tcp.first_syn, second |-> p.id]

\* A SYN changes the opening alone.
LEMMA SynNoted ==
    ASSUME NEW tcp \in TcpFlowAccumulators, NEW p, NEW d, Taken(p, d),
           NEW a, a = NoteSyn(tcp, p, d)
    PROVE  /\ a \in TcpFlowAccumulators
           /\ SameCompletion(a, tcp) /\ SameTeardown(a, tcp) /\ SameNumbers(a, tcp)
           /\ a.first_syn = Once(tcp.first_syn, IsSyn(p.tcp.flags), p.id)
           /\ a.first_syn_direction = Once(tcp.first_syn_direction, IsSyn(p.tcp.flags), d)
           /\ a.first_syn_timestamp =
                Once(tcp.first_syn_timestamp, IsSyn(p.tcp.flags) /\ tcp.first_syn = None, p.ts)
           /\ a.repeated_syn = None <=>
                /\ tcp.repeated_syn = None
                /\ ~(IsSyn(p.tcp.flags) /\ tcp.first_syn # None /\ tcp.first_syn_direction = d)
           /\ a.repeated_syn =
                Once(tcp.repeated_syn,
                     IsSyn(p.tcp.flags) /\ tcp.first_syn # None /\ tcp.first_syn_direction = d,
                     SynPair(tcp, p))
<1> DEFINE syn == IsSyn(p.tcp.flags)
           repeated == syn /\ tcp.first_syn # None /\ tcp.first_syn_direction = d
           pair == [first |-> tcp.first_syn, second |-> p.id]
<1>1. a = [tcp EXCEPT
             !.first_syn = Once(tcp.first_syn, syn, p.id),
             !.first_syn_direction = Once(tcp.first_syn_direction, syn, d),
             !.first_syn_timestamp =
                 Once(tcp.first_syn_timestamp, syn /\ tcp.first_syn = None, p.ts),
             !.repeated_syn = Once(tcp.repeated_syn, repeated, pair)]
  BY DEF NoteSyn
<1>2. /\ Once(tcp.first_syn, syn, p.id) \in Optional(Nat)
      /\ Once(tcp.first_syn_direction, syn, d) \in Optional(FlowDirection)
      /\ Once(tcp.first_syn_timestamp, syn /\ tcp.first_syn = None, p.ts)
            \in Optional(CaptureTimestamp)
  BY DEF Once, Optional, TcpFlowAccumulators, Taken
<1>3. repeated => pair \in PacketPairEvidence /\ pair # None
  BY NoneAssumption DEF TcpFlowAccumulators, Taken, Optional, PacketPairEvidence
<1>4. /\ Once(tcp.repeated_syn, repeated, pair) \in Optional(PacketPairEvidence)
      /\ Once(tcp.repeated_syn, repeated, pair) = None <=> tcp.repeated_syn = None /\ ~repeated
  BY <1>3 DEF Once, Optional, TcpFlowAccumulators
<1> HIDE DEF syn, repeated, pair
<1>5. a \in TcpFlowAccumulators
  BY <1>1, <1>2, <1>4, ZenonT(40) DEF TcpFlowAccumulators
<1>6. /\ a.first_syn = Once(tcp.first_syn, syn, p.id)
      /\ a.first_syn_direction = Once(tcp.first_syn_direction, syn, d)
      /\ a.first_syn_timestamp =
            Once(tcp.first_syn_timestamp, syn /\ tcp.first_syn = None, p.ts)
      /\ a.repeated_syn = Once(tcp.repeated_syn, repeated, pair)
      /\ SameCompletion(a, tcp) /\ SameTeardown(a, tcp) /\ SameNumbers(a, tcp)
  BY <1>1 DEF TcpFlowAccumulators, SameCompletion, SameTeardown, SameNumbers
<1> USE DEF syn, repeated, pair
<1> QED BY <1>4, <1>5, <1>6 DEF SynPair

\* The rest of the handshake changes its completion alone.
LEMMA HandshakeNoted ==
    ASSUME NEW tcp \in TcpFlowAccumulators, NEW p, NEW d, Taken(p, d),
           NEW a, a = NoteHandshake(tcp, p, d)
    PROVE  /\ a \in TcpFlowAccumulators
           /\ SameOpening(a, tcp) /\ SameTeardown(a, tcp) /\ SameNumbers(a, tcp)
           /\ a.syn_ack =
                Once(tcp.syn_ack, /\ IsSynAck(p.tcp.flags) /\ tcp.first_syn # None
                                  /\ d # tcp.first_syn_direction, p.id)
           /\ a.established_ack =
                Once(tcp.established_ack, /\ "ACK" \in p.tcp.flags /\ tcp.syn_ack # None
                                          /\ d = tcp.first_syn_direction, p.id)
           /\ a.established_ack_timestamp =
                Once(tcp.established_ack_timestamp,
                     /\ "ACK" \in p.tcp.flags /\ tcp.syn_ack # None
                     /\ d = tcp.first_syn_direction /\ tcp.established_ack = None, p.ts)
<1> DEFINE answers == /\ IsSynAck(p.tcp.flags) /\ tcp.first_syn # None
                      /\ d # tcp.first_syn_direction
           completes == /\ "ACK" \in p.tcp.flags /\ tcp.syn_ack # None
                        /\ d = tcp.first_syn_direction
<1>1. a = [tcp EXCEPT
             !.syn_ack = Once(tcp.syn_ack, answers, p.id),
             !.established_ack = Once(tcp.established_ack, completes, p.id),
             !.established_ack_timestamp =
                 Once(tcp.established_ack_timestamp,
                      completes /\ tcp.established_ack = None, p.ts)]
  BY DEF NoteHandshake
<1>2. /\ Once(tcp.syn_ack, answers, p.id) \in Optional(Nat)
      /\ Once(tcp.established_ack, completes, p.id) \in Optional(Nat)
      /\ Once(tcp.established_ack_timestamp, completes /\ tcp.established_ack = None, p.ts)
            \in Optional(CaptureTimestamp)
  BY DEF Once, Optional, TcpFlowAccumulators, Taken
<1> HIDE DEF answers, completes
<1>3. a \in TcpFlowAccumulators
  BY <1>1, <1>2 DEF TcpFlowAccumulators
<1>4. /\ a.syn_ack = Once(tcp.syn_ack, answers, p.id)
      /\ a.established_ack = Once(tcp.established_ack, completes, p.id)
      /\ a.established_ack_timestamp =
            Once(tcp.established_ack_timestamp, completes /\ tcp.established_ack = None, p.ts)
      /\ SameOpening(a, tcp) /\ SameTeardown(a, tcp) /\ SameNumbers(a, tcp)
  BY <1>1 DEF TcpFlowAccumulators, SameOpening, SameTeardown, SameNumbers
<1> QED BY <1>3, <1>4 DEF Once, answers, completes

\* The teardown changes itself alone, and the time of the first data.
LEMMA TeardownNoted ==
    ASSUME NEW tcp \in TcpFlowAccumulators, NEW p, NEW d, Taken(p, d),
           NEW a, a = NoteDataAndTeardown(tcp, p, d)
    PROVE  /\ a \in TcpFlowAccumulators
           /\ SameOpening(a, tcp) /\ SameCompletion(a, tcp) /\ SameNumbers(a, tcp)
           /\ a.reset = IF "RST" \in p.tcp.flags THEN p.id ELSE tcp.reset
           /\ a.fin_first = Once(tcp.fin_first, "FIN" \in p.tcp.flags, p.id)
           /\ a.fin_last =
                Once(tcp.fin_last, "FIN" \in p.tcp.flags /\ tcp.fin_first # None, p.id)
<1> DEFINE data == Once(tcp.first_data_timestamp,
                        p.tcp.sequence # None /\ p.tcp.flags = {}, p.ts)
           reset == IF "RST" \in p.tcp.flags THEN p.id ELSE tcp.reset
           first == Once(tcp.fin_first, "FIN" \in p.tcp.flags, p.id)
           last == Once(tcp.fin_last, "FIN" \in p.tcp.flags /\ tcp.fin_first # None, p.id)
<1>1. a = [tcp EXCEPT !.first_data_timestamp = data, !.reset = reset,
                      !.fin_first = first, !.fin_last = last]
  BY DEF NoteDataAndTeardown
<1>2. /\ data \in Optional(CaptureTimestamp) /\ reset \in Optional(Nat)
      /\ first \in Optional(Nat) /\ last \in Optional(Nat)
  BY DEF Once, Optional, TcpFlowAccumulators, Taken
<1> HIDE DEF data, reset, first, last
<1>3. a \in TcpFlowAccumulators
  BY <1>1, <1>2, ZenonT(40) DEF TcpFlowAccumulators
<1>4. /\ a.reset = reset /\ a.fin_first = first /\ a.fin_last = last
      /\ SameOpening(a, tcp) /\ SameCompletion(a, tcp) /\ SameNumbers(a, tcp)
  BY <1>1 DEF TcpFlowAccumulators, SameOpening, SameCompletion, SameNumbers
<1> QED BY <1>3, <1>4 DEF reset, first, last

\* A segment changes each matter of a connection in its own way.

Effect(tcp, p, d, a) ==
    /\ a \in TcpFlowAccumulators
    /\ a.first_syn = Once(tcp.first_syn, IsSyn(p.tcp.flags), p.id)
    /\ a.first_syn_direction = Once(tcp.first_syn_direction, IsSyn(p.tcp.flags), d)
    /\ a.first_syn_timestamp =
         Once(tcp.first_syn_timestamp, IsSyn(p.tcp.flags) /\ tcp.first_syn = None, p.ts)
    /\ a.repeated_syn = None <=>
         /\ tcp.repeated_syn = None
         /\ ~(IsSyn(p.tcp.flags) /\ tcp.first_syn # None /\ tcp.first_syn_direction = d)
    /\ a.repeated_syn =
         Once(tcp.repeated_syn,
              IsSyn(p.tcp.flags) /\ tcp.first_syn # None /\ tcp.first_syn_direction = d,
              SynPair(tcp, p))
    /\ a.syn_ack =
         Once(tcp.syn_ack, /\ IsSynAck(p.tcp.flags) /\ a.first_syn # None
                           /\ d # a.first_syn_direction, p.id)
    /\ a.established_ack =
         Once(tcp.established_ack, /\ "ACK" \in p.tcp.flags /\ tcp.syn_ack # None
                                   /\ d = a.first_syn_direction, p.id)
    /\ a.established_ack_timestamp =
         Once(tcp.established_ack_timestamp,
              /\ "ACK" \in p.tcp.flags /\ tcp.syn_ack # None
              /\ d = a.first_syn_direction /\ tcp.established_ack = None, p.ts)
    /\ a.reset = IF "RST" \in p.tcp.flags THEN p.id ELSE tcp.reset
    /\ a.fin_first = Once(tcp.fin_first, "FIN" \in p.tcp.flags, p.id)
    /\ a.fin_last =
         Once(tcp.fin_last, "FIN" \in p.tcp.flags /\ tcp.fin_first # None, p.id)
    /\ SameNumbers(a, NoteAcknowledgment(NoteSequence(tcp, p, d), p, d))

\* All of it together.
LEMMA SegmentApplied ==
    ASSUME NEW tcp \in TcpFlowAccumulators, NEW p, NEW d, Taken(p, d),
           NEW a, a = ApplyTcpPacketToFlow(tcp, p, d)
    PROVE  Effect(tcp, p, d, a)
<1> DEFINE sequenced == NoteSequence(tcp, p, d)
           acknowledged == NoteAcknowledgment(sequenced, p, d)
           opened == NoteSyn(acknowledged, p, d)
           completed == NoteHandshake(opened, p, d)
<1>1. a = NoteDataAndTeardown(completed, p, d)
  BY DEF ApplyTcpPacketToFlow
<1>2. /\ sequenced \in TcpFlowAccumulators
      /\ SameOpening(sequenced, tcp) /\ SameCompletion(sequenced, tcp)
      /\ SameTeardown(sequenced, tcp)
  BY SequenceNoted DEF Taken
<1>3. /\ acknowledged \in TcpFlowAccumulators
      /\ SameOpening(acknowledged, sequenced) /\ SameCompletion(acknowledged, sequenced)
      /\ SameTeardown(acknowledged, sequenced)
  BY <1>2, AcknowledgmentNoted DEF Taken
<1> HIDE DEF acknowledged
<1>4. /\ opened \in TcpFlowAccumulators
      /\ SameCompletion(opened, acknowledged) /\ SameTeardown(opened, acknowledged)
      /\ SameNumbers(opened, acknowledged)
      /\ opened.first_syn = Once(acknowledged.first_syn, IsSyn(p.tcp.flags), p.id)
      /\ opened.first_syn_direction =
            Once(acknowledged.first_syn_direction, IsSyn(p.tcp.flags), d)
      /\ opened.first_syn_timestamp =
            Once(acknowledged.first_syn_timestamp,
                 IsSyn(p.tcp.flags) /\ acknowledged.first_syn = None, p.ts)
      /\ opened.repeated_syn = None <=>
            /\ acknowledged.repeated_syn = None
            /\ ~(/\ IsSyn(p.tcp.flags) /\ acknowledged.first_syn # None
                 /\ acknowledged.first_syn_direction = d)
      /\ opened.repeated_syn =
            Once(acknowledged.repeated_syn,
                 IsSyn(p.tcp.flags) /\ acknowledged.first_syn # None
                    /\ acknowledged.first_syn_direction = d,
                 SynPair(acknowledged, p))
  BY <1>3, SynNoted
<1> HIDE DEF opened
<1>5. /\ completed \in TcpFlowAccumulators
      /\ SameOpening(completed, opened) /\ SameTeardown(completed, opened)
      /\ SameNumbers(completed, opened)
      /\ completed.syn_ack =
           Once(opened.syn_ack, /\ IsSynAck(p.tcp.flags) /\ opened.first_syn # None
                                /\ d # opened.first_syn_direction, p.id)
      /\ completed.established_ack =
           Once(opened.established_ack, /\ "ACK" \in p.tcp.flags /\ opened.syn_ack # None
                                        /\ d = opened.first_syn_direction, p.id)
      /\ completed.established_ack_timestamp =
           Once(opened.established_ack_timestamp,
                /\ "ACK" \in p.tcp.flags /\ opened.syn_ack # None
                /\ d = opened.first_syn_direction /\ opened.established_ack = None, p.ts)
  BY <1>4, HandshakeNoted DEF Once
<1> HIDE DEF completed
<1>6. /\ a \in TcpFlowAccumulators
      /\ SameOpening(a, completed) /\ SameCompletion(a, completed) /\ SameNumbers(a, completed)
      /\ a.reset = IF "RST" \in p.tcp.flags THEN p.id ELSE completed.reset
      /\ a.fin_first = Once(completed.fin_first, "FIN" \in p.tcp.flags, p.id)
      /\ a.fin_last =
           Once(completed.fin_last, "FIN" \in p.tcp.flags /\ completed.fin_first # None, p.id)
  BY <1>1, <1>5, TeardownNoted
<1>7. SameOpening(acknowledged, tcp) /\ SameCompletion(opened, tcp) /\ SameTeardown(completed, tcp)
  BY <1>2, <1>3, <1>4, <1>5 DEF SameOpening, SameCompletion, SameTeardown
<1>8. SameOpening(a, opened) /\ SameCompletion(a, completed) /\ SameNumbers(a, acknowledged)
  BY <1>4, <1>5, <1>6 DEF SameOpening, SameCompletion, SameNumbers
<1>9. a.first_syn = opened.first_syn /\ a.first_syn_direction = opened.first_syn_direction
  BY <1>8 DEF SameOpening
<1>10. /\ a.first_syn = Once(tcp.first_syn, IsSyn(p.tcp.flags), p.id)
       /\ a.first_syn_direction = Once(tcp.first_syn_direction, IsSyn(p.tcp.flags), d)
       /\ a.first_syn_timestamp =
            Once(tcp.first_syn_timestamp, IsSyn(p.tcp.flags) /\ tcp.first_syn = None, p.ts)
       /\ a.repeated_syn = None <=>
            /\ tcp.repeated_syn = None
            /\ ~(IsSyn(p.tcp.flags) /\ tcp.first_syn # None /\ tcp.first_syn_direction = d)
       /\ a.repeated_syn =
            Once(tcp.repeated_syn,
                 IsSyn(p.tcp.flags) /\ tcp.first_syn # None /\ tcp.first_syn_direction = d,
                 SynPair(tcp, p))
  BY <1>4, <1>7, <1>8 DEF SameOpening, SynPair
<1>11. /\ a.syn_ack =
            Once(tcp.syn_ack, /\ IsSynAck(p.tcp.flags) /\ a.first_syn # None
                              /\ d # a.first_syn_direction, p.id)
       /\ a.established_ack =
            Once(tcp.established_ack, /\ "ACK" \in p.tcp.flags /\ tcp.syn_ack # None
                                      /\ d = a.first_syn_direction, p.id)
       /\ a.established_ack_timestamp =
            Once(tcp.established_ack_timestamp,
                 /\ "ACK" \in p.tcp.flags /\ tcp.syn_ack # None
                 /\ d = a.first_syn_direction /\ tcp.established_ack = None, p.ts)
  BY <1>5, <1>7, <1>8, <1>9 DEF SameCompletion
<1>12. /\ a.reset = IF "RST" \in p.tcp.flags THEN p.id ELSE tcp.reset
       /\ a.fin_first = Once(tcp.fin_first, "FIN" \in p.tcp.flags, p.id)
       /\ a.fin_last =
            Once(tcp.fin_last, "FIN" \in p.tcp.flags /\ tcp.fin_first # None, p.id)
  BY <1>6, <1>7 DEF SameTeardown
<1>13. SameNumbers(a, NoteAcknowledgment(NoteSequence(tcp, p, d), p, d))
  BY <1>8 DEF acknowledged
<1> QED BY <1>6, <1>10, <1>11, <1>12, <1>13 DEF Effect
-----------------------------------------------------------------------------
\* The first and the last of a set of ids that grows at its end.

\* A slot that keeps the first value follows the earliest of a set.
LEMMA EarliestGrows ==
    ASSUME NEW S, NEW x, Earliest(x, S), S \subseteq Nat,
           NEW n \in Nat, \A i \in S : i < n,
           NEW c \in BOOLEAN
    PROVE  Earliest(Once(x, c, n), IF c THEN S \cup {n} ELSE S)
<1>1. n # None
  BY NoneAssumption
<1>2. CASE c
  <2>1. CASE x = None
    BY <1>1, <1>2, <2>1 DEF Earliest, Once
  <2>2. CASE x # None
    <3>1. x \in S /\ \A j \in S : x <= j
      BY <2>2 DEF Earliest
    <3>3. x <= n
      BY <3>1
    <3>2. Once(x, c, n) = x
      BY <2>2 DEF Once
    <3> QED BY <1>2, <2>2, <3>1, <3>2, <3>3 DEF Earliest
  <2> QED BY <2>1, <2>2
<1>3. CASE ~c
  BY <1>3 DEF Earliest, Once
<1> QED BY <1>2, <1>3

\* A slot that is overwritten follows the newest of a set.
LEMMA NewestGrows ==
    ASSUME NEW S, NEW x, Newest(x, S), S \subseteq Nat,
           NEW n \in Nat, \A i \in S : i < n,
           NEW c \in BOOLEAN
    PROVE  Newest(IF c THEN n ELSE x, IF c THEN S \cup {n} ELSE S)
<1>1. n # None
  BY NoneAssumption
<1>2. CASE c
  BY <1>1, <1>2 DEF Newest
<1>3. CASE ~c
  BY <1>3 DEF Newest
<1> QED BY <1>2, <1>3

\* The definitions of the specification name the same packets.
LEMMA EarliestIsFirst ==
    ASSUME NEW S, NEW x, Earliest(x, S), S \subseteq Nat
    PROVE  /\ x = None <=> S = {}
           /\ x # None => First(S) = x
<1>1. x = None => S = {}
  BY DEF Earliest
<1>2. ASSUME x # None
      PROVE  S # {} /\ First(S) = x
  <2>1. x \in S /\ \A j \in S : x <= j
    BY <1>2 DEF Earliest
  <2>2. \A y \in S : (\A j \in S : y <= j) => y = x
    BY <2>1
  <2> QED BY <2>1, <2>2 DEF First
<1> QED BY <1>1, <1>2

\* As above, for the last.
LEMMA NewestIsLatest ==
    ASSUME NEW S, NEW x, Newest(x, S), S \subseteq Nat
    PROVE  /\ x = None <=> S = {}
           /\ x # None => Latest(S) = x
<1>1. x = None => S = {}
  BY DEF Newest
<1>2. ASSUME x # None
      PROVE  S # {} /\ Latest(S) = x
  <2>1. x \in S /\ \A j \in S : j <= x
    BY <1>2 DEF Newest
  <2>2. \A y \in S : (\A j \in S : j <= y) => y = x
    BY <2>1
  <2> QED BY <2>1, <2>2 DEF Latest
<1> QED BY <1>1, <1>2
-----------------------------------------------------------------------------
\* The connection of a flow, one segment further.

\* A packet has a direction.
LEMMA DirectionTyped ==
    ASSUME NEW p
    PROVE  Direction(p) \in FlowDirection
BY DEF Direction, FlowDirection

\* The packet that follows is a new one.
LEMMA FollowingPacket ==
    ASSUME NEW g, NEW S, NEW n, Follows(g, S, n)
    PROVE  /\ S \subseteq Nat /\ n \in Nat /\ n \notin S /\ n # None
           /\ \A i \in S : i < n /\ i # None
           /\ g[n] \in PacketRecord /\ g[n].id = n
           /\ Known(g, S)
BY NoneAssumption DEF Follows, Known

\* A segment is taken as what it is.
LEMMA FollowingSegment ==
    ASSUME NEW g, NEW S, NEW n, Follows(g, S, n), Segments(g, S \cup {n})
    PROVE  Taken(g[n], Direction(g[n])) /\ Segments(g, S)
<1>1. g[n] \in PacketRecord /\ g[n].id = n /\ n \in Nat
  BY FollowingPacket
<1>2. g[n].ts \in Optional(CaptureTimestamp)
  BY <1>1 DEF PacketRecord
<1> QED BY <1>1, <1>2, DirectionTyped DEF Taken, Segments

\* The first SYN and whether it was repeated.
LEMMA OpeningGrows ==
    ASSUME NEW g, NEW S, NEW n, Follows(g, S, n), Segments(g, S \cup {n}),
           NEW tcp \in TcpFlowAccumulators, Opening(g, S, tcp),
           NEW a, a = ApplyTcpPacketToFlow(tcp, g[n], Direction(g[n]))
    PROVE  Opening(g, S \cup {n}, a)
<1> DEFINE p == g[n]
           d == Direction(p)
           syn == IsSyn(p.tcp.flags)
<1>1. /\ S \subseteq Nat /\ n \in Nat /\ n \notin S /\ n # None
      /\ \A i \in S : i < n /\ i # None
      /\ p.id = n
  BY FollowingPacket
<1>2. Taken(p, d)
  BY FollowingSegment
<1>3. /\ a.first_syn = Once(tcp.first_syn, syn, n)
      /\ a.first_syn_direction = Once(tcp.first_syn_direction, syn, d)
      /\ a.first_syn_timestamp =
            Once(tcp.first_syn_timestamp, syn /\ tcp.first_syn = None, p.ts)
      /\ a.repeated_syn = None <=>
           /\ tcp.repeated_syn = None
           /\ ~(syn /\ tcp.first_syn # None /\ tcp.first_syn_direction = d)
      /\ a.repeated_syn =
           Once(tcp.repeated_syn, syn /\ tcp.first_syn # None /\ tcp.first_syn_direction = d,
                [first |-> tcp.first_syn, second |-> n])
  <2>1. Effect(tcp, p, d, a)
    BY <1>2, SegmentApplied
  <2> QED BY <1>1, <2>1 DEF Effect, SynPair
<1>4. d # None
  BY DirectionTyped, NoneAssumption
<1>5. syn \in BOOLEAN
  BY DEF IsSyn
<1>6. Syns(g, S \cup {n}) = IF syn THEN Syns(g, S) \cup {n} ELSE Syns(g, S)
  BY DEF Syns
<1>7. Syns(g, S) \subseteq S
  BY DEF Syns
<1> HIDE DEF p, d, syn
<1>8. Earliest(a.first_syn, Syns(g, S \cup {n}))
  <2>1. Earliest(tcp.first_syn, Syns(g, S))
    BY DEF Opening
  <2>2. Earliest(Once(tcp.first_syn, syn, n), IF syn THEN Syns(g, S) \cup {n} ELSE Syns(g, S))
    BY <1>1, <1>5, <1>7, <2>1, EarliestGrows
  <2> QED BY <1>3, <1>6, <2>2
<1>9. CASE tcp.first_syn = None
  <2>1. /\ tcp.first_syn_direction = None /\ tcp.first_syn_timestamp = None
        /\ Syns(g, S) = {} /\ tcp.repeated_syn = None
    BY <1>9 DEF Opening, Earliest, Repeats
  <2>2. a.first_syn = IF syn THEN n ELSE None
    BY <1>3, <1>9 DEF Once
  <2>3. a.first_syn_direction = IF syn THEN d ELSE None
    BY <1>3, <2>1 DEF Once
  <2>4. a.first_syn_timestamp = IF syn THEN p.ts ELSE None
    BY <1>3, <1>9, <2>1 DEF Once
  <2>5. a.repeated_syn = None
    BY <1>3, <1>9, <2>1
  <2>6. Repeats(g, S \cup {n}, a.first_syn) = {}
    BY <1>1, <1>6, <2>1, <2>2 DEF Repeats
  <2> QED BY <1>1, <1>8, <2>2, <2>3, <2>4, <2>5, <2>6 DEF Opening, p, d
<1>10. CASE tcp.first_syn # None
  <2>1. /\ tcp.first_syn_direction = Direction(g[tcp.first_syn])
        /\ tcp.first_syn_timestamp = g[tcp.first_syn].ts
        /\ tcp.first_syn \in S
        /\ tcp.repeated_syn = None <=> Repeats(g, S, tcp.first_syn) = {}
    BY <1>7, <1>10 DEF Opening, Earliest
  <2>2. a.first_syn = tcp.first_syn
    BY <1>3, <1>10 DEF Once
  <2>3. a.first_syn_direction = tcp.first_syn_direction
    BY <1>3, <2>1, DirectionTyped, NoneAssumption DEF Once
  <2>4. a.first_syn_timestamp = tcp.first_syn_timestamp
    BY <1>3, <1>10 DEF Once
  <2>5. Repeats(g, S \cup {n}, tcp.first_syn) =
          IF syn /\ tcp.first_syn_direction = d THEN Repeats(g, S, tcp.first_syn) \cup {n}
          ELSE Repeats(g, S, tcp.first_syn)
    <3>1. tcp.first_syn < n
      BY <1>1, <2>1
    <3>2. CASE syn /\ tcp.first_syn_direction = d
      BY <1>6, <1>10, <2>1, <3>1, <3>2 DEF Repeats, p, d
    <3>3. CASE ~(syn /\ tcp.first_syn_direction = d)
      BY <1>6, <1>10, <2>1, <3>1, <3>3 DEF Repeats, p, d
    <3> QED BY <3>2, <3>3
  <2>6. a.repeated_syn = None <=> Repeats(g, S \cup {n}, a.first_syn) = {}
    BY <1>3, <1>10, <2>1, <2>2, <2>5
  <2>7. ASSUME a.repeated_syn # None
        PROVE  /\ a.repeated_syn.first = tcp.first_syn
               /\ Earliest(a.repeated_syn.second, Repeats(g, S \cup {n}, tcp.first_syn))
    <3>1. CASE tcp.repeated_syn = None
      <4>1. /\ a.repeated_syn = [first |-> tcp.first_syn, second |-> n]
            /\ syn /\ tcp.first_syn_direction = d
        BY <1>3, <2>7, <3>1 DEF Once
      <4>2. Repeats(g, S \cup {n}, tcp.first_syn) = {n}
        BY <2>1, <2>5, <3>1, <4>1
      <4> QED BY <1>1, <4>1, <4>2 DEF Earliest
    <3>2. CASE tcp.repeated_syn # None
      <4>1. /\ a.repeated_syn = tcp.repeated_syn
            /\ tcp.repeated_syn.first = tcp.first_syn
            /\ Earliest(tcp.repeated_syn.second, Repeats(g, S, tcp.first_syn))
        BY <1>3, <3>2 DEF Once, Opening
      <4>2. tcp.repeated_syn.second \in Repeats(g, S, tcp.first_syn)
        BY <2>1, <3>2, <4>1 DEF Earliest
      <4>3. tcp.repeated_syn.second < n /\ tcp.repeated_syn.second # None
        BY <1>1, <1>7, <4>2 DEF Repeats
      <4>4. \A j \in Repeats(g, S \cup {n}, tcp.first_syn) :
               j \in Repeats(g, S, tcp.first_syn) \/ j = n
        BY <2>5
      <4>5. \A j \in Repeats(g, S, tcp.first_syn) : tcp.repeated_syn.second <= j
        BY <4>1, <4>3 DEF Earliest
      <4>6. tcp.repeated_syn.second \in Nat /\ tcp.repeated_syn.second <= n
        <5>1. tcp.repeated_syn.second \in Nat
          BY <1>1, <1>7, <4>2 DEF Repeats
        <5> QED BY <1>1, <4>3, <5>1
      <4>7. tcp.repeated_syn.second \in Repeats(g, S \cup {n}, tcp.first_syn)
        BY <2>5, <4>2
      <4> QED BY <4>1, <4>3, <4>4, <4>5, <4>6, <4>7 DEF Earliest
    <3> QED BY <3>1, <3>2
  <2> QED BY <1>8, <1>10, <2>1, <2>2, <2>3, <2>4, <2>6, <2>7 DEF Opening
<1> QED BY <1>9, <1>10

\* The first SYN stays the first one.
LEMMA OpeningStays ==
    ASSUME NEW g, NEW S, NEW n, Follows(g, S, n), Segments(g, S \cup {n}),
           NEW tcp \in TcpFlowAccumulators, Opening(g, S, tcp),
           NEW a, a = ApplyTcpPacketToFlow(tcp, g[n], Direction(g[n]))
    PROVE  /\ tcp.first_syn = None =>
                \/ a.first_syn = None
                \/ a.first_syn = n /\ a.first_syn_direction = Direction(g[n])
           /\ tcp.first_syn # None =>
                /\ tcp.first_syn \in S
                /\ a.first_syn = tcp.first_syn
                /\ a.first_syn_direction = Direction(g[tcp.first_syn])
<1>1. Opening(g, S \cup {n}, a)
  BY OpeningGrows
<1>2. Taken(g[n], Direction(g[n])) /\ g[n].id = n
  BY FollowingPacket, FollowingSegment
<1>3. a.first_syn = Once(tcp.first_syn, IsSyn(g[n].tcp.flags), n)
  <2>1. Effect(tcp, g[n], Direction(g[n]), a)
    BY <1>2, SegmentApplied
  <2> QED BY <1>2, <2>1 DEF Effect
<1>4. CASE tcp.first_syn = None
  BY <1>1, <1>3, <1>4 DEF Once, Opening
<1>5. CASE tcp.first_syn # None
  <2>1. tcp.first_syn \in S
    BY <1>5 DEF Opening, Earliest, Syns
  <2>2. a.first_syn = tcp.first_syn
    BY <1>3, <1>5 DEF Once
  <2> QED BY <1>1, <1>5, <2>1, <2>2 DEF Opening
<1> QED BY <1>4, <1>5

\* The answer to the first SYN, and the acknowledgment of the answer.
LEMMA CompletionGrows ==
    ASSUME NEW g, NEW S, NEW n, Follows(g, S, n), Segments(g, S \cup {n}),
           NEW tcp \in TcpFlowAccumulators, Opening(g, S, tcp), Completion(g, S, tcp),
           NEW a, a = ApplyTcpPacketToFlow(tcp, g[n], Direction(g[n]))
    PROVE  Completion(g, S \cup {n}, a)
<1> DEFINE p == g[n]
           d == Direction(p)
           answers == IsSynAck(p.tcp.flags) /\ a.first_syn # None /\ d # a.first_syn_direction
           completes == /\ "ACK" \in p.tcp.flags /\ tcp.syn_ack # None
                        /\ d = a.first_syn_direction
<1>1. /\ S \subseteq Nat /\ n \in Nat /\ n \notin S /\ n # None
      /\ \A i \in S : i < n /\ i # None
      /\ p.id = n
  BY FollowingPacket
<1>2. Taken(p, d)
  BY FollowingSegment
<1>3. /\ a.syn_ack = Once(tcp.syn_ack, answers, n)
      /\ a.established_ack = Once(tcp.established_ack, completes, n)
      /\ a.established_ack_timestamp =
            Once(tcp.established_ack_timestamp, completes /\ tcp.established_ack = None, p.ts)
  <2>1. Effect(tcp, p, d, a)
    BY <1>2, SegmentApplied
  <2> QED BY <1>1, <2>1 DEF Effect
<1>4. /\ tcp.first_syn = None =>
           \/ a.first_syn = None
           \/ a.first_syn = n /\ a.first_syn_direction = d
      /\ tcp.first_syn # None =>
           /\ tcp.first_syn \in S
           /\ a.first_syn = tcp.first_syn
           /\ a.first_syn_direction = Direction(g[tcp.first_syn])
  BY OpeningStays
<1>5. CASE tcp.first_syn = None
  <2>1. tcp.syn_ack = None /\ tcp.established_ack = None /\ tcp.established_ack_timestamp = None
    BY <1>5 DEF Completion, Earliest, Answers, Acks
  <2>2. ~answers /\ ~completes
    BY <1>4, <1>5, <2>1
  <2>3. a.syn_ack = None /\ a.established_ack = None /\ a.established_ack_timestamp = None
    BY <1>3, <2>1, <2>2 DEF Once
  <2>4. Answers(g, S \cup {n}, a.first_syn) = {}
    BY <1>1, <1>4, <1>5 DEF Answers
  <2>5. Acks(g, S \cup {n}, a.first_syn, None) = {}
    BY DEF Acks
  <2> QED BY <2>3, <2>4, <2>5 DEF Completion, Earliest
<1>6. CASE tcp.first_syn # None
  <2>1. /\ tcp.first_syn \in S /\ tcp.first_syn < n
        /\ a.first_syn = tcp.first_syn
        /\ a.first_syn_direction = Direction(g[tcp.first_syn])
    BY <1>1, <1>4, <1>6
  <2>2. Answers(g, S \cup {n}, tcp.first_syn) =
          IF answers THEN Answers(g, S, tcp.first_syn) \cup {n}
          ELSE Answers(g, S, tcp.first_syn)
    <3>1. CASE answers
      BY <1>6, <2>1, <3>1 DEF Answers
    <3>2. CASE ~answers
      BY <1>6, <2>1, <3>2 DEF Answers
    <3> QED BY <3>1, <3>2
  <2>3. Earliest(tcp.syn_ack, Answers(g, S, tcp.first_syn)) /\ Answers(g, S, tcp.first_syn) \subseteq S
    BY DEF Completion, Answers
  <2>4. Earliest(Once(tcp.syn_ack, answers, n),
                 IF answers THEN Answers(g, S, tcp.first_syn) \cup {n}
                 ELSE Answers(g, S, tcp.first_syn))
    <3>1. answers \in BOOLEAN
      BY DEF IsSynAck
    <3> HIDE DEF answers
    <3> QED BY <1>1, <2>3, <3>1, EarliestGrows
  <2>5. Earliest(a.syn_ack, Answers(g, S \cup {n}, a.first_syn))
    BY <1>3, <2>1, <2>2, <2>4
  <2>6. CASE tcp.syn_ack = None
    <3>1. tcp.established_ack = None /\ tcp.established_ack_timestamp = None /\ ~completes
      BY <2>6 DEF Completion, Earliest, Acks
    <3>2. a.established_ack = None /\ a.established_ack_timestamp = None
      BY <1>3, <3>1 DEF Once
    <3>3. a.syn_ack \in {None, n}
      BY <1>3, <2>6 DEF Once
    <3>4. Acks(g, S \cup {n}, a.first_syn, a.syn_ack) = {}
      <4>1. \A i \in S \cup {n} : ~(n < i)
        BY <1>1
      <4> QED BY <3>3, <4>1 DEF Acks
    <3> QED BY <2>5, <3>2, <3>4 DEF Completion, Earliest
  <2>7. CASE tcp.syn_ack # None
    <3>1. a.syn_ack = tcp.syn_ack /\ tcp.syn_ack \in S /\ tcp.syn_ack < n
      BY <1>1, <1>3, <2>3, <2>7 DEF Once, Earliest
    <3>2. Acks(g, S \cup {n}, tcp.first_syn, tcp.syn_ack) =
            IF completes THEN Acks(g, S, tcp.first_syn, tcp.syn_ack) \cup {n}
            ELSE Acks(g, S, tcp.first_syn, tcp.syn_ack)
      <4>1. CASE completes
        BY <2>1, <2>7, <3>1, <4>1 DEF Acks
      <4>2. CASE ~completes
        BY <2>1, <2>7, <3>1, <4>2 DEF Acks
      <4> QED BY <4>1, <4>2
    <3>3. /\ Earliest(tcp.established_ack, Acks(g, S, tcp.first_syn, tcp.syn_ack))
          /\ Acks(g, S, tcp.first_syn, tcp.syn_ack) \subseteq S
      BY DEF Completion, Acks
    <3>4. Earliest(Once(tcp.established_ack, completes, n),
                   IF completes THEN Acks(g, S, tcp.first_syn, tcp.syn_ack) \cup {n}
                   ELSE Acks(g, S, tcp.first_syn, tcp.syn_ack))
      <4>1. completes \in BOOLEAN
        OBVIOUS
      <4> HIDE DEF completes
      <4> QED BY <1>1, <3>3, <4>1, EarliestGrows
    <3>5. Earliest(a.established_ack, Acks(g, S \cup {n}, a.first_syn, a.syn_ack))
      BY <1>3, <2>1, <3>1, <3>2, <3>4
    <3>6. a.established_ack_timestamp =
            IF a.established_ack = None THEN None ELSE g[a.established_ack].ts
      <4>1. tcp.established_ack_timestamp =
              IF tcp.established_ack = None THEN None ELSE g[tcp.established_ack].ts
        BY DEF Completion
      <4>2. CASE tcp.established_ack # None
        <5>1. a.established_ack = tcp.established_ack
          BY <1>3, <4>2 DEF Once
        <5>2. a.established_ack_timestamp = tcp.established_ack_timestamp
          BY <1>3, <4>2 DEF Once
        <5> QED BY <4>1, <4>2, <5>1, <5>2
      <4>3. CASE tcp.established_ack = None
        <5>1. tcp.established_ack_timestamp = None
          BY <4>1, <4>3
        <5>2. CASE completes
          BY <1>1, <1>3, <4>3, <5>1, <5>2 DEF Once
        <5>3. CASE ~completes
          BY <1>3, <4>3, <5>1, <5>3 DEF Once
        <5> QED BY <5>2, <5>3
      <4> QED BY <4>2, <4>3
    <3> QED BY <2>5, <3>5, <3>6 DEF Completion
  <2> QED BY <2>6, <2>7
<1> QED BY <1>5, <1>6

\* The last RST and the first two FINs.
LEMMA TeardownGrows ==
    ASSUME NEW g, NEW S, NEW n, Follows(g, S, n), Segments(g, S \cup {n}),
           NEW tcp \in TcpFlowAccumulators, Teardown(g, S, tcp),
           NEW a, a = ApplyTcpPacketToFlow(tcp, g[n], Direction(g[n]))
    PROVE  Teardown(g, S \cup {n}, a)
<1> DEFINE p == g[n]
           d == Direction(p)
           rst == "RST" \in p.tcp.flags
           fin == "FIN" \in p.tcp.flags
<1>1. /\ S \subseteq Nat /\ n \in Nat /\ n \notin S /\ n # None
      /\ \A i \in S : i < n /\ i # None
      /\ p.id = n
  BY FollowingPacket
<1>2. Taken(p, d)
  BY FollowingSegment
<1>3. /\ a.reset = IF rst THEN n ELSE tcp.reset
      /\ a.fin_first = Once(tcp.fin_first, fin, n)
      /\ a.fin_last = Once(tcp.fin_last, fin /\ tcp.fin_first # None, n)
  <2>1. Effect(tcp, p, d, a)
    BY <1>2, SegmentApplied
  <2> QED BY <1>1, <2>1 DEF Effect
<1>4. /\ Resets(g, S \cup {n}) = IF rst THEN Resets(g, S) \cup {n} ELSE Resets(g, S)
      /\ Fins(g, S \cup {n}) = IF fin THEN Fins(g, S) \cup {n} ELSE Fins(g, S)
      /\ Resets(g, S) \subseteq S /\ Fins(g, S) \subseteq S
  BY DEF Resets, Fins
<1>5. rst \in BOOLEAN /\ fin \in BOOLEAN
  OBVIOUS
<1>6. /\ Newest(tcp.reset, Resets(g, S))
      /\ Earliest(tcp.fin_first, Fins(g, S))
      /\ Earliest(tcp.fin_last, Fins(g, S) \ {tcp.fin_first})
  BY DEF Teardown
<1> HIDE DEF p, d, rst, fin
<1>7. Newest(a.reset, Resets(g, S \cup {n}))
  <2>1. Newest(IF rst THEN n ELSE tcp.reset, IF rst THEN Resets(g, S) \cup {n} ELSE Resets(g, S))
    BY <1>1, <1>4, <1>5, <1>6, NewestGrows
  <2> QED BY <1>3, <1>4, <2>1
<1>8. Earliest(a.fin_first, Fins(g, S \cup {n}))
  <2>1. Earliest(Once(tcp.fin_first, fin, n), IF fin THEN Fins(g, S) \cup {n} ELSE Fins(g, S))
    BY <1>1, <1>4, <1>5, <1>6, EarliestGrows
  <2> QED BY <1>3, <1>4, <2>1
<1>9. Earliest(a.fin_last, Fins(g, S \cup {n}) \ {a.fin_first})
  <2>1. CASE tcp.fin_first = None
    <3>1. Fins(g, S) = {} /\ tcp.fin_last = None
      BY <1>6, <2>1 DEF Earliest
    <3>2. a.fin_last = None
      BY <1>3, <2>1, <3>1 DEF Once
    <3>3. a.fin_first = IF fin THEN n ELSE None
      BY <1>3, <2>1 DEF Once
    <3>4. Fins(g, S \cup {n}) \ {a.fin_first} = {}
      BY <1>4, <3>1, <3>3
    <3> QED BY <3>2, <3>4 DEF Earliest
  <2>2. CASE tcp.fin_first # None
    <3>1. a.fin_first = tcp.fin_first /\ tcp.fin_first \in S
      BY <1>3, <1>4, <1>6, <2>2 DEF Once, Earliest
    <3>2. a.fin_last = Once(tcp.fin_last, fin, n)
      BY <1>3, <2>2 DEF Once
    <3>3. Fins(g, S \cup {n}) \ {tcp.fin_first} =
            IF fin THEN (Fins(g, S) \ {tcp.fin_first}) \cup {n}
            ELSE Fins(g, S) \ {tcp.fin_first}
      BY <1>1, <1>4, <3>1
    <3>4. Fins(g, S) \ {tcp.fin_first} \subseteq S
      BY <1>4
    <3>5. Earliest(Once(tcp.fin_last, fin, n),
                   IF fin THEN (Fins(g, S) \ {tcp.fin_first}) \cup {n}
                   ELSE Fins(g, S) \ {tcp.fin_first})
      BY <1>1, <1>5, <1>6, <3>4, EarliestGrows
    <3> QED BY <3>1, <3>2, <3>3, <3>5
  <2> QED BY <2>1, <2>2
<1> QED BY <1>7, <1>8, <1>9 DEF Teardown
-----------------------------------------------------------------------------
\* The numbers of a flow, one segment further.

SideEffect(tcp, p, d, a, e) ==
    LET sequenced == IsSequenced(p, d) /\ e = d
        acknowledged == IsAcknowledged(p, d) /\ e = d
    IN  /\ a.side[e].last_sequence =
              IF sequenced THEN p.tcp.sequence ELSE tcp.side[e].last_sequence
        /\ a.side[e].last_sequence_packet =
              IF sequenced THEN p.id ELSE tcp.side[e].last_sequence_packet
        /\ a.side[e].retransmission_sequence_count =
              IF sequenced /\ SameSequence(tcp, p, d)
              THEN tcp.side[e].retransmission_sequence_count + 1
              ELSE tcp.side[e].retransmission_sequence_count
        /\ a.side[e].last_ack =
              IF acknowledged THEN p.tcp.acknowledgment ELSE tcp.side[e].last_ack
        /\ a.side[e].last_ack_packet =
              IF acknowledged THEN p.id ELSE tcp.side[e].last_ack_packet

IndicatorEffect(tcp, p, d, a) ==
    /\ a.retransmission =
         Once(tcp.retransmission, IsSequenced(p, d) /\ SameSequence(tcp, p, d),
              SequencePair(tcp, p, d))
    /\ a.out_of_order =
         Once(tcp.out_of_order, IsSequenced(p, d) /\ LowerSequence(tcp, p, d),
              SequencePair(tcp, p, d))
    /\ a.duplicate_ack =
         Once(tcp.duplicate_ack, IsAcknowledged(p, d) /\ SameAck(tcp, p, d),
              AckPair(tcp, p, d))

\* A segment changes the numbers of its own side.
LEMMA NumbersApplied ==
    ASSUME NEW tcp \in TcpFlowAccumulators, NEW p, NEW d, Taken(p, d),
           NEW a, a = ApplyTcpPacketToFlow(tcp, p, d)
    PROVE  /\ IndicatorEffect(tcp, p, d, a)
           /\ \A e \in {"AToB", "BToA"} : SideEffect(tcp, p, d, a, e)
<1> DEFINE s == NoteSequence(tcp, p, d)
           k == NoteAcknowledgment(s, p, d)
<1>1. SameNumbers(a, k)
  <2>1. Effect(tcp, p, d, a)
    BY SegmentApplied
  <2> QED BY <2>1 DEF Effect
<1>2. p.id \in Nat /\ p.tcp \in TcpPacketData /\ d \in FlowDirection
  BY DEF Taken
<1>3. /\ s \in TcpFlowAccumulators
      /\ s.duplicate_ack = tcp.duplicate_ack
      /\ s.retransmission =
           Once(tcp.retransmission, IsSequenced(p, d) /\ SameSequence(tcp, p, d),
                SequencePair(tcp, p, d))
      /\ s.out_of_order =
           Once(tcp.out_of_order, IsSequenced(p, d) /\ LowerSequence(tcp, p, d),
                SequencePair(tcp, p, d))
      /\ \A e \in {"AToB", "BToA"} :
           s.side[e] = IF IsSequenced(p, d) /\ e = d THEN SequencedSide(tcp, p, d)
                       ELSE tcp.side[e]
  BY <1>2, SequenceNoted DEF Once
<1> HIDE DEF s
<1>4. /\ k.retransmission = s.retransmission /\ k.out_of_order = s.out_of_order
      /\ k.duplicate_ack =
           Once(s.duplicate_ack, IsAcknowledged(p, d) /\ SameAck(s, p, d), AckPair(s, p, d))
      /\ \A e \in {"AToB", "BToA"} :
           k.side[e] = IF IsAcknowledged(p, d) /\ e = d THEN AcknowledgedSide(s, p, d)
                       ELSE s.side[e]
  BY <1>2, <1>3, AcknowledgmentNoted DEF Once
<1> HIDE DEF k
<1>5. \A e \in {"AToB", "BToA"} :
        /\ tcp.side[e] \in TcpDirectionAccumulators
        /\ s.side[e] \in TcpDirectionAccumulators
  BY <1>3 DEF TcpFlowAccumulators
<1>6. \A e \in {"AToB", "BToA"} :
        /\ s.side[e].last_ack = tcp.side[e].last_ack
        /\ s.side[e].last_ack_packet = tcp.side[e].last_ack_packet
        /\ s.side[e].last_sequence =
              IF IsSequenced(p, d) /\ e = d THEN p.tcp.sequence ELSE tcp.side[e].last_sequence
        /\ s.side[e].last_sequence_packet =
              IF IsSequenced(p, d) /\ e = d THEN p.id ELSE tcp.side[e].last_sequence_packet
        /\ s.side[e].retransmission_sequence_count =
              IF IsSequenced(p, d) /\ e = d /\ SameSequence(tcp, p, d)
              THEN tcp.side[e].retransmission_sequence_count + 1
              ELSE tcp.side[e].retransmission_sequence_count
  <2> TAKE e \in {"AToB", "BToA"}
  <2>1. CASE IsSequenced(p, d) /\ e = d
    <3>1. s.side[e] = SequencedSide(tcp, p, e) /\ tcp.side[e] \in TcpDirectionAccumulators
      BY <1>3, <1>5, <2>1
    <3> QED BY <2>1, <3>1 DEF SequencedSide, TcpDirectionAccumulators
  <2>2. CASE ~(IsSequenced(p, d) /\ e = d)
    BY <1>3, <2>2
  <2> QED BY <2>1, <2>2
<1>7. \A e \in {"AToB", "BToA"} :
        /\ k.side[e].last_sequence = s.side[e].last_sequence
        /\ k.side[e].last_sequence_packet = s.side[e].last_sequence_packet
        /\ k.side[e].retransmission_sequence_count = s.side[e].retransmission_sequence_count
        /\ k.side[e].last_ack =
              IF IsAcknowledged(p, d) /\ e = d THEN p.tcp.acknowledgment
              ELSE s.side[e].last_ack
        /\ k.side[e].last_ack_packet =
              IF IsAcknowledged(p, d) /\ e = d THEN p.id ELSE s.side[e].last_ack_packet
  <2> TAKE e \in {"AToB", "BToA"}
  <2>1. CASE IsAcknowledged(p, d) /\ e = d
    <3>1. k.side[e] = AcknowledgedSide(s, p, e) /\ s.side[e] \in TcpDirectionAccumulators
      BY <1>4, <1>5, <2>1
    <3> QED BY <2>1, <3>1 DEF AcknowledgedSide, TcpDirectionAccumulators
  <2>2. CASE ~(IsAcknowledged(p, d) /\ e = d)
    BY <1>4, <2>2
  <2> QED BY <2>1, <2>2
<1>8. IsAcknowledged(p, d) => /\ SameAck(s, p, d) <=> SameAck(tcp, p, d)
                              /\ AckPair(s, p, d) = AckPair(tcp, p, d)
  <2>1. IsAcknowledged(p, d) => d \in {"AToB", "BToA"}
    BY <1>2 DEF IsAcknowledged, FlowDirection
  <2> QED BY <1>6, <2>1 DEF SameAck, AckPair
<1>9. a.side = k.side /\ a.retransmission = k.retransmission
      /\ a.out_of_order = k.out_of_order /\ a.duplicate_ack = k.duplicate_ack
  BY <1>1 DEF SameNumbers
<1>10. IndicatorEffect(tcp, p, d, a)
  BY <1>3, <1>4, <1>8, <1>9 DEF IndicatorEffect, Once
<1>11. \A e \in {"AToB", "BToA"} : SideEffect(tcp, p, d, a, e)
  BY <1>6, <1>7, <1>9 DEF SideEffect
<1> QED BY <1>10, <1>11

\* Neighbours as pairs.
LEMMA NeighbourPairs ==
    ASSUME NEW S, NEW y
    PROVE  y \in Neighbours(S) <=> \E i, j \in S : y = <<i, j>> /\ Adjacent(S, i, j)
BY DEF Neighbours

\* A new last element is a neighbour of the one that was last.
LEMMA NeighboursGrow ==
    ASSUME NEW S, S \subseteq Nat, NEW n \in Nat, \A i \in S : i < n,
           NEW x, Newest(x, S)
    PROVE  Neighbours(S \cup {n}) =
              IF x = None THEN Neighbours(S) ELSE Neighbours(S) \cup {<<x, n>>}
<1>1. \A i, j \in S : Adjacent(S \cup {n}, i, j) <=> Adjacent(S, i, j)
  BY DEF Adjacent
<1>2. \A j \in S \cup {n} : ~Adjacent(S \cup {n}, n, j)
  BY DEF Adjacent
<1>3. CASE x = None
  <2>1. S = {}
    BY <1>3 DEF Newest
  <2> QED BY <1>2, <1>3, <2>1 DEF Neighbours
<1>4. CASE x # None
  <2>1. x \in S /\ \A j \in S : j <= x
    BY <1>4 DEF Newest
  <2>2. \A i \in S : Adjacent(S \cup {n}, i, n) <=> i = x
    BY <2>1 DEF Adjacent
  <2>3. \A y : y \in Neighbours(S \cup {n}) <=> y \in Neighbours(S) \/ y = <<x, n>>
    <3>1. \A y : y \in Neighbours(S \cup {n}) <=>
                    \E i, j \in S \cup {n} : y = <<i, j>> /\ Adjacent(S \cup {n}, i, j)
      BY NeighbourPairs
    <3>2. \A y : y \in Neighbours(S) <=> \E i, j \in S : y = <<i, j>> /\ Adjacent(S, i, j)
      BY NeighbourPairs
    <3> QED BY <1>1, <1>2, <2>1, <2>2, <3>1, <3>2
  <2> QED BY <1>4, <2>3
<1> QED BY <1>3, <1>4

\* An indicator keeps the first of the pairs that it shows.
LEMMA IndicatesGrows ==
    ASSUME NEW g, NEW indicator, NEW pairs, Indicates(g, indicator, pairs),
           pairs \subseteq Nat \X Nat,
           NEW n \in Nat, \A x \in pairs : x[2] < n,
           NEW l \in Nat, NEW c \in BOOLEAN
    PROVE  Indicates(g, Once(indicator, c, Indicator(Direction(g[n]), l, n)),
                     IF c THEN pairs \cup {<<l, n>>} ELSE pairs)
<1> DEFINE pair == Indicator(Direction(g[n]), l, n)
<1>1. pair # None /\ pair.first = l /\ pair.second = n /\ pair.direction = Direction(g[n])
  BY DirectionTyped, NoneAssumption DEF Indicator, TcpDirectionalIndicator, Optional
<1> HIDE DEF pair
<1>2. CASE ~c
  BY <1>2 DEF Once
<1>3. CASE c /\ indicator = None
  <2>1. pairs = {} /\ Once(indicator, c, pair) = pair
    BY <1>3 DEF Indicates, Once
  <2>2. FirstPairs({<<l, n>>}) = {<<l, n>>}
    BY DEF FirstPairs
  <2>3. (IF c THEN pairs \cup {<<l, n>>} ELSE pairs) = {<<l, n>>}
    BY <1>3, <2>1
  <2> QED BY <1>1, <2>1, <2>2, <2>3 DEF Indicates, pair
<1>4. CASE c /\ indicator # None
  <2> DEFINE z == <<indicator.first, indicator.second>>
  <2>1. /\ FirstPairs(pairs) = {z} /\ Once(indicator, c, pair) = indicator
        /\ indicator.direction = Direction(g[indicator.second])
    BY <1>4 DEF Indicates, Once
  <2>2. z \in pairs /\ \A y \in pairs : z[2] <= y[2]
    BY <2>1 DEF FirstPairs
  <2>3. z[2] \in Nat /\ z[2] < n
    BY <2>2
  <2>4. z \in FirstPairs(pairs \cup {<<l, n>>})
    BY <2>2, <2>3 DEF FirstPairs
  <2>5. ASSUME NEW x \in FirstPairs(pairs \cup {<<l, n>>})
        PROVE  x = z
    <3>1. x # <<l, n>>
      BY <2>2, <2>3 DEF FirstPairs
    <3>2. x \in FirstPairs(pairs)
      BY <3>1 DEF FirstPairs
    <3> QED BY <2>1, <3>2
  <2>6. FirstPairs(pairs \cup {<<l, n>>}) = {z}
    BY <2>4, <2>5
  <2> QED BY <1>4, <2>1, <2>6 DEF Indicates, pair
<1> QED BY <1>2, <1>3, <1>4 DEF pair

\* What a segment adds to the pairs of one side.
PairsEffect(g, S, n, tcp, e) ==
    LET p == g[n]
        d == Direction(p)
        sequenced == IsSequenced(p, d) /\ e = d
        acknowledged == IsAcknowledged(p, d) /\ e = d
        last == tcp.side[e].last_sequence_packet
        lastAck == tcp.side[e].last_ack_packet
    IN  /\ Again(g, S \cup {n}, e) =
             IF sequenced /\ SameSequence(tcp, p, d)
             THEN Again(g, S, e) \cup {<<last, n>>} ELSE Again(g, S, e)
        /\ Behind(g, S \cup {n}, e) =
             IF sequenced /\ LowerSequence(tcp, p, d)
             THEN Behind(g, S, e) \cup {<<last, n>>} ELSE Behind(g, S, e)
        /\ Duplicate(g, S \cup {n}, e) =
             IF acknowledged /\ SameAck(tcp, p, d)
             THEN Duplicate(g, S, e) \cup {<<lastAck, n>>} ELSE Duplicate(g, S, e)
        /\ sequenced /\ SameSequence(tcp, p, d) => last \in S
        /\ sequenced /\ LowerSequence(tcp, p, d) => last \in S
        /\ acknowledged /\ SameAck(tcp, p, d) => lastAck \in S

\* The numbers of one side.
LEMMA LastNumbersGrow ==
    ASSUME NEW g, NEW S, NEW n, Follows(g, S, n), Segments(g, S \cup {n}),
           NEW tcp \in TcpFlowAccumulators,
           NEW e \in {"AToB", "BToA"}, LastNumbers(g, S, tcp, e),
           NEW a, a = ApplyTcpPacketToFlow(tcp, g[n], Direction(g[n]))
    PROVE  LastNumbers(g, S \cup {n}, a, e) /\ PairsEffect(g, S, n, tcp, e)
<1> DEFINE p == g[n]
           d == Direction(p)
           sequenced == IsSequenced(p, d) /\ e = d
           acknowledged == IsAcknowledged(p, d) /\ e = d
           last == tcp.side[e].last_sequence_packet
           lastAck == tcp.side[e].last_ack_packet
           Q == Sequenced(g, S, e)
           K == Acknowledged(g, S, e)
<1>1. /\ S \subseteq Nat /\ n \in Nat /\ n \notin S /\ n # None
      /\ \A i \in S : i < n /\ i # None
      /\ p.id = n
  BY FollowingPacket
<1>2. Taken(p, d)
  BY FollowingSegment
<1>3. SideEffect(tcp, p, d, a, e)
  BY <1>2, NumbersApplied
<1>4. /\ Sequenced(g, S \cup {n}, e) = IF sequenced THEN Q \cup {n} ELSE Q
      /\ Acknowledged(g, S \cup {n}, e) = IF acknowledged THEN K \cup {n} ELSE K
      /\ Q \subseteq S /\ K \subseteq S
      /\ \A i \in Q : g[i].tcp.sequence # None
      /\ \A i \in K : g[i].tcp.acknowledgment # None
  BY DEF Sequenced, Acknowledged, IsSequenced, IsAcknowledged
<1>5. /\ Newest(last, Q) /\ Newest(lastAck, K)
      /\ tcp.side[e].last_sequence = IF last = None THEN None ELSE g[last].tcp.sequence
      /\ tcp.side[e].last_ack = IF lastAck = None THEN None ELSE g[lastAck].tcp.acknowledgment
      /\ IsFiniteSet(Again(g, S, e))
      /\ tcp.side[e].retransmission_sequence_count = Cardinality(Again(g, S, e))
  BY DEF LastNumbers
<1>6. /\ sequenced => p.tcp.sequence # None
      /\ acknowledged => p.tcp.acknowledgment # None
  BY DEF IsSequenced, IsAcknowledged
<1>7. /\ Neighbours(Q \cup {n}) =
            IF last = None THEN Neighbours(Q) ELSE Neighbours(Q) \cup {<<last, n>>}
      /\ Neighbours(K \cup {n}) =
            IF lastAck = None THEN Neighbours(K) ELSE Neighbours(K) \cup {<<lastAck, n>>}
  <2> HIDE DEF Q, K, last, lastAck
  <2> QED BY <1>1, <1>4, <1>5, NeighboursGrow
<1>8. (last # None => last \in Q) /\ (lastAck # None => lastAck \in K)
  BY <1>5 DEF Newest
<1>9. sequenced => /\ SameSequence(tcp, p, d) <=>
                        last # None /\ g[last].tcp.sequence = p.tcp.sequence
                   /\ LowerSequence(tcp, p, d) <=>
                        last # None /\ p.tcp.sequence < g[last].tcp.sequence
  BY <1>4, <1>5, <1>6, <1>8 DEF SameSequence, LowerSequence
<1>10. acknowledged => (SameAck(tcp, p, d) <=>
                          /\ lastAck # None /\ g[lastAck].tcp.acknowledgment = p.tcp.acknowledgment
                          /\ "ACK" \in p.tcp.flags)
  BY <1>4, <1>5, <1>6, <1>8 DEF SameAck
<1> HIDE DEF Q, K, last, lastAck, sequenced, acknowledged, d
<1>11. Again(g, S \cup {n}, e) =
          IF sequenced /\ SameSequence(tcp, p, d)
          THEN Again(g, S, e) \cup {<<last, n>>} ELSE Again(g, S, e)
  <2>1. CASE sequenced /\ last # None
    <3>1. Neighbours(Sequenced(g, S \cup {n}, e)) = Neighbours(Q) \cup {<<last, n>>}
      BY <1>4, <1>7, <2>1
    <3>2. <<last, n>>[1] = last /\ <<last, n>>[2] = n
      OBVIOUS
    <3> QED BY <1>9, <2>1, <3>1, <3>2 DEF Again, Q
  <2>2. CASE ~(sequenced /\ last # None)
    BY <1>4, <1>7, <1>9, <2>2 DEF Again, Q
  <2> QED BY <2>1, <2>2
<1>12. Behind(g, S \cup {n}, e) =
          IF sequenced /\ LowerSequence(tcp, p, d)
          THEN Behind(g, S, e) \cup {<<last, n>>} ELSE Behind(g, S, e)
  <2>1. CASE sequenced /\ last # None
    <3>1. Neighbours(Sequenced(g, S \cup {n}, e)) = Neighbours(Q) \cup {<<last, n>>}
      BY <1>4, <1>7, <2>1
    <3>2. <<last, n>>[1] = last /\ <<last, n>>[2] = n
      OBVIOUS
    <3> QED BY <1>9, <2>1, <3>1, <3>2 DEF Behind, Q
  <2>2. CASE ~(sequenced /\ last # None)
    BY <1>4, <1>7, <1>9, <2>2 DEF Behind, Q
  <2> QED BY <2>1, <2>2
<1>13. Duplicate(g, S \cup {n}, e) =
          IF acknowledged /\ SameAck(tcp, p, d)
          THEN Duplicate(g, S, e) \cup {<<lastAck, n>>} ELSE Duplicate(g, S, e)
  <2>1. CASE acknowledged /\ lastAck # None
    <3>1. Neighbours(Acknowledged(g, S \cup {n}, e)) = Neighbours(K) \cup {<<lastAck, n>>}
      BY <1>4, <1>7, <2>1
    <3>2. <<lastAck, n>>[1] = lastAck /\ <<lastAck, n>>[2] = n
      OBVIOUS
    <3> QED BY <1>10, <2>1, <3>1, <3>2 DEF Duplicate, K
  <2>2. CASE ~(acknowledged /\ lastAck # None)
    BY <1>4, <1>7, <1>10, <2>2 DEF Duplicate, K
  <2> QED BY <2>1, <2>2
<1>14. PairsEffect(g, S, n, tcp, e)
  <2>1. /\ sequenced /\ SameSequence(tcp, p, d) => last \in S
        /\ sequenced /\ LowerSequence(tcp, p, d) => last \in S
        /\ acknowledged /\ SameAck(tcp, p, d) => lastAck \in S
    BY <1>4, <1>8, <1>9, <1>10
  <2> QED BY <1>11, <1>12, <1>13, <2>1 DEF PairsEffect, sequenced, acknowledged, last, lastAck, d
<1>15. <<last, n>> \notin Again(g, S, e)
  BY <1>1, <1>4 DEF Again, Neighbours, Q
<1>16. /\ IsFiniteSet(Again(g, S \cup {n}, e))
       /\ a.side[e].retransmission_sequence_count = Cardinality(Again(g, S \cup {n}, e))
  <2>1. a.side[e].retransmission_sequence_count =
          IF sequenced /\ SameSequence(tcp, p, d)
          THEN tcp.side[e].retransmission_sequence_count + 1
          ELSE tcp.side[e].retransmission_sequence_count
    BY <1>3 DEF SideEffect, sequenced
  <2>2. /\ IsFiniteSet(Again(g, S, e) \cup {<<last, n>>})
        /\ Cardinality(Again(g, S, e) \cup {<<last, n>>}) = Cardinality(Again(g, S, e)) + 1
    BY <1>5, <1>15, FS_AddElement
  <2> QED BY <1>5, <1>11, <2>1, <2>2
<1>17. /\ Newest(a.side[e].last_sequence_packet, Sequenced(g, S \cup {n}, e))
       /\ a.side[e].last_sequence =
             IF a.side[e].last_sequence_packet = None THEN None
             ELSE g[a.side[e].last_sequence_packet].tcp.sequence
  <2>1. /\ a.side[e].last_sequence =
              IF sequenced THEN p.tcp.sequence ELSE tcp.side[e].last_sequence
        /\ a.side[e].last_sequence_packet = IF sequenced THEN n ELSE last
    BY <1>1, <1>3 DEF SideEffect, sequenced, last
  <2>2. CASE sequenced
    <3>1. \A j \in Q \cup {n} : j <= n
      BY <1>1, <1>4
    <3>2. Newest(n, Q \cup {n})
      BY <1>1, <3>1 DEF Newest
    <3> QED BY <1>1, <1>4, <2>1, <2>2, <3>2
  <2>3. CASE ~sequenced
    BY <1>4, <1>5, <2>1, <2>3
  <2> QED BY <2>2, <2>3
<1>18. /\ Newest(a.side[e].last_ack_packet, Acknowledged(g, S \cup {n}, e))
       /\ a.side[e].last_ack =
             IF a.side[e].last_ack_packet = None THEN None
             ELSE g[a.side[e].last_ack_packet].tcp.acknowledgment
  <2>1. /\ a.side[e].last_ack =
              IF acknowledged THEN p.tcp.acknowledgment ELSE tcp.side[e].last_ack
        /\ a.side[e].last_ack_packet = IF acknowledged THEN n ELSE lastAck
    BY <1>1, <1>3 DEF SideEffect, acknowledged, lastAck
  <2>2. CASE acknowledged
    <3>1. \A j \in K \cup {n} : j <= n
      BY <1>1, <1>4
    <3>2. Newest(n, K \cup {n})
      BY <1>1, <3>1 DEF Newest
    <3> QED BY <1>1, <1>4, <2>1, <2>2, <3>2
  <2>3. CASE ~acknowledged
    BY <1>4, <1>5, <2>1, <2>3
  <2> QED BY <2>2, <2>3
<1> QED BY <1>14, <1>16, <1>17, <1>18 DEF LastNumbers

\* The pairs of a set of ids are pairs of ids.
LEMMA PairsTyped ==
    ASSUME NEW g, NEW S, S \subseteq Nat, NEW e
    PROVE  /\ Again(g, S, e) \subseteq S \X S
           /\ Behind(g, S, e) \subseteq S \X S
           /\ Duplicate(g, S, e) \subseteq S \X S
<1>1. Sequenced(g, S, e) \subseteq S /\ Acknowledged(g, S, e) \subseteq S
  BY DEF Sequenced, Acknowledged
<1>2. /\ Neighbours(Sequenced(g, S, e)) \subseteq S \X S
      /\ Neighbours(Acknowledged(g, S, e)) \subseteq S \X S
  BY <1>1 DEF Neighbours
<1> QED BY <1>2 DEF Again, Behind, Duplicate

\* All numbers, and what they indicate.
LEMMA NumbersGrow ==
    ASSUME NEW g, NEW S, NEW n, Follows(g, S, n), Segments(g, S \cup {n}),
           NEW tcp \in TcpFlowAccumulators, Numbers(g, S, tcp),
           NEW a, a = ApplyTcpPacketToFlow(tcp, g[n], Direction(g[n]))
    PROVE  Numbers(g, S \cup {n}, a)
<1> DEFINE p == g[n]
           d == Direction(p)
           again == IsSequenced(p, d) /\ SameSequence(tcp, p, d)
           lower == IsSequenced(p, d) /\ LowerSequence(tcp, p, d)
           dup == IsAcknowledged(p, d) /\ SameAck(tcp, p, d)
           last == tcp.side[d].last_sequence_packet
           lastAck == tcp.side[d].last_ack_packet
           A(T) == Again(g, T, "AToB") \cup Again(g, T, "BToA")
           B(T) == Behind(g, T, "AToB") \cup Behind(g, T, "BToA")
           D(T) == Duplicate(g, T, "AToB") \cup Duplicate(g, T, "BToA")
<1>1. /\ S \subseteq Nat /\ n \in Nat /\ n \notin S /\ n # None
      /\ \A i \in S : i < n /\ i # None
      /\ p.id = n
  BY FollowingPacket
<1>2. Taken(p, d)
  BY FollowingSegment
<1>3. /\ LastNumbers(g, S, tcp, "AToB") /\ LastNumbers(g, S, tcp, "BToA")
      /\ Indicates(g, tcp.retransmission, A(S))
      /\ Indicates(g, tcp.out_of_order, B(S))
      /\ Indicates(g, tcp.duplicate_ack, D(S))
  BY DEF Numbers
<1>4. /\ LastNumbers(g, S \cup {n}, a, "AToB") /\ PairsEffect(g, S, n, tcp, "AToB")
      /\ LastNumbers(g, S \cup {n}, a, "BToA") /\ PairsEffect(g, S, n, tcp, "BToA")
  BY <1>3, LastNumbersGrow
<1>5. IndicatorEffect(tcp, p, d, a)
  BY <1>2, NumbersApplied
<1>6. /\ IsSequenced(p, d) => d \in {"AToB", "BToA"}
      /\ IsAcknowledged(p, d) => d \in {"AToB", "BToA"}
  BY DirectionTyped DEF IsSequenced, IsAcknowledged, FlowDirection
<1>7. /\ A(S \cup {n}) = IF again THEN A(S) \cup {<<last, n>>} ELSE A(S)
      /\ again => last \in S
  BY <1>4, <1>6 DEF PairsEffect
<1>8. /\ B(S \cup {n}) = IF lower THEN B(S) \cup {<<last, n>>} ELSE B(S)
      /\ lower => last \in S
  BY <1>4, <1>6 DEF PairsEffect
<1>9. /\ D(S \cup {n}) = IF dup THEN D(S) \cup {<<lastAck, n>>} ELSE D(S)
      /\ dup => lastAck \in S
  BY <1>4, <1>6 DEF PairsEffect
<1>10. /\ a.retransmission = Once(tcp.retransmission, again, Indicator(d, last, n))
       /\ a.out_of_order = Once(tcp.out_of_order, lower, Indicator(d, last, n))
       /\ a.duplicate_ack = Once(tcp.duplicate_ack, dup, Indicator(d, lastAck, n))
  BY <1>1, <1>5 DEF IndicatorEffect, SequencePair, AckPair
<1>11. /\ A(S) \subseteq S \X S /\ B(S) \subseteq S \X S /\ D(S) \subseteq S \X S
  BY <1>1, PairsTyped
<1>12. again \in BOOLEAN /\ lower \in BOOLEAN /\ dup \in BOOLEAN
  BY DEF IsSequenced, IsAcknowledged, SameSequence, LowerSequence, SameAck
<1> HIDE DEF p, last, lastAck, again, lower, dup, A, B, D
<1>13. Indicates(g, a.retransmission, A(S \cup {n}))
  <2>1. CASE again
    <3>1. last \in Nat /\ A(S) \subseteq Nat \X Nat /\ \A x \in A(S) : x[2] < n
      BY <1>1, <1>7, <1>11, <2>1
    <3>2. Indicates(g, Once(tcp.retransmission, again, Indicator(Direction(g[n]), last, n)),
                    IF again THEN A(S) \cup {<<last, n>>} ELSE A(S))
      BY <1>1, <1>3, <1>12, <3>1, IndicatesGrows
    <3> QED BY <1>7, <1>10, <3>2 DEF p
  <2>2. CASE ~again
    BY <1>3, <1>7, <1>10, <2>2 DEF Once
  <2> QED BY <2>1, <2>2
<1>14. Indicates(g, a.out_of_order, B(S \cup {n}))
  <2>1. CASE lower
    <3>1. last \in Nat /\ B(S) \subseteq Nat \X Nat /\ \A x \in B(S) : x[2] < n
      BY <1>1, <1>8, <1>11, <2>1
    <3>2. Indicates(g, Once(tcp.out_of_order, lower, Indicator(Direction(g[n]), last, n)),
                    IF lower THEN B(S) \cup {<<last, n>>} ELSE B(S))
      BY <1>1, <1>3, <1>12, <3>1, IndicatesGrows
    <3> QED BY <1>8, <1>10, <3>2 DEF p
  <2>2. CASE ~lower
    BY <1>3, <1>8, <1>10, <2>2 DEF Once
  <2> QED BY <2>1, <2>2
<1>15. Indicates(g, a.duplicate_ack, D(S \cup {n}))
  <2>1. CASE dup
    <3>1. lastAck \in Nat /\ D(S) \subseteq Nat \X Nat /\ \A x \in D(S) : x[2] < n
      BY <1>1, <1>9, <1>11, <2>1
    <3>2. Indicates(g, Once(tcp.duplicate_ack, dup, Indicator(Direction(g[n]), lastAck, n)),
                    IF dup THEN D(S) \cup {<<lastAck, n>>} ELSE D(S))
      BY <1>1, <1>3, <1>12, <3>1, IndicatesGrows
    <3> QED BY <1>9, <1>10, <3>2 DEF p
  <2>2. CASE ~dup
    BY <1>3, <1>9, <1>10, <2>2 DEF Once
  <2> QED BY <2>1, <2>2
<1> QED BY <1>4, <1>13, <1>14, <1>15 DEF Numbers, A, B, D
-----------------------------------------------------------------------------
\* What one packet changes, view by view.

\* A duration is a number of ticks.
LEMMA DurationTyped ==
    ASSUME NEW start \in CaptureTimestamp, NEW end \in CaptureTimestamp
    PROVE  Duration(start, end) \in Optional(Nat)
<1> DEFINE fraction == CheckedSub(end.f, start.f)
           seconds == end.s - start.s
<1>1. /\ start.s \in Int /\ end.s \in Int /\ start.f \in Int /\ end.f \in Int
      /\ TicksPerSecond \in Nat
  BY TicksPerSecondAssumption DEF CaptureTimestamp
<1>2. CASE ~Before(end, start) /\ fraction # None
  <2>1. fraction \in Nat
    BY <1>1, <1>2 DEF CheckedSub
  <2>2. seconds \in Nat
    BY <1>1, <1>2 DEF Before
  <2> HIDE DEF fraction, seconds
  <2>3. seconds * TicksPerSecond \in Nat
    BY <1>1, <2>2
  <2>4. seconds * TicksPerSecond + fraction \in Nat
    BY <2>1, <2>3
  <2>5. Duration(start, end) = seconds * TicksPerSecond + fraction
    BY <1>2 DEF Duration, fraction, seconds
  <2> QED BY <2>4, <2>5 DEF Optional
<1>3. CASE ~(~Before(end, start) /\ fraction # None)
  BY <1>3 DEF Duration, Optional
<1> QED BY <1>2, <1>3

\* As above, when one of the instants may be missing.
LEMMA DurationBetweenTyped ==
    ASSUME NEW start \in Optional(CaptureTimestamp), NEW end \in Optional(CaptureTimestamp)
    PROVE  DurationBetween(start, end) \in Optional(Nat)
BY DurationTyped DEF DurationBetween, Optional

\* The catalog's note of a transaction.
TransactionEffect(flow, p, f) ==
    LET query == flow.dns_queries[p.dns.id]
        error == IF query # None THEN [first |-> query, second |-> p.id]
                                 ELSE [first |-> p.id, second |-> None]
    IN  /\ \A t \in TransactionIds :
             f.dns_queries[t] =
               IF t # p.dns.id THEN flow.dns_queries[t]
               ELSE IF p.dns.is_response THEN None
               ELSE IF p.dns.asks THEN p.id ELSE flow.dns_queries[t]
        /\ f.dns_error_responses =
             IF p.dns.is_response /\ p.dns.failed
             THEN flow.dns_error_responses \cup {error} ELSE flow.dns_error_responses

\* The clock's note of a transaction.
ClockEffect(flow, p, f) ==
    LET latency == DurationBetween(flow.first_dns_query[p.dns.id], p.ts)
    IN  /\ \A t \in TransactionIds :
             f.first_dns_query[t] =
               IF t # p.dns.id \/ p.ts = None THEN flow.first_dns_query[t]
               ELSE IF p.dns.is_response THEN None
               ELSE Once(flow.first_dns_query[t], p.dns.asks, p.ts)
        /\ f.dns_response_latency =
             IF p.ts # None /\ p.dns.is_response THEN Shorter(latency, flow.dns_response_latency)
             ELSE flow.dns_response_latency

SameViews(f, flow) == /\ f.packets = flow.packets /\ f.tcp = flow.tcp
                      /\ f.truncation_seen = flow.truncation_seen
                      /\ f.messages = flow.messages

SameTransactions(f, flow) == /\ f.dns_queries = flow.dns_queries
                             /\ f.dns_error_responses = flow.dns_error_responses

SameClocks(f, flow) == /\ f.first_dns_query = flow.first_dns_query
                       /\ f.dns_response_latency = flow.dns_response_latency

\* The catalog notes a transaction and nothing else.
LEMMA TransactionNoted ==
    ASSUME NEW flow \in Flows, NEW p, p.id \in Nat, p.dns \in DnsPacketData,
           NEW f, f = NoteTransaction(flow, p)
    PROVE  /\ f \in Flows /\ SameViews(f, flow) /\ SameClocks(f, flow)
           /\ TransactionEffect(flow, p, f)
<1> DEFINE i == p.dns.id
           query == flow.dns_queries[i]
           error == IF query # None THEN [first |-> query, second |-> p.id]
                                    ELSE [first |-> p.id, second |-> None]
           errors == IF p.dns.is_response /\ p.dns.failed
                     THEN flow.dns_error_responses \cup {error} ELSE flow.dns_error_responses
           queries == [flow.dns_queries EXCEPT
                         ![i] = IF p.dns.is_response THEN None
                                ELSE IF p.dns.asks THEN p.id ELSE query]
<1>1. i \in TransactionIds
  BY DEF DnsPacketData
<1>2. /\ flow.dns_queries \in [TransactionIds -> Optional(Nat)]
      /\ flow.dns_error_responses \subseteq PacketPairEvidence
  BY DEF Flows
<1>3. queries \in [TransactionIds -> Optional(Nat)]
  BY <1>1, <1>2 DEF Optional
<1>4. error \in PacketPairEvidence
  BY <1>1, <1>2 DEF Optional, PacketPairEvidence
<1>5. errors \subseteq PacketPairEvidence
  BY <1>2, <1>4
<1>6. f = [flow EXCEPT !.dns_queries = queries, !.dns_error_responses = errors]
  <2>1. CASE p.dns.is_response
    BY <2>1 DEF NoteTransaction
  <2>2. CASE ~p.dns.is_response
    BY <2>2 DEF NoteTransaction, Flows
  <2> QED BY <2>1, <2>2
<1> HIDE DEF queries, errors
<1>7. f \in Flows
  BY <1>3, <1>5, <1>6 DEF Flows
<1>8. /\ f.dns_queries = queries /\ f.dns_error_responses = errors
      /\ SameViews(f, flow) /\ SameClocks(f, flow)
  BY <1>6 DEF Flows, SameViews, SameClocks
<1>9. TransactionEffect(flow, p, f)
  BY <1>1, <1>2, <1>8 DEF TransactionEffect, queries, errors
<1> QED BY <1>7, <1>8, <1>9

\* The metrics time a transaction and nothing else.
LEMMA TransactionTimed ==
    ASSUME NEW flow \in Flows, NEW p, p.ts \in Optional(CaptureTimestamp),
           p.dns \in DnsPacketData, NEW f, f = TimeTransaction(flow, p)
    PROVE  /\ f \in Flows /\ SameViews(f, flow) /\ SameTransactions(f, flow)
           /\ ClockEffect(flow, p, f)
<1> DEFINE i == p.dns.id
           start == flow.first_dns_query[i]
           latency == DurationBetween(start, p.ts)
           best == IF p.ts # None /\ p.dns.is_response
                   THEN Shorter(latency, flow.dns_response_latency)
                   ELSE flow.dns_response_latency
           starts == [flow.first_dns_query EXCEPT
                        ![i] = IF p.ts = None THEN start
                               ELSE IF p.dns.is_response THEN None
                               ELSE Once(start, p.dns.asks, p.ts)]
<1>1. i \in TransactionIds
  BY DEF DnsPacketData
<1>2. /\ flow.first_dns_query \in [TransactionIds -> Optional(CaptureTimestamp)]
      /\ flow.dns_response_latency \in Optional(Nat)
  BY DEF Flows
<1>3. start \in Optional(CaptureTimestamp)
  BY <1>1, <1>2
<1>4. latency \in Optional(Nat)
  BY <1>3, DurationBetweenTyped
<1>5. best \in Optional(Nat)
  BY <1>2, <1>4 DEF Shorter
<1>6. starts \in [TransactionIds -> Optional(CaptureTimestamp)]
  BY <1>1, <1>2, <1>3 DEF Optional, Once
<1>7. f = [flow EXCEPT !.first_dns_query = starts, !.dns_response_latency = best]
  <2>1. CASE p.ts = None
    BY <1>1, <1>2, <2>1 DEF TimeTransaction, Flows
  <2>2. CASE p.ts # None /\ p.dns.is_response
    BY <2>2 DEF TimeTransaction
  <2>3. CASE p.ts # None /\ ~p.dns.is_response
    BY <2>3 DEF TimeTransaction, Flows
  <2> QED BY <2>1, <2>2, <2>3
<1> HIDE DEF starts, best
<1>8. f \in Flows
  BY <1>5, <1>6, <1>7 DEF Flows
<1>9. /\ f.first_dns_query = starts /\ f.dns_response_latency = best
      /\ SameViews(f, flow) /\ SameTransactions(f, flow)
  BY <1>7 DEF Flows, SameViews, SameTransactions
<1>10. ClockEffect(flow, p, f)
  BY <1>1, <1>2, <1>9 DEF ClockEffect, starts, best
<1> QED BY <1>8, <1>9, <1>10

\* A new connection and a new flow are what such records may be.
LEMMA NewTyped ==
    /\ TcpFlowAccumulator \in TcpFlowAccumulators
    /\ NewFlow \in Flows
    /\ NewFlow.tcp = None
<1>1. TcpDirectionAccumulator \in TcpDirectionAccumulators
  BY DEF TcpDirectionAccumulator, TcpDirectionAccumulators, Optional
<1>2. TcpFlowAccumulator \in TcpFlowAccumulators
  BY <1>1 DEF TcpFlowAccumulator, TcpFlowAccumulators, Optional
<1>3. FlowAccumulator \in FlowAccumulators
  BY DEF FlowAccumulator, FlowAccumulators, Optional
<1>4. /\ [t \in TransactionIds |-> None] \in [TransactionIds -> Optional(Nat)]
      /\ [t \in TransactionIds |-> None] \in [TransactionIds -> Optional(CaptureTimestamp)]
  BY DEF Optional
<1>5. <<>> \in Seq(Messages)
  OBVIOUS
<1>6. NewFlow \in Flows
  BY <1>3, <1>4, <1>5 DEF NewFlow, Flows, Optional
<1> QED BY <1>2, <1>6 DEF NewFlow

\* The counts of a flow are counts, and its times instants.
LEMMA CountsTyped ==
    ASSUME NEW acc \in FlowAccumulators, NEW p, p.id \in Nat,
           p.ts \in Optional(CaptureTimestamp), NEW d
    PROVE  ApplyPacketToFlow(acc, p, d) \in FlowAccumulators
<1>1. /\ acc.packets_from_a \in Nat /\ acc.packets_from_b \in Nat
      /\ acc.first_packet \in Optional(Nat)
      /\ acc.first_timestamp \in Optional(CaptureTimestamp)
      /\ acc.last_timestamp \in Optional(CaptureTimestamp)
  BY DEF FlowAccumulators
<1> DEFINE timed == p.ts # None
           earlier == timed /\ acc.first_timestamp # None
                            /\ Before(p.ts, acc.first_timestamp)
           later == timed /\ acc.last_timestamp # None
                          /\ Before(acc.last_timestamp, p.ts)
           fromA == acc.packets_from_a + IF d = "BToA" THEN 0 ELSE 1
           fromB == acc.packets_from_b + IF d = "BToA" THEN 1 ELSE 0
           packet == Once(acc.first_packet, TRUE, p.id)
           first == IF earlier THEN p.ts ELSE Once(acc.first_timestamp, timed, p.ts)
           last == IF later THEN p.ts ELSE Once(acc.last_timestamp, timed, p.ts)
<1>2. fromA \in Nat /\ fromB \in Nat
  BY <1>1
<1>3. packet \in Optional(Nat)
  BY <1>1 DEF Once, Optional
<1>4. first \in Optional(CaptureTimestamp) /\ last \in Optional(CaptureTimestamp)
  BY <1>1 DEF Once
<1>5. ApplyPacketToFlow(acc, p, d) =
        [packets_from_a |-> fromA, packets_from_b |-> fromB, first_packet |-> packet,
         first_timestamp |-> first, last_timestamp |-> last]
  BY DEF ApplyPacketToFlow
<1> HIDE DEF fromA, fromB, packet, first, last
<1> QED BY <1>2, <1>3, <1>4, <1>5 DEF FlowAccumulators

Connection(flow) == IF flow.tcp = None THEN TcpFlowAccumulator ELSE flow.tcp

ViewsEffect(flow, p, d, f) ==
    /\ f.packets = ApplyPacketToFlow(flow.packets, p, d)
    /\ f.truncation_seen <=> flow.truncation_seen \/ p.truncated
    /\ f.tcp = IF p.tcp = None THEN flow.tcp
               ELSE ApplyTcpPacketToFlow(Connection(flow), p, d)
    /\ f.messages = Append(flow.messages, [packet |-> p.id, timestamp |-> p.ts,
                                           direction |-> d])

\* All views of a flow.
LEMMA PacketApplied ==
    ASSUME NEW flow \in Flows, NEW p \in PacketRecord, NEW d \in FlowDirection,
           NEW f, f = ApplyPacket(flow, p, d)
    PROVE  /\ f \in Flows
           /\ ViewsEffect(flow, p, d, f)
           /\ p.dns = None => SameTransactions(f, flow) /\ SameClocks(f, flow)
           /\ p.dns # None => /\ p.dns \in DnsPacketData
                              /\ TransactionEffect(flow, p, f)
                              /\ ClockEffect(flow, p, f)
<1> DEFINE packets == ApplyPacketToFlow(flow.packets, p, d)
           truncated == flow.truncation_seen \/ p.truncated
           tcp == IF p.tcp = None THEN flow.tcp
                  ELSE ApplyTcpPacketToFlow(Connection(flow), p, d)
           messages == Append(flow.messages, [packet |-> p.id, timestamp |-> p.ts,
                                              direction |-> d])
           counted == [flow EXCEPT !.packets = packets, !.truncation_seen = truncated,
                                   !.tcp = tcp, !.messages = messages]
           noted == NoteTransaction(counted, p)
<1>1. /\ p.id \in Nat /\ p.ts \in Optional(CaptureTimestamp) /\ p.truncated \in BOOLEAN
      /\ p.tcp \in Optional(TcpPacketData) /\ p.dns \in Optional(DnsPacketData)
  BY DEF PacketRecord
<1>2. /\ flow.packets \in FlowAccumulators /\ flow.truncation_seen \in BOOLEAN
      /\ flow.tcp \in Optional(TcpFlowAccumulators) /\ flow.messages \in Seq(Messages)
  BY DEF Flows
<1>3. packets \in FlowAccumulators
  BY <1>1, <1>2, CountsTyped
<1>4. Connection(flow) \in TcpFlowAccumulators
  BY <1>2, NewTyped DEF Connection, Optional
<1>5. tcp \in Optional(TcpFlowAccumulators)
  <2>1. CASE p.tcp = None
    BY <1>2, <2>1
  <2>2. CASE p.tcp # None
    <3>1. Taken(p, d)
      BY <1>1, <2>2 DEF Taken, Optional
    <3>2. Effect(Connection(flow), p, d, ApplyTcpPacketToFlow(Connection(flow), p, d))
      BY <1>4, <3>1, SegmentApplied
    <3> QED BY <2>2, <3>2 DEF Effect, Optional
  <2> QED BY <2>1, <2>2
<1>6. messages \in Seq(Messages)
  <2>1. [packet |-> p.id, timestamp |-> p.ts, direction |-> d] \in Messages
    BY <1>1 DEF Messages
  <2> QED BY <1>2, <2>1, AppendProperties
<1>7. truncated \in BOOLEAN
  BY <1>1, <1>2
<1>8. f = IF p.dns = None THEN counted ELSE TimeTransaction(noted, p)
  BY DEF ApplyPacket, Connection
<1> HIDE DEF packets, truncated, tcp, messages
<1>9. /\ counted \in Flows
      /\ counted.packets = packets /\ counted.truncation_seen = truncated
      /\ counted.tcp = tcp /\ counted.messages = messages
      /\ SameTransactions(counted, flow) /\ SameClocks(counted, flow)
  BY <1>3, <1>5, <1>6, <1>7 DEF Flows, SameTransactions, SameClocks
<1> HIDE DEF counted
<1>10. ASSUME NEW v, v.packets = packets, v.truncation_seen = truncated,
              v.tcp = tcp, v.messages = messages
       PROVE  ViewsEffect(flow, p, d, v)
  BY <1>10 DEF ViewsEffect, packets, truncated, tcp, messages
<1>11. CASE p.dns = None
  <2>1. f = counted
    BY <1>8, <1>11
  <2> QED BY <1>9, <1>10, <1>11, <2>1
<1>12. CASE p.dns # None
  <2>1. p.dns \in DnsPacketData
    BY <1>1, <1>12 DEF Optional
  <2>2. /\ noted \in Flows /\ SameViews(noted, counted) /\ SameClocks(noted, counted)
        /\ TransactionEffect(counted, p, noted)
    BY <1>1, <1>9, <2>1, TransactionNoted
  <2> HIDE DEF noted
  <2>3. /\ f \in Flows /\ SameViews(f, noted) /\ SameTransactions(f, noted)
        /\ ClockEffect(noted, p, f)
    BY <1>1, <1>8, <1>12, <2>1, <2>2, TransactionTimed
  <2>4. TransactionEffect(flow, p, f)
    BY <1>9, <2>2, <2>3 DEF TransactionEffect, SameTransactions
  <2>5. ClockEffect(flow, p, f)
    BY <1>9, <2>2, <2>3 DEF ClockEffect, SameClocks
  <2>6. ViewsEffect(flow, p, d, f)
    BY <1>9, <1>10, <2>2, <2>3 DEF SameViews
  <2> QED BY <1>12, <2>1, <2>3, <2>4, <2>5, <2>6
<1> QED BY <1>11, <1>12
-----------------------------------------------------------------------------
\* The DNS transactions of a flow, one packet further.

IsOf(p, t) == p.dns # None /\ p.dns.id = t /\ (p.dns.is_response \/ p.dns.asks)

\* A message joins the transaction it names.
LEMMA TransactionOfGrows ==
    ASSUME NEW g, NEW S, NEW n, NEW t
    PROVE  TransactionOf(g, S \cup {n}, t) =
              IF IsOf(g[n], t) THEN TransactionOf(g, S, t) \cup {n} ELSE TransactionOf(g, S, t)
BY DEF TransactionOf, IsOf

\* What a response answered before does not change.
LEMMA AnsweredStays ==
    ASSUME NEW g, NEW S, S \subseteq Nat, NEW n \in Nat, \A i \in S : i < n,
           NEW r \in S
    PROVE  Answered(g, S \cup {n}, r) = Answered(g, S, r)
<1> DEFINE t == g[r].dns.id
           M == TransactionOf(g, S, t)
           N == TransactionOf(g, S \cup {n}, t)
<1>1. N = M \cup {n} \/ N = M
  BY TransactionOfGrows
<1>2. M \subseteq S
  BY DEF TransactionOf
<1>3. ~(n < r) /\ r # n /\ r \in Nat
  OBVIOUS
<1> HIDE DEF M, N
<1>4. \A q \in N : q < r => q \in M
  BY <1>1, <1>3
<1>5. M \subseteq N
  BY <1>1
<1>6. \A q \in M : q < r => (Adjacent(N, q, r) <=> Adjacent(M, q, r))
  BY <1>1, <1>2, <1>3 DEF Adjacent
<1> QED BY <1>4, <1>5, <1>6 DEF Answered, M, N

\* The newest message of a transaction is the one a new response answers.
LEMMA AnsweredByNew ==
    ASSUME NEW g, NEW S, S \subseteq Nat, NEW n \in Nat, \A i \in S : i < n,
           IsOf(g[n], g[n].dns.id),
           NEW x, Unanswered(g, x, TransactionOf(g, S, g[n].dns.id))
    PROVE  Answered(g, S \cup {n}, n) = IF x = None THEN {} ELSE {x}
<1> DEFINE M == TransactionOf(g, S, g[n].dns.id)
           N == TransactionOf(g, S \cup {n}, g[n].dns.id)
<1>1. N = M \cup {n}
  BY TransactionOfGrows
<1>2. M \subseteq S
  BY DEF TransactionOf
<1>3. \A q : q \in Answered(g, S \cup {n}, n) <=>
               q \in N /\ q < n /\ ~g[q].dns.is_response /\ Adjacent(N, q, n)
  BY DEF Answered
<1> HIDE DEF M, N
<1>4. \A q \in M : Adjacent(N, q, n) <=> \A j \in M : j <= q
  BY <1>1, <1>2 DEF Adjacent
<1>5. \A q : q \in N /\ q < n <=> q \in M
  <2>1. ~(n < n) /\ \A q \in M : q < n
    BY <1>2
  <2> QED BY <1>1, <2>1
<1>6. \A q : q \in Answered(g, S \cup {n}, n) <=>
               q \in M /\ ~g[q].dns.is_response /\ \A j \in M : j <= q
  BY <1>3, <1>4, <1>5
<1>7. CASE x = None
  <2>1. M = {} \/ \E m \in M : g[m].dns.is_response /\ \A j \in M : j <= m
    BY <1>7 DEF Unanswered, M
  <2>2. \A q : q \notin Answered(g, S \cup {n}, n)
    <3>1. SUFFICES ASSUME NEW q \in Answered(g, S \cup {n}, n)
                   PROVE  FALSE
      OBVIOUS
    <3>2. q \in M /\ ~g[q].dns.is_response /\ \A j \in M : j <= q
      BY <1>6
    <3>3. PICK m \in M : g[m].dns.is_response /\ \A j \in M : j <= m
      BY <2>1, <3>2
    <3>4. m = q
      BY <1>2, <3>2, <3>3
    <3> QED BY <3>2, <3>3, <3>4
  <2> QED BY <1>7, <2>2
<1>8. CASE x # None
  <2>1. x \in M /\ ~g[x].dns.is_response /\ \A j \in M : j <= x
    BY <1>8 DEF Unanswered, M
  <2>2. \A q \in M : (\A j \in M : j <= q) => q = x
    BY <1>2, <2>1
  <2> QED BY <1>6, <1>8, <2>1, <2>2
<1> QED BY <1>7, <1>8

\* What the catalog knows of the transactions.
LEMMA TransactionsGrow ==
    ASSUME NEW g, NEW S, NEW n, Follows(g, S, n),
           NEW flow, Transactions(g, S, flow), NEW f,
           g[n].dns = None => SameTransactions(f, flow),
           g[n].dns # None => g[n].dns \in DnsPacketData /\ TransactionEffect(flow, g[n], f)
    PROVE  Transactions(g, S \cup {n}, f)
<1> DEFINE p == g[n]
           query == flow.dns_queries[p.dns.id]
           error == IF query # None THEN [first |-> query, second |-> n]
                                    ELSE [first |-> n, second |-> None]
           fails == p.dns # None /\ p.dns.is_response /\ p.dns.failed
<1>1. /\ S \subseteq Nat /\ n \in Nat /\ n \notin S /\ n # None
      /\ \A i \in S : i < n /\ i # None
      /\ p.id = n
  BY FollowingPacket
<1>2. /\ \A t \in TransactionIds :
            Unanswered(g, flow.dns_queries[t], TransactionOf(g, S, t))
      /\ flow.dns_error_responses = {ErrorPair(g, S, r) : r \in Errors(g, S)}
  BY DEF Transactions
<1>3. ASSUME NEW t \in TransactionIds
      PROVE  Unanswered(g, f.dns_queries[t], TransactionOf(g, S \cup {n}, t))
  <2>1. Unanswered(g, flow.dns_queries[t], TransactionOf(g, S, t))
    BY <1>2
  <2>2. TransactionOf(g, S, t) \subseteq S
    BY DEF TransactionOf
  <2>3. CASE ~IsOf(p, t)
    <3>1. TransactionOf(g, S \cup {n}, t) = TransactionOf(g, S, t)
      BY <2>3, TransactionOfGrows
    <3>2. f.dns_queries[t] = flow.dns_queries[t]
      BY <2>3 DEF IsOf, SameTransactions, TransactionEffect
    <3> QED BY <2>1, <3>1, <3>2
  <2>4. CASE IsOf(p, t)
    <3>1. TransactionOf(g, S \cup {n}, t) = TransactionOf(g, S, t) \cup {n}
      BY <2>4, TransactionOfGrows
    <3>2. f.dns_queries[t] = IF p.dns.is_response THEN None ELSE n
      BY <1>1, <2>4 DEF IsOf, TransactionEffect
    <3>3. \A j \in TransactionOf(g, S, t) \cup {n} : j <= n
      <4>1. ASSUME NEW j \in TransactionOf(g, S, t)
            PROVE  j <= n
        <5>1. j \in S
          BY <2>2
        <5> QED BY <1>1, <5>1
      <4> QED BY <1>1, <4>1
    <3> HIDE DEF p
    <3>4. CASE p.dns.is_response
      BY <3>1, <3>2, <3>3, <3>4 DEF Unanswered, p
    <3>5. CASE ~p.dns.is_response
      BY <1>1, <3>1, <3>2, <3>3, <3>5 DEF Unanswered, p
    <3> QED BY <3>4, <3>5
  <2> QED BY <2>3, <2>4
<1>4. Errors(g, S \cup {n}) = IF fails THEN Errors(g, S) \cup {n} ELSE Errors(g, S)
  BY DEF Errors
<1>5. \A r \in Errors(g, S) : ErrorPair(g, S \cup {n}, r) = ErrorPair(g, S, r)
  <2>1. Errors(g, S) \subseteq S
    BY DEF Errors
  <2>2. \A r \in S : Answered(g, S \cup {n}, r) = Answered(g, S, r)
    BY <1>1, AnsweredStays
  <2> QED BY <2>1, <2>2 DEF ErrorPair
<1>6. fails => ErrorPair(g, S \cup {n}, n) = error
  <2>1. SUFFICES ASSUME fails
                 PROVE  ErrorPair(g, S \cup {n}, n) = error
    OBVIOUS
  <2>2. IsOf(p, p.dns.id) /\ p.dns.id \in TransactionIds
    BY <2>1 DEF IsOf, DnsPacketData
  <2>3. Unanswered(g, query, TransactionOf(g, S, p.dns.id))
    BY <1>2, <2>2
  <2> HIDE DEF query
  <2>4. Answered(g, S \cup {n}, n) = IF query = None THEN {} ELSE {query}
    BY <1>1, <2>2, <2>3, AnsweredByNew
  <2>5. CASE query = None
    BY <2>4, <2>5 DEF ErrorPair
  <2>6. CASE query # None
    <3>1. query \in S
      BY <2>3, <2>6 DEF Unanswered, TransactionOf
    <3>2. Latest({query}) = query
      BY <1>1, <3>1 DEF Latest
    <3> QED BY <2>4, <2>6, <3>2 DEF ErrorPair
  <2> QED BY <2>5, <2>6
<1>7. f.dns_error_responses =
        IF fails THEN flow.dns_error_responses \cup {error} ELSE flow.dns_error_responses
  BY <1>1 DEF SameTransactions, TransactionEffect
<1> HIDE DEF fails, error
<1>8. f.dns_error_responses = {ErrorPair(g, S \cup {n}, r) : r \in Errors(g, S \cup {n})}
  <2>1. CASE fails
    BY <1>2, <1>4, <1>5, <1>6, <1>7, <2>1
  <2>2. CASE ~fails
    BY <1>2, <1>4, <1>5, <1>7, <2>2
  <2> QED BY <2>1, <2>2
<1> QED BY <1>3, <1>8 DEF Transactions
-----------------------------------------------------------------------------
\* The clocks of the transactions, one packet further.

\* A timed message joins the transaction it names.
LEMMA TimedOfGrows ==
    ASSUME NEW g, NEW S, NEW n, NEW t
    PROVE  TimedOf(g, S \cup {n}, t) =
              IF IsOf(g[n], t) /\ g[n].ts # None THEN TimedOf(g, S, t) \cup {n}
              ELSE TimedOf(g, S, t)
<1>1. CASE IsOf(g[n], t)
  <2>1. TransactionOf(g, S \cup {n}, t) = TransactionOf(g, S, t) \cup {n}
    BY <1>1, TransactionOfGrows
  <2> QED BY <1>1, <2>1 DEF TimedOf
<1>2. CASE ~IsOf(g[n], t)
  <2>1. TransactionOf(g, S \cup {n}, t) = TransactionOf(g, S, t)
    BY <1>2, TransactionOfGrows
  <2> QED BY <1>2, <2>1 DEF TimedOf
<1> QED BY <1>1, <1>2

\* At most one query awaits an answer, and none when the clock is stopped.
LEMMA OneAwaits ==
    ASSUME NEW g, NEW M, M \subseteq Nat, NEW start, Waits(g, start, M),
           NEW q, Awaits(g, M, q)
    PROVE  start # None /\ start = g[q].ts /\ \A x : Awaits(g, M, x) => x = q
<1>1. /\ q \in M /\ q \in Nat /\ ~g[q].dns.is_response
      /\ \A m \in M : q < m => ~g[m].dns.is_response
  BY DEF Awaits
<1>2. ASSUME NEW x, Awaits(g, M, x), x # q
      PROVE  FALSE
  <2>1. /\ x \in M /\ x \in Nat /\ ~g[x].dns.is_response
        /\ \A m \in M : x < m => ~g[m].dns.is_response
    BY <1>2 DEF Awaits
  <2>2. CASE x < q
    <3>1. PICK r \in M : x <= r /\ r < q /\ g[r].dns.is_response
      BY <2>1, <2>2 DEF Awaits
    <3>2. r = x \/ x < r
      BY <2>1, <3>1
    <3> QED BY <2>1, <3>1, <3>2
  <2>3. CASE q < x
    <3>1. PICK r \in M : q <= r /\ r < x /\ g[r].dns.is_response
      BY <1>1, <1>2, <2>3 DEF Awaits
    <3>2. r = q \/ q < r
      BY <1>1, <3>1
    <3> QED BY <1>1, <3>1, <3>2
  <2> QED BY <1>1, <1>2, <2>1, <2>2, <2>3
<1>3. start # None
  <2>1. SUFFICES ASSUME start = None
                 PROVE  FALSE
    OBVIOUS
  <2>2. PICK r \in M : q <= r /\ g[r].dns.is_response
    BY <1>1, <2>1 DEF Waits
  <2>3. r = q \/ q < r
    BY <1>1, <2>2
  <2> QED BY <1>1, <2>2, <2>3
<1>4. start = g[q].ts
  BY <1>2, <1>3 DEF Waits
<1> QED BY <1>2, <1>3, <1>4

\* A new response is measured back to the query that awaits one.
LEMMA MeasuredGrows ==
    ASSUME NEW g, NEW M, M \subseteq Nat, NEW n \in Nat, \A i \in M : i < n
    PROVE  Measured(g, M \cup {n}) =
              IF g[n].dns.is_response
              THEN Measured(g, M) \cup {<<q, n>> : q \in {q \in M : Awaits(g, M, q)}}
              ELSE Measured(g, M)
<1> DEFINE N == M \cup {n}
<1>1. ~(n < n) /\ \A i \in M : ~(n < i) /\ i < n /\ i # n
  OBVIOUS
<1>2. \A a, b \in M : <<a, b>> \in Measured(g, N) <=> <<a, b>> \in Measured(g, M)
  <2>1. SUFFICES ASSUME NEW a \in M, NEW b \in M
                 PROVE  <<a, b>> \in Measured(g, N) <=> <<a, b>> \in Measured(g, M)
    OBVIOUS
  <2>2. <<a, b>>[1] = a /\ <<a, b>>[2] = b
    OBVIOUS
  <2>3. (\A m \in N : a < m /\ m < b => ~g[m].dns.is_response)
          <=> (\A m \in M : a < m /\ m < b => ~g[m].dns.is_response)
    BY <1>1
  <2>4. (\A m \in N : m < a => \E r \in N : m <= r /\ r < a /\ g[r].dns.is_response)
          <=> (\A m \in M : m < a => \E r \in M : m <= r /\ r < a /\ g[r].dns.is_response)
    BY <1>1
  <2> HIDE DEF N
  <2>5. <<a, b>> \in N \X N /\ <<a, b>> \in M \X M
    BY DEF N
  <2> QED BY <2>2, <2>3, <2>4, <2>5 DEF Measured
<1>3. \A b \in N : <<n, b>> \notin Measured(g, N)
  <2>1. SUFFICES ASSUME NEW b \in N
                 PROVE  ~(n < b)
    BY DEF Measured
  <2> QED BY <1>1
<1>4. \A a \in M : <<a, n>> \in Measured(g, N) <=> g[n].dns.is_response /\ Awaits(g, M, a)
  <2>1. SUFFICES ASSUME NEW a \in M
                 PROVE  <<a, n>> \in Measured(g, N) <=> g[n].dns.is_response /\ Awaits(g, M, a)
    OBVIOUS
  <2>2. <<a, n>>[1] = a /\ <<a, n>>[2] = n
    OBVIOUS
  <2>3. (\A m \in N : a < m /\ m < n => ~g[m].dns.is_response)
          <=> (\A m \in M : a < m => ~g[m].dns.is_response)
    BY <1>1
  <2>4. (\A m \in N : m < a => \E r \in N : m <= r /\ r < a /\ g[r].dns.is_response)
          <=> (\A m \in M : m < a => \E r \in M : m <= r /\ r < a /\ g[r].dns.is_response)
    BY <1>1
  <2> HIDE DEF N
  <2>5. <<a, n>> \in N \X N /\ a < n
    BY <1>1 DEF N
  <2> QED BY <2>2, <2>3, <2>4, <2>5 DEF Measured, Awaits
<1>5. /\ Measured(g, N) \subseteq N \X N /\ Measured(g, M) \subseteq M \X M
  BY DEF Measured
<1> DEFINE Q == {q \in M : Awaits(g, M, q)}
           R == {<<q, n>> : q \in Q}
<1>6. \A a, b \in N : <<a, b>> \in Measured(g, N) <=>
                         \/ <<a, b>> \in Measured(g, M)
                         \/ g[n].dns.is_response /\ <<a, b>> \in R
  <2>1. SUFFICES ASSUME NEW a \in N, NEW b \in N
                 PROVE  <<a, b>> \in Measured(g, N) <=>
                          \/ <<a, b>> \in Measured(g, M)
                          \/ g[n].dns.is_response /\ <<a, b>> \in R
    OBVIOUS
  <2>2. <<a, b>> \in R <=> b = n /\ a \in M /\ Awaits(g, M, a)
    OBVIOUS
  <2>3. <<a, b>> \in Measured(g, M) => a \in M /\ b \in M
    BY <1>5
  <2> HIDE DEF R
  <2> QED BY <1>1, <1>2, <1>3, <1>4, <2>2, <2>3
<1>7. R \subseteq N \X N /\ Measured(g, M) \subseteq N \X N
  BY <1>5
<1> HIDE DEF R, N
<1>8. \A x : x \in Measured(g, N) <=>
                \/ x \in Measured(g, M)
                \/ g[n].dns.is_response /\ x \in R
  <2>1. \A x \in N \X N : \E a, b \in N : x = <<a, b>>
    OBVIOUS
  <2> QED BY <1>5, <1>6, <1>7, <2>1
<1> HIDE DEF Q
<1>9. CASE g[n].dns.is_response
  <2>1. Measured(g, N) = Measured(g, M) \cup R
    BY <1>8, <1>9
  <2> QED BY <1>9, <2>1 DEF N, R, Q
<1>10. CASE ~g[n].dns.is_response
  <2>1. Measured(g, N) = Measured(g, M)
    BY <1>8, <1>10
  <2> QED BY <1>10, <2>1 DEF N
<1> QED BY <1>9, <1>10

\* A message that joins starts the clock, stops it or finds it running.
LEMMA WaitsGrows ==
    ASSUME NEW g, NEW M, M \subseteq Nat, NEW n \in Nat, \A i \in M : i < n,
           \A i \in M \cup {n} : g[i].ts # None,
           NEW start, Waits(g, start, M), NEW then,
           then = IF g[n].dns.is_response THEN None
                  ELSE IF start = None THEN g[n].ts ELSE start
    PROVE  Waits(g, then, M \cup {n})
<1> DEFINE N == M \cup {n}
<1>1. ~(n < n) /\ n <= n /\ \A i \in M : ~(n < i) /\ i < n /\ i <= n
  OBVIOUS
<1>2. CASE g[n].dns.is_response
  <2>1. \A m \in N : m <= n
    BY <1>1
  <2>2. n \in N
    OBVIOUS
  <2> HIDE DEF N
  <2> QED BY <1>2, <2>1, <2>2 DEF Waits, N
<1>3. CASE ~g[n].dns.is_response /\ start = None
  <2>1. \A m \in M : \E r \in M : m <= r /\ g[r].dns.is_response
    BY <1>3 DEF Waits
  <2>2. \A m \in N : m < n => \E r \in N : m <= r /\ r < n /\ g[r].dns.is_response
    BY <1>1, <2>1
  <2>3. \A m \in N : n < m => ~g[m].dns.is_response
    BY <1>1
  <2>4. n \in N
    OBVIOUS
  <2> HIDE DEF N
  <2>5. Awaits(g, N, n)
    BY <1>3, <2>2, <2>3, <2>4 DEF Awaits
  <2> QED BY <1>3, <2>4, <2>5 DEF Waits, N
<1>4. CASE ~g[n].dns.is_response /\ start # None
  <2>1. PICK q \in M : Awaits(g, M, q) /\ start = g[q].ts
    BY <1>4 DEF Waits
  <2>2. /\ q \in M /\ ~g[q].dns.is_response
        /\ \A m \in M : m < q => \E r \in M : m <= r /\ r < q /\ g[r].dns.is_response
        /\ \A m \in M : q < m => ~g[m].dns.is_response
    BY <2>1 DEF Awaits
  <2>3. \A m \in N : m < q => \E r \in N : m <= r /\ r < q /\ g[r].dns.is_response
    BY <1>1, <2>2
  <2>4. \A m \in N : q < m => ~g[m].dns.is_response
    BY <1>4, <2>2
  <2>5. q \in N
    BY <2>2
  <2> HIDE DEF N
  <2>6. Awaits(g, N, q)
    BY <2>2, <2>3, <2>4, <2>5 DEF Awaits
  <2>7. then = start
    BY <1>4
  <2> QED BY <1>4, <2>1, <2>5, <2>6, <2>7 DEF Waits, N
<1> QED BY <1>2, <1>3, <1>4

\* The latencies that a packet adds.
NewLatency(g, n, start) ==
    IF g[n].ts # None /\ g[n].dns.is_response
    THEN {DurationBetween(start, g[n].ts)} \ {None} ELSE {}

\* A new response is measured by the clock of its transaction.
LEMMA LatenciesGrow ==
    ASSUME NEW g, NEW S, NEW n, Follows(g, S, n), g[n].dns \in DnsPacketData,
           NEW start, Waits(g, start, TimedOf(g, S, g[n].dns.id))
    PROVE  Latencies(g, S \cup {n}) = Latencies(g, S) \cup NewLatency(g, n, start)
<1> DEFINE p == g[n]
           i == p.dns.id
           M(t) == TimedOf(g, S, t)
           N(t) == TimedOf(g, S \cup {n}, t)
           extra == IF p.ts # None /\ p.dns.is_response
                    THEN {<<q, n>> : q \in {q \in M(i) : Awaits(g, M(i), q)}} ELSE {}
           L(x) == Duration(g[x[1]].ts, g[x[2]].ts)
<1>1. /\ S \subseteq Nat /\ n \in Nat /\ \A j \in S : j < n
  BY FollowingPacket
<1>2. i \in TransactionIds /\ p.dns # None
  BY NoneAssumption DEF DnsPacketData
<1>3. \A t : M(t) \subseteq S /\ \A j \in M(t) : g[j].ts # None
  BY DEF TimedOf, TransactionOf
<1>4. \A t : t # i => N(t) = M(t)
  BY TimedOfGrows DEF IsOf
<1>5. Measured(g, N(i)) = Measured(g, M(i)) \cup extra
  <2>1. CASE IsOf(p, i) /\ p.ts # None
    <3>1. N(i) = M(i) \cup {n}
      BY <2>1, TimedOfGrows
    <3>2. M(i) \subseteq Nat /\ \A j \in M(i) : j < n
      BY <1>1, <1>3
    <3>3. Measured(g, M(i) \cup {n}) =
            IF g[n].dns.is_response
            THEN Measured(g, M(i)) \cup {<<q, n>> : q \in {q \in M(i) : Awaits(g, M(i), q)}}
            ELSE Measured(g, M(i))
      <4> HIDE DEF M, i, p
      <4> QED BY <1>1, <3>2, MeasuredGrows
    <3> QED BY <2>1, <3>1, <3>3
  <2>2. CASE ~(IsOf(p, i) /\ p.ts # None)
    <3>1. N(i) = M(i)
      BY <2>2, TimedOfGrows
    <3>2. extra = {}
      BY <1>2, <2>2 DEF IsOf
    <3> HIDE DEF extra, M, N
    <3> QED BY <3>1, <3>2
  <2> QED BY <2>1, <2>2
<1> HIDE DEF M, N, extra, i
<1>6. MeasuredPairs(g, S \cup {n}) = MeasuredPairs(g, S) \cup extra
  <2>1. \A x : x \in MeasuredPairs(g, S \cup {n}) <=> \E t \in TransactionIds : x \in Measured(g, N(t))
    BY DEF MeasuredPairs, N
  <2>2. \A x : x \in MeasuredPairs(g, S) <=> \E t \in TransactionIds : x \in Measured(g, M(t))
    BY DEF MeasuredPairs, M
  <2>3. \A x : (\E t \in TransactionIds : x \in Measured(g, N(t)))
                  <=> x \in extra \/ \E t \in TransactionIds : x \in Measured(g, M(t))
    BY <1>2, <1>4, <1>5
  <2> QED BY <2>1, <2>2, <2>3
<1>7. {L(x) : x \in extra} \ {None} = NewLatency(g, n, start)
  <2>1. CASE p.ts # None /\ p.dns.is_response
    <3>1. extra = {<<q, n>> : q \in {q \in M(i) : Awaits(g, M(i), q)}}
      BY <2>1 DEF extra
    <3>2. \A q : L(<<q, n>>) = Duration(g[q].ts, p.ts)
      OBVIOUS
    <3>3. {L(x) : x \in extra} = {Duration(g[q].ts, p.ts) : q \in {q \in M(i) : Awaits(g, M(i), q)}}
      <4> HIDE DEF L, p
      <4> QED BY <3>1, <3>2
    <3>4. Waits(g, start, M(i)) /\ M(i) \subseteq Nat
      BY <1>1, <1>3 DEF M, i
    <3>5. CASE start = None
      <4>1. {q \in M(i) : Awaits(g, M(i), q)} = {}
        BY <3>4, <3>5, OneAwaits
      <4>2. {L(x) : x \in extra} = {}
        BY <3>3, <4>1
      <4>3. DurationBetween(start, p.ts) = None
        BY <3>5 DEF DurationBetween
      <4> HIDE DEF L
      <4> QED BY <2>1, <4>2, <4>3 DEF NewLatency
    <3>6. CASE start # None
      <4>1. PICK q \in M(i) : Awaits(g, M(i), q) /\ start = g[q].ts
        BY <3>4, <3>6 DEF Waits
      <4>2. {x \in M(i) : Awaits(g, M(i), x)} = {q}
        BY <3>4, <4>1, OneAwaits
      <4>3. {L(x) : x \in extra} = {Duration(start, p.ts)}
        <5> HIDE DEF L, p
        <5> QED BY <3>3, <4>1, <4>2
      <4>4. DurationBetween(start, p.ts) = Duration(start, p.ts)
        BY <2>1, <3>6 DEF DurationBetween
      <4> HIDE DEF L
      <4> QED BY <2>1, <4>3, <4>4 DEF NewLatency
    <3> QED BY <3>5, <3>6
  <2>2. CASE ~(p.ts # None /\ p.dns.is_response)
    <3>1. extra = {}
      BY <2>2 DEF extra
    <3> QED BY <2>2, <3>1 DEF NewLatency
  <2> QED BY <2>1, <2>2
<1>8. /\ Latencies(g, S \cup {n}) = {L(x) : x \in MeasuredPairs(g, S \cup {n})} \ {None}
      /\ Latencies(g, S) = {L(x) : x \in MeasuredPairs(g, S)} \ {None}
  BY DEF Latencies
<1> HIDE DEF L
<1>9. {L(x) : x \in MeasuredPairs(g, S) \cup extra}
        = {L(x) : x \in MeasuredPairs(g, S)} \cup {L(x) : x \in extra}
  OBVIOUS
<1> QED BY <1>6, <1>7, <1>8, <1>9

\* A latency is a number of ticks.
LEMMA LatenciesTyped ==
    ASSUME NEW g, NEW S, Known(g, S)
    PROVE  Latencies(g, S) \subseteq Nat
<1>1. SUFFICES ASSUME NEW x \in MeasuredPairs(g, S)
               PROVE  Duration(g[x[1]].ts, g[x[2]].ts) \in Optional(Nat)
  BY DEF Latencies, Optional
<1>2. PICK t \in TransactionIds : x \in Measured(g, TimedOf(g, S, t))
  BY DEF MeasuredPairs
<1>3. x[1] \in TimedOf(g, S, t) /\ x[2] \in TimedOf(g, S, t)
  BY <1>2 DEF Measured
<1>4. /\ x[1] \in S /\ g[x[1]].ts # None
      /\ x[2] \in S /\ g[x[2]].ts # None
  BY <1>3 DEF TimedOf, TransactionOf
<1>5. g[x[1]].ts \in CaptureTimestamp /\ g[x[2]].ts \in CaptureTimestamp
  BY <1>4 DEF Known, PacketRecord, Optional
<1> QED BY <1>5, DurationTyped

\* The shorter of a latency and the least so far is the least.
LEMMA ShorterIsLeast ==
    ASSUME NEW L, L \subseteq Nat, NEW x, Earliest(x, L), NEW l \in Optional(Nat)
    PROVE  Earliest(Shorter(l, x), L \cup ({l} \ {None}))
<1>1. CASE l = None
  BY <1>1 DEF Shorter
<1>2. CASE l # None /\ x = None
  BY <1>2 DEF Shorter, Earliest, Optional
<1>3. CASE l # None /\ x # None
  <2>1. x \in L /\ x \in Nat /\ l \in Nat /\ \A j \in L : x <= j /\ j \in Nat
    BY <1>3 DEF Earliest, Optional
  <2>2. CASE x <= l
    BY <1>3, <2>1, <2>2 DEF Shorter, Earliest
  <2>3. CASE ~(x <= l)
    <3>1. \A j \in L : l <= j
      BY <2>1, <2>3
    <3>2. l <= l
      BY <2>1
    <3> QED BY <1>3, <2>3, <3>1, <3>2 DEF Shorter, Earliest
  <2> QED BY <2>2, <2>3
<1> QED BY <1>1, <1>2, <1>3

\* What the clocks know of the transactions.
LEMMA ClocksGrow ==
    ASSUME NEW g, NEW S, NEW n, Follows(g, S, n),
           NEW flow \in Flows, Clocks(g, S, flow), NEW f,
           g[n].dns = None => SameClocks(f, flow),
           g[n].dns # None => g[n].dns \in DnsPacketData /\ ClockEffect(flow, g[n], f)
    PROVE  Clocks(g, S \cup {n}, f)
<1> DEFINE p == g[n]
           start(t) == flow.first_dns_query[t]
           M(t) == TimedOf(g, S, t)
<1>1. /\ S \subseteq Nat /\ n \in Nat /\ \A j \in S : j < n
      /\ Known(g, S)
  BY FollowingPacket DEF Follows, Known
<1>2. /\ \A t \in TransactionIds : Waits(g, start(t), M(t))
      /\ Earliest(flow.dns_response_latency, Latencies(g, S))
  BY DEF Clocks
<1>3. ASSUME NEW t \in TransactionIds
      PROVE  Waits(g, f.first_dns_query[t], TimedOf(g, S \cup {n}, t))
  <2>1. CASE ~(IsOf(p, t) /\ p.ts # None)
    <3>1. TimedOf(g, S \cup {n}, t) = M(t)
      BY <2>1, TimedOfGrows
    <3>2. f.first_dns_query[t] = start(t)
      BY <2>1 DEF IsOf, SameClocks, ClockEffect, Once
    <3> QED BY <1>2, <3>1, <3>2
  <2>2. CASE IsOf(p, t) /\ p.ts # None
    <3>1. TimedOf(g, S \cup {n}, t) = M(t) \cup {n}
      BY <2>2, TimedOfGrows
    <3>2. f.first_dns_query[t] = IF p.dns.is_response THEN None
                                 ELSE IF start(t) = None THEN p.ts ELSE start(t)
      BY <2>2 DEF IsOf, ClockEffect, Once
    <3>3. /\ M(t) \subseteq Nat /\ \A j \in M(t) : j < n
          /\ \A j \in M(t) \cup {n} : g[j].ts # None
      BY <1>1, <2>2 DEF TimedOf, TransactionOf
    <3>4. Waits(g, start(t), M(t))
      BY <1>2
    <3> HIDE DEF M, start
    <3>5. Waits(g, f.first_dns_query[t], M(t) \cup {n})
      BY <1>1, <3>2, <3>3, <3>4, WaitsGrows
    <3> QED BY <3>1, <3>5
  <2> QED BY <2>1, <2>2
<1>4. Earliest(f.dns_response_latency, Latencies(g, S \cup {n}))
  <2>1. CASE p.dns = None
    <3>1. \A t : TimedOf(g, S \cup {n}, t) = TimedOf(g, S, t)
      BY <2>1, TimedOfGrows DEF IsOf
    <3>2. MeasuredPairs(g, S \cup {n}) = MeasuredPairs(g, S)
      <4>1. \A t : Measured(g, TimedOf(g, S \cup {n}, t)) = Measured(g, TimedOf(g, S, t))
        BY <3>1
      <4>2. \A x : x \in MeasuredPairs(g, S \cup {n}) <=> x \in MeasuredPairs(g, S)
        BY <4>1 DEF MeasuredPairs
      <4> QED BY <4>2
    <3>3. Latencies(g, S \cup {n}) = Latencies(g, S)
      BY <3>2 DEF Latencies
    <3> QED BY <1>2, <2>1, <3>3 DEF SameClocks
  <2>2. CASE p.dns # None
    <3> DEFINE i == p.dns.id
               latency == DurationBetween(start(i), p.ts)
    <3>1. i \in TransactionIds /\ start(i) \in Optional(CaptureTimestamp)
      BY <2>2 DEF DnsPacketData, Flows
    <3>2. p.ts \in Optional(CaptureTimestamp)
      BY DEF Follows, Known, PacketRecord
    <3>3. latency \in Optional(Nat)
      BY <3>1, <3>2, DurationBetweenTyped
    <3>4. Waits(g, start(i), M(i))
      BY <1>2, <3>1
    <3>5. Latencies(g, S \cup {n}) = Latencies(g, S) \cup NewLatency(g, n, start(i))
      BY <2>2, <3>4, LatenciesGrow
    <3>6. f.dns_response_latency =
            IF p.ts # None /\ p.dns.is_response THEN Shorter(latency, flow.dns_response_latency)
            ELSE flow.dns_response_latency
      BY <2>2 DEF ClockEffect
    <3>7. NewLatency(g, n, start(i)) =
            IF p.ts # None /\ p.dns.is_response THEN {latency} \ {None} ELSE {}
      BY DEF NewLatency
    <3>8. Latencies(g, S) \subseteq Nat
      BY <1>1, LatenciesTyped
    <3> HIDE DEF latency
    <3>9. Earliest(Shorter(latency, flow.dns_response_latency),
                   Latencies(g, S) \cup ({latency} \ {None}))
      BY <1>2, <3>3, <3>8, ShorterIsLeast
    <3>10. CASE p.ts # None /\ p.dns.is_response
      BY <3>5, <3>6, <3>7, <3>9, <3>10
    <3>11. CASE ~(p.ts # None /\ p.dns.is_response)
      <4>1. Latencies(g, S \cup {n}) = Latencies(g, S)
        BY <3>5, <3>7, <3>11
      <4> QED BY <1>2, <3>6, <3>11, <4>1
    <3> QED BY <3>10, <3>11
  <2> QED BY <2>1, <2>2
<1> QED BY <1>3, <1>4 DEF Clocks
-----------------------------------------------------------------------------
\* The counts, the times and the list of a flow, one packet further.

\* What is counted.
LEMMA CountsGrow ==
    ASSUME NEW g, NEW S, NEW n, Follows(g, S, n),
           NEW flow \in Flows, Counts(g, S, flow), NEW f,
           ViewsEffect(flow, g[n], Direction(g[n]), f)
    PROVE  Counts(g, S \cup {n}, f)
<1> DEFINE p == g[n]
           d == Direction(p)
           B == FromB(g, S)
           A == S \ B
<1>1. /\ S \subseteq Nat /\ n \in Nat /\ n \notin S /\ \A j \in S : j < n
      /\ p.id = n
  BY FollowingPacket
<1>2. /\ IsFiniteSet(S)
      /\ flow.packets.packets_from_b = Cardinality(B)
      /\ flow.packets.packets_from_a = Cardinality(A)
      /\ Earliest(flow.packets.first_packet, S)
      /\ flow.truncation_seen <=> \E i \in S : g[i].truncated
  BY DEF Counts
<1>3. /\ f.packets.packets_from_a =
            flow.packets.packets_from_a + IF d = "BToA" THEN 0 ELSE 1
      /\ f.packets.packets_from_b =
            flow.packets.packets_from_b + IF d = "BToA" THEN 1 ELSE 0
      /\ f.packets.first_packet = Once(flow.packets.first_packet, TRUE, n)
      /\ f.truncation_seen <=> flow.truncation_seen \/ p.truncated
  BY <1>1 DEF ViewsEffect, ApplyPacketToFlow
<1>4. /\ FromB(g, S \cup {n}) = IF d = "BToA" THEN B \cup {n} ELSE B
      /\ B \subseteq S /\ n \notin B /\ n \notin A
  BY <1>1 DEF FromB
<1> HIDE DEF B
<1>5. (S \cup {n}) \ FromB(g, S \cup {n}) = IF d = "BToA" THEN A ELSE A \cup {n}
  BY <1>1, <1>4
<1>6. /\ IsFiniteSet(A) /\ IsFiniteSet(B)
      /\ Cardinality(A) \in Nat /\ Cardinality(B) \in Nat
  BY <1>2, <1>4, FS_Subset, FS_CardinalityType
<1> HIDE DEF A
<1>7. /\ IsFiniteSet(S \cup {n})
      /\ Cardinality(A \cup {n}) = Cardinality(A) + 1
      /\ Cardinality(B \cup {n}) = Cardinality(B) + 1
  BY <1>2, <1>4, <1>6, FS_AddElement
<1>8. /\ f.packets.packets_from_b = Cardinality(FromB(g, S \cup {n}))
      /\ f.packets.packets_from_a = Cardinality((S \cup {n}) \ FromB(g, S \cup {n}))
  <2> HIDE DEF d, p
  <2>1. CASE d = "BToA"
    <3>1. /\ f.packets.packets_from_a = Cardinality(A)
          /\ f.packets.packets_from_b = Cardinality(B) + 1
      BY <1>2, <1>3, <1>6, <2>1
    <3> QED BY <1>4, <1>5, <1>7, <2>1, <3>1
  <2>2. CASE d # "BToA"
    <3>1. /\ f.packets.packets_from_a = Cardinality(A) + 1
          /\ f.packets.packets_from_b = Cardinality(B)
      BY <1>2, <1>3, <1>6, <2>2
    <3> QED BY <1>4, <1>5, <1>7, <2>2, <3>1
  <2> QED BY <2>1, <2>2
<1>9. Earliest(f.packets.first_packet, S \cup {n})
  <2>1. Earliest(Once(flow.packets.first_packet, TRUE, n), IF TRUE THEN S \cup {n} ELSE S)
    BY <1>1, <1>2, EarliestGrows
  <2> QED BY <1>3, <2>1
<1>10. f.truncation_seen <=> \E i \in S \cup {n} : g[i].truncated
  BY <1>2, <1>3
<1> QED BY <1>7, <1>8, <1>9, <1>10 DEF Counts

\* Instants are ordered.
LEMMA BeforeOrders ==
    ASSUME NEW t \in CaptureTimestamp, NEW u \in CaptureTimestamp, NEW v \in CaptureTimestamp
    PROVE  /\ ~Before(t, t)
           /\ Before(t, u) /\ Before(u, v) => Before(t, v)
<1>1. /\ t.s \in Int /\ u.s \in Int /\ v.s \in Int
      /\ t.f \in Int /\ u.f \in Int /\ v.f \in Int
  BY TicksPerSecondAssumption DEF CaptureTimestamp
<1> QED BY <1>1 DEF Before

\* The first and the last instant of a flow.
LEMMA SpanGrows ==
    ASSUME NEW g, NEW S, NEW n, Follows(g, S, n),
           NEW flow \in Flows, Span(g, S, flow), NEW f,
           ViewsEffect(flow, g[n], Direction(g[n]), f)
    PROVE  Span(g, S \cup {n}, f)
<1> DEFINE ts == g[n].ts
           T == Times(g, S)
           first == flow.packets.first_timestamp
           last == flow.packets.last_timestamp
           first2 == f.packets.first_timestamp
           last2 == f.packets.last_timestamp
<1>1. T \subseteq CaptureTimestamp /\ None \notin T /\ ts \in Optional(CaptureTimestamp)
  BY DEF Follows, Known, Times, PacketRecord, Optional
<1>2. Times(g, S \cup {n}) = IF ts = None THEN T ELSE T \cup {ts}
  BY DEF Times
<1>3. /\ first2 = IF ts # None /\ first # None /\ Before(ts, first) THEN ts
                   ELSE Once(first, ts # None, ts)
      /\ last2 = IF ts # None /\ last # None /\ Before(last, ts) THEN ts
                  ELSE Once(last, ts # None, ts)
  BY DEF ViewsEffect, ApplyPacketToFlow
<1>4. /\ T = {} => first = None /\ last = None
      /\ T # {} => first \in T /\ last \in T
      /\ \A t \in T : ~Before(t, first) /\ ~Before(last, t)
  BY DEF Span
<1> HIDE DEF T, first, last, first2, last2, ts
<1>5. CASE ts = None
  <2>1. first2 = first /\ last2 = last /\ Times(g, S \cup {n}) = T
    BY <1>2, <1>3, <1>5 DEF Once
  <2> QED BY <1>4, <2>1 DEF Span, first2, last2
<1>6. CASE ts # None /\ T = {}
  <2>1. first2 = ts /\ last2 = ts /\ Times(g, S \cup {n}) = {ts}
    BY <1>2, <1>3, <1>4, <1>6 DEF Once
  <2>2. ~Before(ts, ts)
    BY <1>1, <1>6, BeforeOrders DEF Optional
  <2> QED BY <2>1, <2>2 DEF Span, first2, last2
<1>7. CASE ts # None /\ T # {}
  <2>1. /\ ts \in CaptureTimestamp
        /\ first \in T /\ first \in CaptureTimestamp /\ first # None
        /\ last \in T /\ last \in CaptureTimestamp /\ last # None
    BY <1>1, <1>4, <1>7 DEF Optional
  <2>2. Times(g, S \cup {n}) = T \cup {ts}
    BY <1>2, <1>7
  <2>3. /\ first2 = IF Before(ts, first) THEN ts ELSE first
        /\ last2 = IF Before(last, ts) THEN ts ELSE last
    BY <1>3, <1>7, <2>1 DEF Once
  <2>4. ASSUME NEW t \in T \cup {ts}
        PROVE  ~Before(t, first2)
    <3>1. t \in CaptureTimestamp
      BY <1>1, <2>1
    <3>2. CASE Before(ts, first)
      <4>1. Before(t, ts) => Before(t, first)
        BY <2>1, <3>1, <3>2, BeforeOrders
      <4>2. ~Before(ts, ts)
        BY <2>1, BeforeOrders
      <4> QED BY <1>4, <2>3, <3>2, <4>1, <4>2
    <3>3. CASE ~Before(ts, first)
      BY <1>4, <2>3, <3>3
    <3> QED BY <3>2, <3>3
  <2>5. ASSUME NEW t \in T \cup {ts}
        PROVE  ~Before(last2, t)
    <3>1. t \in CaptureTimestamp
      BY <1>1, <2>1
    <3>2. CASE Before(last, ts)
      <4>1. Before(ts, t) => Before(last, t)
        BY <2>1, <3>1, <3>2, BeforeOrders
      <4>2. ~Before(ts, ts)
        BY <2>1, BeforeOrders
      <4> QED BY <1>4, <2>3, <3>2, <4>1, <4>2
    <3>3. CASE ~Before(last, ts)
      BY <1>4, <2>3, <3>3
    <3> QED BY <3>2, <3>3
  <2>6. first2 \in T \cup {ts} /\ last2 \in T \cup {ts}
    BY <2>1, <2>3
  <2> QED BY <2>2, <2>4, <2>5, <2>6 DEF Span, first2, last2
<1> QED BY <1>5, <1>6, <1>7

\* The messages in their order.
LEMMA ListsGrow ==
    ASSUME NEW g, NEW S, NEW n, Follows(g, S, n),
           NEW flow \in Flows, Lists(g, S, flow.messages), NEW f,
           ViewsEffect(flow, g[n], Direction(g[n]), f)
    PROVE  Lists(g, S \cup {n}, f.messages)
<1> DEFINE list == flow.messages
           len == Len(list)
           message == [packet |-> n, timestamp |-> g[n].ts, direction |-> Direction(g[n])]
<1>1. /\ S \subseteq Nat /\ n \in Nat /\ \A j \in S : j < n
      /\ g[n].id = n
  BY FollowingPacket
<1>2. list \in Seq(Messages) /\ len \in Nat /\ DOMAIN list = 1 .. len
  BY DEF Flows
<1>3. f.messages = Append(list, message)
  BY <1>1 DEF ViewsEffect
<1>4. /\ DOMAIN f.messages = 1 .. len + 1
      /\ f.messages[len + 1] = message
      /\ \A m \in 1 .. len : f.messages[m] = list[m]
  BY <1>2, <1>3
<1>5. /\ \A m \in 1 .. len : list[m].packet \in S /\ list[m].direction = Direction(g[list[m].packet])
      /\ \A i \in S : \E m \in 1 .. len : list[m].packet = i
      /\ \A m \in 1 .. len : \A k \in 1 .. m - 1 : list[k].packet < list[m].packet
  BY <1>2 DEF Lists
<1>6. message.packet = n /\ message.direction = Direction(g[n])
  OBVIOUS
<1> HIDE DEF list, len, message
<1>7. \A m \in 1 .. len + 1 : m \in 1 .. len \/ m = len + 1
  BY <1>2
<1>8. \A m \in 1 .. len + 1 : /\ f.messages[m].packet \in S \cup {n}
                              /\ f.messages[m].direction = Direction(g[f.messages[m].packet])
  BY <1>4, <1>5, <1>6, <1>7
<1>9. \A i \in S \cup {n} : \E m \in 1 .. len + 1 : f.messages[m].packet = i
  <2>1. len + 1 \in 1 .. len + 1 /\ \A m \in 1 .. len : m \in 1 .. len + 1
    BY <1>2
  <2> QED BY <1>4, <1>5, <1>6, <2>1
<1>10. ASSUME NEW m \in 1 .. len + 1, NEW k \in 1 .. m - 1
       PROVE  f.messages[k].packet < f.messages[m].packet
  <2>1. k \in 1 .. len
    BY <1>2
  <2>2. CASE m \in 1 .. len
    BY <1>4, <1>5, <2>1, <2>2
  <2>3. CASE m = len + 1
    BY <1>1, <1>4, <1>5, <1>6, <2>1, <2>3
  <2> QED BY <1>7, <2>2, <2>3
<1> QED BY <1>4, <1>8, <1>9, <1>10 DEF Lists
-----------------------------------------------------------------------------
\* A whole flow, one packet further.

\* A connection of no packets shows nothing.
LEMMA NoConnection ==
    ASSUME NEW g
    PROVE  LET tcp == TcpFlowAccumulator
           IN  /\ Opening(g, {}, tcp) /\ Completion(g, {}, tcp)
               /\ Teardown(g, {}, tcp) /\ Numbers(g, {}, tcp)
<1> DEFINE tcp == TcpFlowAccumulator
<1>1. /\ tcp.first_syn = None /\ tcp.first_syn_direction = None /\ tcp.syn_ack = None
      /\ tcp.established_ack = None /\ tcp.repeated_syn = None /\ tcp.reset = None
      /\ tcp.fin_first = None /\ tcp.fin_last = None /\ tcp.retransmission = None
      /\ tcp.duplicate_ack = None /\ tcp.out_of_order = None
      /\ tcp.first_syn_timestamp = None /\ tcp.established_ack_timestamp = None
      /\ \A e \in {"AToB", "BToA"} :
            /\ tcp.side[e].last_sequence = None /\ tcp.side[e].last_sequence_packet = None
            /\ tcp.side[e].last_ack = None /\ tcp.side[e].last_ack_packet = None
            /\ tcp.side[e].retransmission_sequence_count = 0
  BY DEF TcpFlowAccumulator, TcpDirectionAccumulator
<1> HIDE DEF tcp
<1>2. Opening(g, {}, tcp)
  BY <1>1 DEF Opening, Earliest, Syns, Repeats
<1>3. Completion(g, {}, tcp)
  BY <1>1 DEF Completion, Earliest, Answers, Acks
<1>4. Teardown(g, {}, tcp)
  BY <1>1 DEF Teardown, Earliest, Newest, Resets, Fins
<1>5. ASSUME NEW e
      PROVE  /\ Again(g, {}, e) = {} /\ Behind(g, {}, e) = {} /\ Duplicate(g, {}, e) = {}
             /\ Sequenced(g, {}, e) = {} /\ Acknowledged(g, {}, e) = {}
  BY DEF Again, Behind, Duplicate, Sequenced, Acknowledged, Neighbours
<1>6. LastNumbers(g, {}, tcp, "AToB") /\ LastNumbers(g, {}, tcp, "BToA")
  BY <1>1, <1>5, FS_EmptySet DEF LastNumbers, Newest
<1>7. Numbers(g, {}, tcp)
  BY <1>1, <1>5, <1>6 DEF Numbers, Indicates
<1> QED BY <1>2, <1>3, <1>4, <1>7 DEF tcp

\* A flow of no packets shows nothing.
LEMMA NothingShown ==
    ASSUME NEW g
    PROVE  FlowShows(g, {}, NewFlow)
<1>1. /\ NewFlow \in Flows /\ NewFlow.tcp = None
      /\ NewFlow.truncation_seen = FALSE /\ NewFlow.messages = <<>>
      /\ \A t \in TransactionIds : NewFlow.dns_queries[t] = None /\ NewFlow.first_dns_query[t] = None
      /\ NewFlow.dns_error_responses = {} /\ NewFlow.dns_response_latency = None
      /\ NewFlow.packets = FlowAccumulator
  BY NewTyped DEF NewFlow
<1>2. /\ FlowAccumulator.packets_from_a = 0 /\ FlowAccumulator.packets_from_b = 0
      /\ FlowAccumulator.first_packet = None
      /\ FlowAccumulator.first_timestamp = None /\ FlowAccumulator.last_timestamp = None
  BY DEF FlowAccumulator
<1>3. \A t : TransactionOf(g, {}, t) = {} /\ TimedOf(g, {}, t) = {}
  BY DEF TransactionOf, TimedOf
<1>4. Errors(g, {}) = {}
  BY DEF Errors
<1>5. Transactions(g, {}, NewFlow)
  BY <1>1, <1>3, <1>4 DEF Transactions, Unanswered
<1>6. Latencies(g, {}) = {}
  <2>1. \A t : Measured(g, TimedOf(g, {}, t)) = {}
    BY <1>3 DEF Measured
  <2>2. MeasuredPairs(g, {}) = {}
    BY <2>1 DEF MeasuredPairs
  <2> QED BY <2>2 DEF Latencies
<1>7. Clocks(g, {}, NewFlow)
  BY <1>1, <1>3, <1>6 DEF Clocks, Waits, Earliest
<1>8. Counts(g, {}, NewFlow)
  <2>1. FromB(g, {}) = {} /\ {} \ {} = {}
    BY DEF FromB
  <2> QED BY <1>1, <1>2, <2>1, FS_EmptySet DEF Counts, Earliest
<1>9. Span(g, {}, NewFlow)
  <2>1. Times(g, {}) = {}
    BY DEF Times
  <2> QED BY <1>1, <1>2, <2>1 DEF Span
<1>10. Lists(g, {}, NewFlow.messages)
  <2>1. DOMAIN <<>> = {}
    OBVIOUS
  <2> QED BY <1>1, <2>1 DEF Lists
<1> QED BY <1>1, <1>5, <1>7, <1>8, <1>9, <1>10 DEF FlowShows, ConnectionShows

\* The connection of a flow, which its first segment opens.
LEMMA ConnectionGrows ==
    ASSUME NEW g, NEW S, NEW n, Follows(g, S, n),
           NEW flow, FlowShows(g, S, flow),
           \A i \in S : g[i].tcp = None <=> g[n].tcp = None, NEW f,
           ViewsEffect(flow, g[n], Direction(g[n]), f)
    PROVE  ConnectionShows(g, S \cup {n}, f.tcp)
<1> DEFINE p == g[n]
           tcp == Connection(flow)
<1>1. /\ \A i \in S \cup {n} : g[i].tcp \in Optional(TcpPacketData)
      /\ None \notin TcpPacketData
      /\ flow.tcp \in Optional(TcpFlowAccumulators)
  BY NoneAssumption DEF Follows, Known, PacketRecord, FlowShows, Flows
<1>2. f.tcp = IF p.tcp = None THEN flow.tcp
              ELSE ApplyTcpPacketToFlow(tcp, p, Direction(p))
  BY DEF ViewsEffect
<1>3. CASE p.tcp = None
  <2>1. \A i \in S \cup {n} : g[i].tcp = None
    BY <1>3
  <2>2. flow.tcp = None
    BY <1>1, <2>1 DEF FlowShows, ConnectionShows, ConnectionShows, Segments
  <2> QED BY <1>2, <1>3, <2>1, <2>2 DEF ConnectionShows
<1>4. CASE p.tcp # None
  <2>1. Segments(g, S \cup {n})
    BY <1>1, <1>4 DEF Segments, Optional
  <2>2. /\ tcp \in TcpFlowAccumulators
        /\ Opening(g, S, tcp) /\ Completion(g, S, tcp)
        /\ Teardown(g, S, tcp) /\ Numbers(g, S, tcp)
    <3>1. CASE flow.tcp = None
      <4>1. S = {} /\ tcp = TcpFlowAccumulator
        BY <1>4, <3>1 DEF FlowShows, ConnectionShows, Connection
      <4> QED BY <4>1, NewTyped, NoConnection
    <3>2. CASE flow.tcp # None
      BY <1>1, <3>2 DEF FlowShows, ConnectionShows, Connection, Optional
    <3> QED BY <3>1, <3>2
  <2> DEFINE a == ApplyTcpPacketToFlow(tcp, p, Direction(p))
  <2> HIDE DEF tcp
  <2>3. /\ Opening(g, S \cup {n}, a) /\ Completion(g, S \cup {n}, a)
        /\ Teardown(g, S \cup {n}, a) /\ Numbers(g, S \cup {n}, a)
    BY <2>1, <2>2, OpeningGrows, CompletionGrows, TeardownGrows, NumbersGrow
  <2>4. Effect(tcp, p, Direction(p), a)
    BY <2>1, <2>2, FollowingSegment, SegmentApplied
  <2>5. a # None
    BY <2>4, NoneAssumption DEF Effect
  <2> QED BY <1>2, <1>4, <2>1, <2>3, <2>5 DEF ConnectionShows
<1> QED BY <1>3, <1>4

\* The flow of the packet that is read.
LEMMA FlowGrows ==
    ASSUME NEW g, NEW S, NEW n, Follows(g, S, n),
           NEW flow, FlowShows(g, S, flow),
           \A i \in S : g[i].tcp = None <=> g[n].tcp = None, NEW f,
           f = ApplyPacket(flow, g[n], Direction(g[n]))
    PROVE  FlowShows(g, S \cup {n}, f)
<1>1. g[n] \in PacketRecord /\ Direction(g[n]) \in FlowDirection /\ flow \in Flows
  BY DirectionTyped DEF Follows, Known, FlowShows
<1>2. /\ f \in Flows
      /\ ViewsEffect(flow, g[n], Direction(g[n]), f)
      /\ g[n].dns = None => SameTransactions(f, flow) /\ SameClocks(f, flow)
      /\ g[n].dns # None => /\ g[n].dns \in DnsPacketData
                            /\ TransactionEffect(flow, g[n], f)
                            /\ ClockEffect(flow, g[n], f)
  BY <1>1, PacketApplied
<1>3. /\ Transactions(g, S, flow) /\ Clocks(g, S, flow) /\ Counts(g, S, flow)
      /\ Span(g, S, flow) /\ Lists(g, S, flow.messages)
  BY DEF FlowShows
<1>4. Transactions(g, S \cup {n}, f)
  BY <1>2, <1>3, TransactionsGrow
<1>5. Clocks(g, S \cup {n}, f)
  BY <1>1, <1>2, <1>3, ClocksGrow
<1>6. /\ Counts(g, S \cup {n}, f) /\ Span(g, S \cup {n}, f)
      /\ Lists(g, S \cup {n}, f.messages)
  BY <1>1, <1>2, <1>3, CountsGrow, SpanGrows, ListsGrow
<1>7. ConnectionShows(g, S \cup {n}, f.tcp)
  BY <1>2, ConnectionGrows
<1> QED BY <1>2, <1>4, <1>5, <1>6, <1>7 DEF FlowShows
-----------------------------------------------------------------------------
\* The capture, one packet further.

\* The packets of a flow and the one that is read.
LEMMA PacketsOfGrow ==
    ASSUME NEW h \in Seq(PacketRecord), NEW p \in PacketRecord, NEW k
    PROVE  PacketsOf(Append(h, p), k) =
              IF HasFlow(p) /\ FlowKey(p) = k THEN PacketsOf(h, k) \cup {Len(h) + 1}
              ELSE PacketsOf(h, k)
<1> DEFINE n == Len(h) + 1
           r == Append(h, p)
<1>1. /\ Len(h) \in Nat /\ DOMAIN h = 1 .. Len(h) /\ DOMAIN r = 1 .. n
      /\ r[n] = p /\ \A i \in 1 .. Len(h) : r[i] = h[i]
  OBVIOUS
<1>2. /\ \A i \in 1 .. n : i \in 1 .. Len(h) \/ i = n
      /\ \A i \in 1 .. Len(h) : i \in 1 .. n
      /\ n \in 1 .. n
  BY <1>1
<1> HIDE DEF n, r
<1>3. \A i : i \in PacketsOf(r, k) <=>
               i \in PacketsOf(h, k) \/ (i = n /\ HasFlow(p) /\ FlowKey(p) = k)
  BY <1>1, <1>2 DEF PacketsOf
<1> QED BY <1>3 DEF n, r

\* A packet that is read is a packet of the capture.
LEMMA CaptureGrows ==
    ASSUME NEW h, Captured(h), NEW p \in PacketRecord, p.id = Len(h) + 1, Consistent(p)
    PROVE  /\ Captured(Append(h, p))
           /\ Continues(Append(h, p), h)
           /\ \A g : Continues(g, Append(h, p)) => /\ Continues(g, h)
                                                  /\ Len(h) + 1 \in DOMAIN g
                                                  /\ g[Len(h) + 1] = p
<1> DEFINE n == Len(h) + 1
           r == Append(h, p)
<1>1. /\ h \in Seq(PacketRecord)
      /\ \A i \in DOMAIN h : h[i].id = i /\ Consistent(h[i])
  BY DEF Captured
<1>2. /\ Len(h) \in Nat /\ DOMAIN h = 1 .. Len(h) /\ DOMAIN r = 1 .. n
      /\ r[n] = p /\ \A i \in 1 .. Len(h) : r[i] = h[i]
      /\ r \in Seq(PacketRecord)
  BY <1>1
<1>3. /\ \A i \in 1 .. n : i \in 1 .. Len(h) \/ i = n
      /\ \A i \in 1 .. Len(h) : i \in 1 .. n
      /\ n \in 1 .. n
  BY <1>2
<1> HIDE DEF n, r
<1>4. Captured(r)
  BY <1>1, <1>2, <1>3 DEF Captured, n
<1>5. Continues(r, h)
  BY <1>2, <1>3 DEF Continues
<1>6. \A g : Continues(g, r) => Continues(g, h) /\ n \in DOMAIN g /\ g[n] = p
  BY <1>2, <1>3 DEF Continues
<1> QED BY <1>4, <1>5, <1>6 DEF n, r

\* A packet of a flow is folded into it, and every flow has all its packets.
LEMMA HistoriesGrow ==
    ASSUME NEW h, Captured(h), NEW fs, Histories(h, fs),
           NEW p \in PacketRecord, p.id = Len(h) + 1, Consistent(p), HasFlow(p),
           NEW key, key = FlowKey(p), NEW flow,
           flow = IF key \in DOMAIN fs THEN fs[key] ELSE NewFlow, NEW then,
           then = [k \in DOMAIN fs \cup {key} |->
                      IF k = key THEN ApplyPacket(flow, p, Direction(p)) ELSE fs[k]]
    PROVE  Histories(Append(h, p), then)
<1> DEFINE n == Len(h) + 1
           r == Append(h, p)
<1>1. /\ h \in Seq(PacketRecord)
      /\ \A i \in DOMAIN h : h[i].id = i /\ Consistent(h[i])
  BY DEF Captured
<1>2. /\ Len(h) \in Nat /\ DOMAIN h = 1 .. Len(h) /\ DOMAIN r = 1 .. n
      /\ r[n] = p /\ \A i \in 1 .. Len(h) : r[i] = h[i] /\ h[i] \in PacketRecord
  BY <1>1
<1>3. /\ \A i \in 1 .. n : i \in 1 .. Len(h) \/ i = n
      /\ \A i \in 1 .. Len(h) : i \in 1 .. n /\ i < n /\ i \in Nat
      /\ n \in 1 .. n /\ n \in Nat
  BY <1>2
<1>4. /\ DOMAIN fs = {FlowKey(h[i]) : i \in {i \in DOMAIN h : HasFlow(h[i])}}
      /\ \A g : Continues(g, h) =>
            \A k \in DOMAIN fs : FlowShows(g, PacketsOf(h, k), fs[k])
  BY DEF Histories
<1>5. \A g : Continues(g, r) => Continues(g, h) /\ n \in DOMAIN g /\ g[n] = p
  BY CaptureGrows
<1>6. \A k : PacketsOf(r, k) = IF key = k THEN PacketsOf(h, k) \cup {n} ELSE PacketsOf(h, k)
  BY <1>1, PacketsOfGrow
<1> HIDE DEF n, r
<1>7. DOMAIN then = {FlowKey(r[i]) : i \in {i \in DOMAIN r : HasFlow(r[i])}}
  <2>1. \A k : k \in DOMAIN fs <=> \E i \in 1 .. Len(h) : HasFlow(h[i]) /\ k = FlowKey(h[i])
    BY <1>2, <1>4
  <2>2. \A k : k \in {FlowKey(r[i]) : i \in {i \in DOMAIN r : HasFlow(r[i])}}
                <=> \E i \in 1 .. n : HasFlow(r[i]) /\ k = FlowKey(r[i])
    BY <1>2
  <2>3. \A k : (\E i \in 1 .. n : HasFlow(r[i]) /\ k = FlowKey(r[i]))
                  <=> k = key \/ \E i \in 1 .. Len(h) : HasFlow(h[i]) /\ k = FlowKey(h[i])
    BY <1>2, <1>3
  <2>4. DOMAIN then = DOMAIN fs \cup {key}
    OBVIOUS
  <2> QED BY <2>1, <2>2, <2>3, <2>4
<1>8. ASSUME NEW g, Continues(g, r), NEW k \in DOMAIN then
      PROVE  FlowShows(g, PacketsOf(r, k), then[k])
  <2>1. Continues(g, h) /\ n \in DOMAIN g /\ g[n] = p
    BY <1>5, <1>8
  <2>2. \A i \in 1 .. Len(h) : g[i] = h[i]
    BY <1>2, <2>1 DEF Continues
  <2>3. CASE k # key
    BY <1>4, <1>6, <2>1, <2>3
  <2>4. CASE k = key
    <3> DEFINE S == PacketsOf(h, key)
    <3>1. S \subseteq 1 .. Len(h) /\ \A i \in S : HasFlow(h[i]) /\ FlowKey(h[i]) = key
      BY <1>2 DEF PacketsOf
    <3>2. FlowShows(g, S, flow)
      <4>1. CASE key \in DOMAIN fs
        BY <1>4, <2>1, <4>1
      <4>2. CASE key \notin DOMAIN fs
        <5>1. S = {}
          BY <1>4, <4>2 DEF PacketsOf
        <5> QED BY <4>2, <5>1, NothingShown
      <4> QED BY <4>1, <4>2
    <3> HIDE DEF S
    <3>3. Follows(g, S, n)
      <4>1. \A i \in S : g[i] \in PacketRecord /\ g[i].id = i /\ i < n /\ i \in Nat
        BY <1>1, <1>2, <1>3, <2>2, <3>1
      <4>2. g[n] \in PacketRecord /\ g[n].id = n
        BY <2>1 DEF n
      <4> QED BY <1>3, <4>1, <4>2 DEF Follows, Known
    <3>4. \A i \in S : g[i].tcp = None <=> g[n].tcp = None
      <4>1. \A q : FlowKey(q).protocol = q.protocol
        BY DEF FlowKey
      <4>2. SUFFICES ASSUME NEW i \in S
                     PROVE  h[i].tcp = None <=> p.tcp = None
        BY <2>1, <2>2, <3>1
      <4>3. h[i].protocol = p.protocol
        BY <3>1, <4>1
      <4>4. Consistent(h[i]) /\ HasFlow(h[i])
        BY <1>1, <1>2, <3>1
      <4> QED BY <4>3, <4>4 DEF Consistent, HasFlow
    <3>5. then[key] = ApplyPacket(flow, g[n], Direction(g[n]))
      BY <2>1
    <3>6. FlowShows(g, S \cup {n}, then[key])
      BY <3>2, <3>3, <3>4, <3>5, FlowGrows
    <3> QED BY <1>6, <2>4, <3>6 DEF S
  <2> QED BY <2>3, <2>4
<1> QED BY <1>7, <1>8 DEF Histories, r

\* A packet of no flow changes none.
LEMMA HistoriesStay ==
    ASSUME NEW h, Captured(h), NEW fs, Histories(h, fs),
           NEW p \in PacketRecord, p.id = Len(h) + 1, Consistent(p), ~HasFlow(p)
    PROVE  Histories(Append(h, p), fs)
<1> DEFINE n == Len(h) + 1
           r == Append(h, p)
<1>1. h \in Seq(PacketRecord)
  BY DEF Captured
<1>2. /\ Len(h) \in Nat /\ DOMAIN h = 1 .. Len(h) /\ DOMAIN r = 1 .. n
      /\ r[n] = p /\ \A i \in 1 .. Len(h) : r[i] = h[i]
  BY <1>1
<1>3. /\ \A i \in 1 .. n : i \in 1 .. Len(h) \/ i = n
      /\ \A i \in 1 .. Len(h) : i \in 1 .. n
  BY <1>2
<1>4. /\ DOMAIN fs = {FlowKey(h[i]) : i \in {i \in DOMAIN h : HasFlow(h[i])}}
      /\ \A g : Continues(g, h) =>
            \A k \in DOMAIN fs : FlowShows(g, PacketsOf(h, k), fs[k])
  BY DEF Histories
<1>5. \A g : Continues(g, r) => Continues(g, h)
  BY CaptureGrows
<1>6. \A k : PacketsOf(r, k) = PacketsOf(h, k)
  BY <1>1, PacketsOfGrow
<1> HIDE DEF n, r
<1>7. DOMAIN fs = {FlowKey(r[i]) : i \in {i \in DOMAIN r : HasFlow(r[i])}}
  <2>1. \A k : k \in DOMAIN fs <=> \E i \in 1 .. Len(h) : HasFlow(h[i]) /\ k = FlowKey(h[i])
    BY <1>2, <1>4
  <2>2. \A k : k \in {FlowKey(r[i]) : i \in {i \in DOMAIN r : HasFlow(r[i])}}
                <=> \E i \in 1 .. n : HasFlow(r[i]) /\ k = FlowKey(r[i])
    BY <1>2
  <2>3. \A k : (\E i \in 1 .. n : HasFlow(r[i]) /\ k = FlowKey(r[i]))
                  <=> \E i \in 1 .. Len(h) : HasFlow(h[i]) /\ k = FlowKey(h[i])
    BY <1>2, <1>3
  <2> QED BY <2>1, <2>2, <2>3
<1>8. \A g : Continues(g, r) =>
            \A k \in DOMAIN fs : FlowShows(g, PacketsOf(r, k), fs[k])
  BY <1>4, <1>5, <1>6
<1> QED BY <1>7, <1>8 DEF Histories, r

\* Inv holds at the start and is kept by every step.
LEMMA InvHolds ==
    Spec => []Inv
<1>1. Init => Inv
  <2>1. SUFFICES ASSUME Init
                 PROVE  Inv
    OBVIOUS
  <2>2. input \in DOMAIN Captures /\ capture = <<>> /\ DOMAIN flows = {}
    BY <2>1 DEF Init
  <2>3. DOMAIN capture = {} /\ capture \in Seq(PacketRecord)
    BY <2>2
  <2>4. Captured(capture)
    BY <2>3 DEF Captured
  <2>5. Histories(capture, flows)
    BY <2>2, <2>3 DEF Histories
  <2> QED BY <2>2, <2>4, <2>5 DEF Inv
<1>2. Inv /\ [Next]_vars => Inv'
  <2>1. SUFFICES ASSUME Inv, [Next]_vars
                 PROVE  Inv'
    OBVIOUS
  <2>2. input \in DOMAIN Captures /\ Captured(capture) /\ Histories(capture, flows)
    BY <2>1 DEF Inv
  <2>3. CASE UNCHANGED vars
    BY <2>2, <2>3 DEF Inv, vars
  <2>4. ASSUME NEW q \in Captures[input].packets,
               SkipPacket(Numbered(q)) \/ FoldPacket(Numbered(q))
        PROVE  Inv'
    <3> DEFINE p == Numbered(q)
    <3>1. q \in PacketRecord /\ Consistent(q)
      BY <2>2, CapturesAssumption DEF Consistent
    <3>2. Len(capture) \in Nat
      BY <2>2 DEF Captured
    <3>3. /\ p \in PacketRecord /\ p.id = Len(capture) + 1
          /\ p.protocol = q.protocol /\ p.tcp = q.tcp
      BY <3>1, <3>2 DEF Numbered, PacketRecord
    <3>4. Consistent(p)
      BY <3>1, <3>3 DEF Consistent
    <3> HIDE DEF p
    <3>5. Captured(Append(capture, p))
      BY <2>2, <3>3, <3>4, CaptureGrows
    <3>6. CASE SkipPacket(p)
      <4>1. /\ input' = input /\ capture' = Append(capture, p) /\ flows' = flows
            /\ ~HasFlow(p)
        BY <3>6 DEF SkipPacket, Reads
      <4>2. Histories(Append(capture, p), flows)
        BY <2>2, <3>3, <3>4, <4>1, HistoriesStay
      <4> QED BY <2>2, <3>5, <4>1, <4>2 DEF Inv
    <3>7. CASE FoldPacket(p)
      <4> DEFINE key == FlowKey(p)
                 flow == IF key \in DOMAIN flows THEN flows[key] ELSE NewFlow
                 then == [k \in DOMAIN flows \cup {key} |->
                            IF k = key THEN ApplyPacket(flow, p, Direction(p)) ELSE flows[k]]
      <4>1. /\ input' = input /\ capture' = Append(capture, p) /\ flows' = then
            /\ HasFlow(p)
        BY <3>7 DEF FoldPacket, Reads
      <4>2. Histories(Append(capture, p), then)
        BY <2>2, <3>3, <3>4, <4>1, HistoriesGrow
      <4> HIDE DEF then
      <4> QED BY <2>2, <3>5, <4>1, <4>2 DEF Inv
    <3> QED BY <2>4, <3>6, <3>7 DEF p
  <2> QED BY <2>1, <2>3, <2>4 DEF Next
<1> QED BY <1>1, <1>2, PTL DEF Spec
-----------------------------------------------------------------------------
\* What the invariant says of one flow.
FlowFacts(k) ==
    LET S == PacketsOf(capture, k)
    IN  /\ Of(k) = S
        /\ S # {} /\ Known(capture, S)
        /\ \A i \in S : /\ i \in DOMAIN capture
                         /\ HasFlow(capture[i]) /\ FlowKey(capture[i]) = k
        /\ FlowShows(capture, S, flows[k])
        /\ flows[k].tcp = None <=> k.protocol # "Tcp"

\* Every flow is shown by its packets.
LEMMA InvShows ==
    ASSUME Inv, NEW k \in DOMAIN flows
    PROVE  FlowFacts(k)
<1> DEFINE S == PacketsOf(capture, k)
<1>1. /\ capture \in Seq(PacketRecord)
      /\ \A i \in DOMAIN capture : capture[i].id = i /\ Consistent(capture[i])
      /\ DOMAIN flows = {FlowKey(capture[i]) : i \in {i \in DOMAIN capture : HasFlow(capture[i])}}
  BY DEF Inv, Captured, Histories
<1>2. FlowShows(capture, S, flows[k])
  <2>1. Continues(capture, capture)
    BY <1>1 DEF Continues
  <2> QED BY <2>1 DEF Inv, Histories
<1>3. Of(k) = S
  BY DEF Of, Ids, PacketsOf
<1>4. \A i \in S : /\ i \in DOMAIN capture
                   /\ HasFlow(capture[i]) /\ FlowKey(capture[i]) = k
  BY DEF PacketsOf
<1>5. S # {}
  <2>1. PICK i \in DOMAIN capture : HasFlow(capture[i]) /\ k = FlowKey(capture[i])
    BY <1>1
  <2> QED BY <2>1 DEF PacketsOf
<1>6. Known(capture, S)
  <2>1. DOMAIN capture \subseteq Nat /\ \A i \in DOMAIN capture : capture[i] \in PacketRecord
    BY <1>1
  <2> QED BY <1>1, <1>4, <2>1 DEF Known
<1> HIDE DEF S
<1>7. flows[k].tcp = None <=> k.protocol # "Tcp"
  <2>1. PICK i \in S : TRUE
    BY <1>5
  <2>2. /\ k.protocol = capture[i].protocol /\ HasFlow(capture[i])
        /\ Consistent(capture[i])
    BY <1>1, <1>4, <2>1 DEF FlowKey
  <2>3. k.protocol = "Tcp" <=> capture[i].tcp # None
    BY <2>2 DEF HasFlow, Consistent
  <2>4. flows[k].tcp = None => capture[i].tcp = None
    BY <1>2, <2>1 DEF FlowShows, ConnectionShows
  <2>5. flows[k].tcp # None => capture[i].tcp \in TcpPacketData
    BY <1>2, <2>1 DEF FlowShows, ConnectionShows, Segments
  <2> QED BY <2>3, <2>4, <2>5, NoneAssumption
<1> QED BY <1>2, <1>3, <1>4, <1>5, <1>6, <1>7 DEF FlowFacts, S

\* TypeOK in every state: durations and latencies are numbers of ticks, and a
\* flow has TCP state exactly when it is a TCP flow.
THEOREM FlowTypes == Spec => []TypeOK
<1>1. Inv => TypeOK
  <2>1. SUFFICES ASSUME Inv
                 PROVE  TypeOK
    OBVIOUS
  <2>2. ASSUME NEW k \in DOMAIN flows
        PROVE  /\ Metrics(flows[k]).duration \in Nat \cup {None}
               /\ Metrics(flows[k]).handshake_latency \in (Nat \ {0}) \cup {None}
               /\ Metrics(flows[k]).time_to_first_data \in (Nat \ {0}) \cup {None}
               /\ Metrics(flows[k]).dns_response_latency \in Nat \cup {None}
               /\ flows[k].tcp = None <=> k.protocol # "Tcp"
    <3> DEFINE flow == flows[k]
               tcp == flow.tcp
               handshake == DurationBetween(tcp.first_syn_timestamp, tcp.established_ack_timestamp)
               data == DurationBetween(tcp.established_ack_timestamp, tcp.first_data_timestamp)
               duration == DurationBetween(flow.packets.first_timestamp, flow.packets.last_timestamp)
    <3>1. flow \in Flows /\ (tcp = None <=> k.protocol # "Tcp")
      BY <2>1, InvShows DEF FlowFacts, FlowShows
    <3>2. /\ flow.packets.first_timestamp \in Optional(CaptureTimestamp)
          /\ flow.packets.last_timestamp \in Optional(CaptureTimestamp)
          /\ flow.dns_response_latency \in Optional(Nat)
          /\ tcp \in Optional(TcpFlowAccumulators)
      BY <3>1 DEF Flows, FlowAccumulators
    <3>3. duration \in Optional(Nat)
      BY <3>2, DurationBetweenTyped
    <3>4. tcp # None => /\ tcp.first_syn_timestamp \in Optional(CaptureTimestamp)
                        /\ tcp.established_ack_timestamp \in Optional(CaptureTimestamp)
                        /\ tcp.first_data_timestamp \in Optional(CaptureTimestamp)
      BY <3>2 DEF TcpFlowAccumulators, Optional
    <3>5. tcp # None => handshake \in Optional(Nat) /\ data \in Optional(Nat)
      BY <3>4, DurationBetweenTyped
    <3>6. /\ Metrics(flow).duration = duration
          /\ Metrics(flow).handshake_latency = IF tcp = None THEN None ELSE IsNonzero(handshake)
          /\ Metrics(flow).time_to_first_data = IF tcp = None THEN None ELSE IsNonzero(data)
          /\ Metrics(flow).dns_response_latency = flow.dns_response_latency
      BY DEF Metrics, HandshakeDuration
    <3> HIDE DEF duration, handshake, data, tcp, flow
    <3>7. tcp # None => /\ IsNonzero(handshake) \in (Nat \ {0}) \cup {None}
                        /\ IsNonzero(data) \in (Nat \ {0}) \cup {None}
      BY <3>5 DEF IsNonzero, Optional
    <3> QED BY <3>1, <3>2, <3>3, <3>6, <3>7 DEF Optional, flow, tcp
  <2>3. input \in DOMAIN Captures
    BY <2>1 DEF Inv
  <2> QED BY <2>2, <2>3 DEF TypeOK
<1> QED BY <1>1, InvHolds, PTL

\* The opening of a connection names what its first SYN leads to.
LEMMA OpeningNamed ==
    ASSUME NEW g, NEW S, S \subseteq Nat, NEW tcp, Opening(g, S, tcp), Completion(g, S, tcp)
    PROVE  LET syns == Syns(g, S)
               answers == Answers(g, S, tcp.first_syn)
               acks == Acks(g, S, tcp.first_syn, tcp.syn_ack)
           IN  /\ syns \subseteq S /\ answers \subseteq S /\ acks \subseteq S
               /\ tcp.first_syn = None <=> syns = {}
               /\ tcp.first_syn # None => First(syns) = tcp.first_syn
               /\ tcp.syn_ack = None <=> answers = {}
               /\ tcp.syn_ack # None => First(answers) = tcp.syn_ack /\ tcp.first_syn # None
               /\ tcp.established_ack = None <=> acks = {}
               /\ tcp.established_ack # None =>
                     First(acks) = tcp.established_ack /\ tcp.syn_ack # None
<1> DEFINE syns == Syns(g, S)
           answers == Answers(g, S, tcp.first_syn)
           acks == Acks(g, S, tcp.first_syn, tcp.syn_ack)
<1>1. syns \subseteq S /\ answers \subseteq S /\ acks \subseteq S
  BY DEF Syns, Answers, Acks
<1>2. /\ Earliest(tcp.first_syn, syns) /\ Earliest(tcp.syn_ack, answers)
      /\ Earliest(tcp.established_ack, acks)
  BY DEF Opening, Completion
<1>3. (answers # {} => tcp.first_syn # None) /\ (acks # {} => tcp.syn_ack # None)
  BY DEF Answers, Acks
<1> HIDE DEF syns, answers, acks
<1>4. syns \subseteq Nat /\ answers \subseteq Nat /\ acks \subseteq Nat
  BY <1>1
<1>5. /\ tcp.first_syn = None <=> syns = {}
      /\ tcp.first_syn # None => First(syns) = tcp.first_syn
  BY <1>2, <1>4, EarliestIsFirst
<1>6. /\ tcp.syn_ack = None <=> answers = {}
      /\ tcp.syn_ack # None => First(answers) = tcp.syn_ack
  BY <1>2, <1>4, EarliestIsFirst
<1>7. /\ tcp.established_ack = None <=> acks = {}
      /\ tcp.established_ack # None => First(acks) = tcp.established_ack
  BY <1>2, <1>4, EarliestIsFirst
<1> QED BY <1>1, <1>3, <1>5, <1>6, <1>7 DEF syns, answers, acks

\* A repeated SYN is the first one after the SYN it repeats, from the same side.
LEMMA RepeatNamed ==
    ASSUME NEW g, NEW S, S \subseteq Nat, NEW tcp, Opening(g, S, tcp), tcp.repeated_syn # None
    PROVE  LET repeats == Repeats(g, S, tcp.first_syn)
           IN  /\ tcp.first_syn # None /\ tcp.repeated_syn.first = tcp.first_syn
               /\ First(repeats) = tcp.repeated_syn.second
               /\ tcp.repeated_syn.second \in repeats
               /\ \A j \in repeats : tcp.repeated_syn.second <= j
<1> DEFINE repeats == Repeats(g, S, tcp.first_syn)
           second == tcp.repeated_syn.second
<1>1. /\ repeats # {} /\ Earliest(second, repeats)
      /\ tcp.repeated_syn.first = tcp.first_syn
  BY DEF Opening
<1>2. tcp.first_syn # None /\ repeats \subseteq Nat
  BY <1>1 DEF Repeats, Syns
<1> HIDE DEF repeats, second
<1>3. second # None /\ First(repeats) = second
  BY <1>1, <1>2, EarliestIsFirst
<1>4. second \in repeats /\ \A j \in repeats : second <= j
  BY <1>1, <1>3 DEF Earliest
<1> QED BY <1>1, <1>2, <1>3, <1>4 DEF repeats, second

\* The end of a connection as its segments give it.
EndsAs(tcp, resets, fins) ==
    Termination(tcp) =
      IF resets # {} THEN [state |-> "Reset", packet |-> Latest(resets)]
      ELSE IF fins = {} THEN NotObserved
      ELSE [state |-> "Fin", first_fin |-> First(fins),
            second_fin |-> IF fins = {First(fins)} THEN None
                           ELSE First(fins \ {First(fins)})]

\* Its end names its last RST and its first two FINs.
LEMMA TeardownNamed ==
    ASSUME NEW g, NEW S, S \subseteq Nat, NEW tcp, Teardown(g, S, tcp),
           NEW fins, fins = Fins(g, S), NEW resets, resets = Resets(g, S)
    PROVE  EndsAs(tcp, resets, fins)
<1>1. fins \subseteq Nat /\ resets \subseteq Nat
  BY DEF Fins, Resets
<1>2. /\ Newest(tcp.reset, resets) /\ Earliest(tcp.fin_first, fins)
      /\ Earliest(tcp.fin_last, fins \ {tcp.fin_first})
  BY DEF Teardown
<1>3. /\ tcp.reset = None <=> resets = {}
      /\ tcp.reset # None => Latest(resets) = tcp.reset
  BY <1>1, <1>2, NewestIsLatest
<1>4. /\ tcp.fin_first = None <=> fins = {}
      /\ tcp.fin_first # None => First(fins) = tcp.fin_first
  BY <1>1, <1>2, EarliestIsFirst
<1>5. /\ tcp.fin_last = None <=> fins \ {tcp.fin_first} = {}
      /\ tcp.fin_last # None => First(fins \ {tcp.fin_first}) = tcp.fin_last
  <2>1. fins \ {tcp.fin_first} \subseteq Nat
    BY <1>1
  <2> QED BY <1>2, <2>1, EarliestIsFirst
<1>6. CASE resets # {}
  BY <1>3, <1>6 DEF EndsAs, Termination
<1>7. CASE resets = {} /\ fins = {}
  BY <1>3, <1>4, <1>7 DEF EndsAs, Termination
<1>8. CASE resets = {} /\ fins # {}
  <2>1. tcp.fin_first \in fins
    BY <1>2, <1>4, <1>8 DEF Earliest
  <2>2. fins \ {tcp.fin_first} = {} <=> fins = {tcp.fin_first}
    BY <2>1
  <2>3. tcp.fin_last = IF fins = {First(fins)} THEN None ELSE First(fins \ {First(fins)})
    BY <1>4, <1>5, <1>8, <2>2
  <2>4. Termination(tcp) = [state |-> "Fin", first_fin |-> tcp.fin_first, second_fin |-> tcp.fin_last]
    BY <1>3, <1>4, <1>8 DEF Termination
  <2> QED BY <1>4, <1>8, <2>3, <2>4 DEF EndsAs
<1> QED BY <1>6, <1>7, <1>8

\* EstablishmentExact in every state: a connection is established exactly when
\* its history shows the three packets, they are its evidence and give its
\* latency, and it ended as its last RST or its first two FINs say.
THEOREM EstablishmentShown == Spec => []EstablishmentExact
<1>1. Inv => EstablishmentExact
  <2>1. SUFFICES ASSUME Inv, NEW k \in TcpFlows
        PROVE
        LET tcp == flows[k].tcp
            syns == {i \in Of(k) : IsSyn(Flags(i))}
            syn == First(syns)
            answers == {i \in Of(k) : /\ syn < i /\ IsSynAck(Flags(i))
                                      /\ Dir(i) # Dir(syn)}
            acks == {i \in Of(k) : /\ First(answers) < i /\ "ACK" \in Flags(i)
                                   /\ Dir(i) = Dir(syn)}
            repeats == {i \in syns : syn < i /\ Dir(i) = Dir(syn)}
            resets == {i \in Of(k) : "RST" \in Flags(i)}
            fins == {i \in Of(k) : "FIN" \in Flags(i)}
            established == syns # {} /\ answers # {} /\ acks # {}
        IN  /\ established =>
                /\ Establishment(tcp) =
                      [state |-> "Established", syn |-> syn,
                       syn_ack |-> First(answers), final_ack |-> First(acks)]
                /\ Metrics(flows[k]).handshake_latency = IsNonzero(
                      DurationBetween(capture[syn].ts, capture[First(acks)].ts))
            /\ ~established =>
                /\ Establishment(tcp) =
                     IF syns = {} THEN NotObserved
                     ELSE IF resets # {}
                     THEN [state |-> "Failed", syn |-> syn,
                           cause |-> "Reset", evidence |-> Latest(resets)]
                     ELSE IF repeats # {}
                     THEN [state |-> "Failed", syn |-> syn,
                           cause |-> "RepeatedSyn", evidence |-> First(repeats)]
                     ELSE [state |-> "InProgress", syn |-> syn]
                /\ Metrics(flows[k]).handshake_latency = None
            /\ Termination(tcp) =
                 IF resets # {} THEN [state |-> "Reset", packet |-> Latest(resets)]
                 ELSE IF fins = {} THEN NotObserved
                 ELSE [state |-> "Fin", first_fin |-> First(fins),
                       second_fin |-> IF fins = {First(fins)} THEN None
                                      ELSE First(fins \ {First(fins)})]
    BY DEF EstablishmentExact
  <2> DEFINE tcp == flows[k].tcp
             g == capture
             S == PacketsOf(capture, k)
             syns == {i \in Of(k) : IsSyn(Flags(i))}
             syn == First(syns)
             answers == {i \in Of(k) : /\ syn < i /\ IsSynAck(Flags(i))
                                       /\ Dir(i) # Dir(syn)}
             acks == {i \in Of(k) : /\ First(answers) < i /\ "ACK" \in Flags(i)
                                    /\ Dir(i) = Dir(syn)}
             repeats == {i \in syns : syn < i /\ Dir(i) = Dir(syn)}
             resets == {i \in Of(k) : "RST" \in Flags(i)}
             fins == {i \in Of(k) : "FIN" \in Flags(i)}
             established == syns # {} /\ answers # {} /\ acks # {}
  <2>2. /\ Of(k) = S /\ S \subseteq Nat /\ tcp # None
        /\ Opening(g, S, tcp) /\ Completion(g, S, tcp) /\ Teardown(g, S, tcp)
    BY <2>1, InvShows DEF FlowFacts, FlowShows, ConnectionShows, TcpFlows, Known
  <2>3. syns = Syns(g, S) /\ resets = Resets(g, S) /\ fins = Fins(g, S)
    BY <2>2 DEF Syns, Resets, Fins, Flags
  <2> DEFINE answers2 == Answers(g, S, tcp.first_syn)
             acks2 == Acks(g, S, tcp.first_syn, tcp.syn_ack)
  <2>4. /\ tcp.first_syn = None <=> syns = {}
        /\ tcp.first_syn # None => syn = tcp.first_syn
        /\ tcp.syn_ack = None <=> answers2 = {}
        /\ tcp.syn_ack # None => First(answers2) = tcp.syn_ack /\ tcp.first_syn # None
        /\ tcp.established_ack = None <=> acks2 = {}
        /\ tcp.established_ack # None => First(acks2) = tcp.established_ack /\ tcp.syn_ack # None
    BY <2>2, <2>3, OpeningNamed
  <2>5. tcp.first_syn # None => answers = answers2
    BY <2>2, <2>4 DEF Answers, Dir, Flags
  <2>6. tcp.syn_ack # None => acks = acks2
    BY <2>2, <2>4, <2>5 DEF Acks, Dir, Flags
  <2>7. tcp.first_syn # None => repeats = Repeats(g, S, tcp.first_syn)
    BY <2>3, <2>4 DEF Repeats, Dir
  <2>8. /\ tcp.first_syn # None => g[tcp.first_syn].ts = tcp.first_syn_timestamp
        /\ tcp.established_ack_timestamp =
              IF tcp.established_ack = None THEN None ELSE g[tcp.established_ack].ts
        /\ tcp.repeated_syn = None <=> Repeats(g, S, tcp.first_syn) = {}
        /\ tcp.first_syn = None => Repeats(g, S, tcp.first_syn) = {}
    BY <2>2 DEF Opening, Completion, Repeats
  <2>9. /\ tcp.reset = None <=> resets = {}
        /\ tcp.reset # None => Latest(resets) = tcp.reset
    <3>1. Newest(tcp.reset, resets) /\ resets \subseteq Nat
      BY <2>2, <2>3 DEF Teardown, Resets
    <3> HIDE DEF resets, tcp
    <3> QED BY <3>1, NewestIsLatest
  <2>10. Metrics(flows[k]).handshake_latency =
           IsNonzero(DurationBetween(tcp.first_syn_timestamp, tcp.established_ack_timestamp))
    BY <2>2 DEF Metrics, HandshakeDuration
  <2>11. Termination(tcp) =
           IF resets # {} THEN [state |-> "Reset", packet |-> Latest(resets)]
           ELSE IF fins = {} THEN NotObserved
           ELSE [state |-> "Fin", first_fin |-> First(fins),
                 second_fin |-> IF fins = {First(fins)} THEN None
                                ELSE First(fins \ {First(fins)})]
    <3> HIDE DEF resets, fins, tcp, S, g
    <3>1. S \subseteq Nat /\ Teardown(g, S, tcp) /\ fins = Fins(g, S) /\ resets = Resets(g, S)
      BY <2>2, <2>3
    <3>2. EndsAs(tcp, resets, fins)
      BY <3>1, TeardownNamed
    <3> QED BY <3>2 DEF EndsAs
  <2>12. tcp.repeated_syn # None =>
            First(Repeats(g, S, tcp.first_syn)) = tcp.repeated_syn.second
    BY <2>2, RepeatNamed
  <2> HIDE DEF syns, syn, answers, acks, repeats, resets, fins, answers2, acks2, tcp, S, g
  <2>13. established <=> tcp.established_ack # None
    BY <2>4, <2>5, <2>6
  <2>14. ASSUME established
         PROVE  /\ Establishment(tcp) =
                      [state |-> "Established", syn |-> syn,
                       syn_ack |-> First(answers), final_ack |-> First(acks)]
                /\ Metrics(flows[k]).handshake_latency = IsNonzero(
                      DurationBetween(g[syn].ts, g[First(acks)].ts))
    <3>1. /\ tcp.established_ack # None
          /\ syn = tcp.first_syn /\ First(answers) = tcp.syn_ack
          /\ First(acks) = tcp.established_ack /\ tcp.first_syn # None
      BY <2>4, <2>5, <2>6, <2>13, <2>14
    <3> HIDE DEF established
    <3>2. Establishment(tcp) =
            [state |-> "Established", syn |-> tcp.first_syn,
             syn_ack |-> tcp.syn_ack, final_ack |-> tcp.established_ack]
      BY <3>1 DEF Establishment
    <3> QED BY <2>8, <2>10, <3>1, <3>2
  <2>15. ASSUME ~established
         PROVE  /\ Establishment(tcp) =
                     IF syns = {} THEN NotObserved
                     ELSE IF resets # {}
                     THEN [state |-> "Failed", syn |-> syn,
                           cause |-> "Reset", evidence |-> Latest(resets)]
                     ELSE IF repeats # {}
                     THEN [state |-> "Failed", syn |-> syn,
                           cause |-> "RepeatedSyn", evidence |-> First(repeats)]
                     ELSE [state |-> "InProgress", syn |-> syn]
                /\ Metrics(flows[k]).handshake_latency = None
    <3>1. tcp.established_ack = None
      BY <2>13, <2>15
    <3> HIDE DEF established
    <3>2. Metrics(flows[k]).handshake_latency = None
      BY <2>8, <2>10, <3>1, NoneAssumption DEF DurationBetween, IsNonzero
    <3>3. CASE tcp.first_syn = None
      <4>1. tcp.repeated_syn = None
        BY <2>8, <3>3
      <4>2. Establishment(tcp) = NotObserved
        BY <3>1, <3>3, <4>1 DEF Establishment
      <4> QED BY <2>4, <3>2, <3>3, <4>2
    <3>4. CASE tcp.first_syn # None /\ tcp.reset # None
      <4>1. Establishment(tcp) = [state |-> "Failed", syn |-> tcp.first_syn,
                                  cause |-> "Reset", evidence |-> tcp.reset]
        BY <3>1, <3>4 DEF Establishment
      <4>2. syns # {} /\ resets # {} /\ syn = tcp.first_syn /\ Latest(resets) = tcp.reset
        BY <2>4, <2>9, <3>4
      <4> QED BY <3>2, <4>1, <4>2
    <3>5. CASE tcp.first_syn # None /\ tcp.reset = None /\ tcp.repeated_syn # None
      <4>1. Establishment(tcp) = [state |-> "Failed", syn |-> tcp.first_syn,
                                  cause |-> "RepeatedSyn", evidence |-> tcp.repeated_syn.second]
        BY <3>1, <3>5 DEF Establishment
      <4>2. syns # {} /\ resets = {} /\ repeats # {} /\ syn = tcp.first_syn
        BY <2>4, <2>7, <2>8, <2>9, <3>5
      <4>3. First(repeats) = tcp.repeated_syn.second
        BY <2>7, <2>12, <3>5
      <4> QED BY <3>2, <4>1, <4>2, <4>3
    <3>6. CASE tcp.first_syn # None /\ tcp.reset = None /\ tcp.repeated_syn = None
      <4>1. Establishment(tcp) = [state |-> "InProgress", syn |-> tcp.first_syn]
        BY <3>1, <3>6 DEF Establishment
      <4>2. syns # {} /\ resets = {} /\ repeats = {} /\ syn = tcp.first_syn
        BY <2>4, <2>7, <2>8, <2>9, <3>6
      <4> QED BY <3>2, <4>1, <4>2
    <3> QED BY <3>3, <3>4, <3>5, <3>6
  <2> QED BY <2>11, <2>14, <2>15 DEF syns, syn, answers, acks, repeats, resets, fins, tcp, g
<1> QED BY <1>1, InvHolds, PTL

\* SequenceFindingsExact in every state: an indicator shows the first pair of
\* neighbours of one direction with the numbers it is about, and the repeated
\* sequence numbers of each direction are counted.
THEOREM SequenceFindingsShown == Spec => []SequenceFindingsExact
<1>1. Inv => SequenceFindingsExact
  <2>1. SUFFICES ASSUME Inv, NEW k \in TcpFlows
        PROVE
        LET tcp == flows[k].tcp
            seq(i) == capture[i].tcp.sequence
            ack(i) == capture[i].tcp.acknowledgment
            going(d) == {i \in Of(k) : Dir(i) = d}
            numbered(d) == Neighbours({i \in going(d) : seq(i) # None})
            acked(d) == Neighbours({i \in going(d) : ack(i) # None})
            again(d) == {x \in numbered(d) : seq(x[1]) = seq(x[2])}
            behind(d) == {x \in numbered(d) : seq(x[2]) < seq(x[1])}
            dup(d) == {x \in acked(d) : /\ ack(x[1]) = ack(x[2])
                                        /\ "ACK" \in Flags(x[2])}
        IN  /\ Shows(tcp.retransmission, again("AToB") \cup again("BToA"))
            /\ Shows(tcp.out_of_order, behind("AToB") \cup behind("BToA"))
            /\ Shows(tcp.duplicate_ack, dup("AToB") \cup dup("BToA"))
            /\ \A d \in DOMAIN tcp.side :
                 tcp.side[d].retransmission_sequence_count = Cardinality(again(d))
    BY DEF SequenceFindingsExact
  <2> DEFINE g == capture
             S == PacketsOf(capture, k)
             tcp == flows[k].tcp
             seq(i) == capture[i].tcp.sequence
             ack(i) == capture[i].tcp.acknowledgment
             going(d) == {i \in Of(k) : Dir(i) = d}
             numbered(d) == Neighbours({i \in going(d) : seq(i) # None})
             acked(d) == Neighbours({i \in going(d) : ack(i) # None})
             again(d) == {x \in numbered(d) : seq(x[1]) = seq(x[2])}
             behind(d) == {x \in numbered(d) : seq(x[2]) < seq(x[1])}
             dup(d) == {x \in acked(d) : /\ ack(x[1]) = ack(x[2])
                                         /\ "ACK" \in Flags(x[2])}
  <2>2. /\ Of(k) = S /\ tcp \in TcpFlowAccumulators
        /\ Numbers(g, S, tcp)
    BY <2>1, InvShows DEF FlowFacts, FlowShows, ConnectionShows, TcpFlows, Flows, Optional
  <2>3. ASSUME NEW d
        PROVE  /\ numbered(d) = Neighbours(Sequenced(g, S, d))
               /\ acked(d) = Neighbours(Acknowledged(g, S, d))
    <3>1. {i \in going(d) : seq(i) # None} = Sequenced(g, S, d)
      BY <2>2 DEF Sequenced, Dir
    <3>2. {i \in going(d) : ack(i) # None} = Acknowledged(g, S, d)
      BY <2>2 DEF Acknowledged, Dir
    <3> HIDE DEF going, seq, ack, S, g
    <3> QED BY <3>1, <3>2
  <2> HIDE DEF numbered, acked
  <2>4. ASSUME NEW d
        PROVE  again(d) = Again(g, S, d) /\ behind(d) = Behind(g, S, d) /\ dup(d) = Duplicate(g, S, d)
    BY <2>3 DEF Again, Behind, Duplicate, Flags
  <2> HIDE DEF again, behind, dup
  <2>5. /\ Indicates(g, tcp.retransmission, again("AToB") \cup again("BToA"))
        /\ Indicates(g, tcp.out_of_order, behind("AToB") \cup behind("BToA"))
        /\ Indicates(g, tcp.duplicate_ack, dup("AToB") \cup dup("BToA"))
        /\ tcp.side["AToB"].retransmission_sequence_count = Cardinality(again("AToB"))
        /\ tcp.side["BToA"].retransmission_sequence_count = Cardinality(again("BToA"))
    BY <2>2, <2>4 DEF Numbers, LastNumbers
  <2>6. ASSUME NEW indicator, NEW pairs, Indicates(g, indicator, pairs)
        PROVE  Shows(indicator, pairs)
    BY <2>6 DEF Shows, Indicates, Dir
  <2>7. DOMAIN tcp.side = {"AToB", "BToA"}
    BY <2>2 DEF TcpFlowAccumulators
  <2>8. /\ Shows(tcp.retransmission, again("AToB") \cup again("BToA"))
        /\ Shows(tcp.out_of_order, behind("AToB") \cup behind("BToA"))
        /\ Shows(tcp.duplicate_ack, dup("AToB") \cup dup("BToA"))
        /\ \A d \in DOMAIN tcp.side :
              tcp.side[d].retransmission_sequence_count = Cardinality(again(d))
    BY <2>5, <2>6, <2>7
  <2> QED BY <2>8 DEF again, behind, dup, numbered, acked
<1> QED BY <1>1, InvHolds, PTL

\* The newest message of a transaction is the query left open, if it is one.
LEMMA UnansweredIsLatest ==
    ASSUME NEW g, NEW M, M \subseteq Nat, NEW x, Unanswered(g, x, M)
    PROVE  x = IF M = {} \/ g[Latest(M)].dns.is_response THEN None ELSE Latest(M)
<1>1. ASSUME NEW m \in M, \A j \in M : j <= m
      PROVE  Latest(M) = m
  <2>1. m \in Nat
    OBVIOUS
  <2>2. \A i \in M : (\A j \in M : j <= i) => i = m
    BY <1>1
  <2> QED BY <1>1, <2>2 DEF Latest
<1>2. CASE x = None /\ M = {}
  BY <1>2
<1>3. CASE x = None /\ M # {}
  <2>1. PICK m \in M : g[m].dns.is_response /\ \A j \in M : j <= m
    BY <1>3 DEF Unanswered
  <2>2. Latest(M) = m
    BY <1>1, <2>1
  <2> QED BY <1>3, <2>1, <2>2
<1>4. CASE x # None
  <2>1. x \in M /\ ~g[x].dns.is_response /\ \A j \in M : j <= x
    BY <1>4 DEF Unanswered
  <2>2. Latest(M) = x
    BY <1>1, <2>1
  <2> QED BY <1>4, <2>1, <2>2
<1> QED BY <1>2, <1>3, <1>4

\* DnsTransactionsExact in every state: the query left open, the error responses
\* and the shortest latency are those of the messages of the flow.
THEOREM TransactionsShown == Spec => []DnsTransactionsExact
<1>1. Inv => DnsTransactionsExact
  <2>1. SUFFICES ASSUME Inv, NEW k \in DOMAIN flows
        PROVE
        LET dns(i) == capture[i].dns
            answered(r) == {q \in DnsMessages(k, dns(r).id) :
                              q < r /\ ~dns(q).is_response
                              /\ Adjacent(DnsMessages(k, dns(r).id), q, r)}
            latencies == {Latency(x) : x \in UNION {Exchanges(k, t) : t \in TransactionIds}}
                             \ {None}
            errors == {i \in Of(k) : dns(i) # None /\ dns(i).is_response /\ dns(i).failed}
        IN  /\ \A t \in TransactionIds : flows[k].dns_queries[t] =
                   IF DnsMessages(k, t) = {} \/ dns(Latest(DnsMessages(k, t))).is_response
                   THEN None ELSE Latest(DnsMessages(k, t))
            /\ flows[k].dns_error_responses =
                   {IF answered(r) = {} THEN [first |-> r, second |-> None]
                    ELSE [first |-> Latest(answered(r)), second |-> r] : r \in errors}
            /\ {flows[k].dns_response_latency} \ {None} =
                   {x \in latencies : \A y \in latencies : x <= y}
    BY DEF DnsTransactionsExact
  <2> DEFINE g == capture
             S == PacketsOf(capture, k)
             dns(i) == capture[i].dns
             answered(r) == {q \in DnsMessages(k, dns(r).id) :
                               q < r /\ ~dns(q).is_response
                               /\ Adjacent(DnsMessages(k, dns(r).id), q, r)}
             latencies == {Latency(x) : x \in UNION {Exchanges(k, t) : t \in TransactionIds}}
                              \ {None}
             errors == {i \in Of(k) : dns(i) # None /\ dns(i).is_response /\ dns(i).failed}
             latency == flows[k].dns_response_latency
  <2>2. /\ Of(k) = S /\ Known(g, S) /\ S \subseteq Nat
        /\ Transactions(g, S, flows[k]) /\ Clocks(g, S, flows[k])
    BY <2>1, InvShows DEF FlowFacts, FlowShows, Known
  <2>3. \A t : DnsMessages(k, t) = TransactionOf(g, S, t)
    BY <2>2 DEF TransactionOf, DnsMessages
  <2>4. \A r : answered(r) = Answered(g, S, r)
    BY <2>3 DEF Answered
  <2>5. errors = Errors(g, S)
    BY <2>2 DEF Errors
  <2>6. \A t : Exchanges(k, t) = Measured(g, TimedOf(g, S, t))
    <3> TAKE t
    <3>1. {i \in DnsMessages(k, t) : capture[i].ts # None} = TimedOf(g, S, t)
      BY <2>3 DEF TimedOf
    <3> QED BY <3>1 DEF Measured, Exchanges
  <2> HIDE DEF answered, errors
  <2>7. UNION {Exchanges(k, t) : t \in TransactionIds} = MeasuredPairs(g, S)
    <3>1. \A x : x \in UNION {Exchanges(k, t) : t \in TransactionIds} <=> x \in MeasuredPairs(g, S)
      BY <2>6 DEF MeasuredPairs
    <3> QED BY <3>1
  <2>8. latencies = Latencies(g, S)
    BY <2>7 DEF Latencies, Latency
  <2> HIDE DEF latencies
  <2>9. ASSUME NEW t \in TransactionIds
        PROVE  flows[k].dns_queries[t] =
                   IF DnsMessages(k, t) = {} \/ dns(Latest(DnsMessages(k, t))).is_response
                   THEN None ELSE Latest(DnsMessages(k, t))
    <3>1. /\ Unanswered(g, flows[k].dns_queries[t], TransactionOf(g, S, t))
          /\ TransactionOf(g, S, t) \subseteq Nat
      BY <2>2 DEF Transactions, TransactionOf
    <3>2. DnsMessages(k, t) = TransactionOf(g, S, t)
      BY <2>3
    <3> QED BY <3>1, <3>2, UnansweredIsLatest
  <2>10. flows[k].dns_error_responses =
           {IF answered(r) = {} THEN [first |-> r, second |-> None]
            ELSE [first |-> Latest(answered(r)), second |-> r] : r \in errors}
    <3>1. flows[k].dns_error_responses = {ErrorPair(g, S, r) : r \in Errors(g, S)}
      BY <2>2 DEF Transactions
    <3>2. \A r : ErrorPair(g, S, r) =
                   IF answered(r) = {} THEN [first |-> r, second |-> None]
                   ELSE [first |-> Latest(answered(r)), second |-> r]
      BY <2>4 DEF ErrorPair
    <3> QED BY <2>5, <3>1, <3>2
  <2>11. {latency} \ {None} = {x \in latencies : \A y \in latencies : x <= y}
    <3>1. Earliest(latency, latencies)
      BY <2>2, <2>8 DEF Clocks
    <3>2. latencies \subseteq Nat
      BY <2>2, <2>8, LatenciesTyped
    <3> HIDE DEF latency
    <3>3. CASE latency = None
      BY <3>1, <3>3 DEF Earliest
    <3>4. CASE latency # None
      <4>1. latency \in latencies /\ \A y \in latencies : latency <= y
        BY <3>1, <3>4 DEF Earliest
      <4>2. ASSUME NEW x \in latencies, \A y \in latencies : x <= y
            PROVE  x = latency
        BY <3>2, <4>1, <4>2
      <4> QED BY <3>4, <4>1, <4>2
    <3> QED BY <3>3, <3>4
  <2> QED BY <2>9, <2>10, <2>11 DEF answered, latencies, errors
<1> QED BY <1>1, InvHolds, PTL

\* What one more packet leaves of the conclusions about a connection.
Stand(before, after) ==
    /\ Establishment(before).state = "Established" =>
          Establishment(after) = Establishment(before)
    /\ before.retransmission # None => after.retransmission = before.retransmission
    /\ before.out_of_order # None => after.out_of_order = before.out_of_order
    /\ Termination(before).state = "Reset" => Termination(after).state = "Reset"
    /\ Termination(before) # NotObserved => Termination(after) # NotObserved

\* A segment leaves the evidence of an established connection, and what ended it.
LEMMA SegmentKeeps ==
    ASSUME NEW g, NEW S, S \subseteq Nat, NEW tcp \in TcpFlowAccumulators,
           Opening(g, S, tcp), Completion(g, S, tcp),
           NEW p, NEW d, Taken(p, d), NEW a, a = ApplyTcpPacketToFlow(tcp, p, d)
    PROVE  Stand(tcp, a)
<1>1. Effect(tcp, p, d, a)
  BY SegmentApplied
<1>2. p.id \in Nat /\ p.id # None
  BY NoneAssumption DEF Taken
<1>3. tcp.established_ack # None => tcp.syn_ack # None /\ tcp.first_syn # None
  BY DEF Completion, Earliest, Answers, Acks
<1>4. Establishment(tcp).state = "Established" => tcp.established_ack # None
  BY DEF Establishment, NotObserved
<1>5. ASSUME tcp.established_ack # None
      PROVE  Establishment(a) = Establishment(tcp)
  <2>1. /\ a.first_syn = tcp.first_syn /\ a.syn_ack = tcp.syn_ack
        /\ a.established_ack = tcp.established_ack
    BY <1>1, <1>3, <1>5 DEF Effect, Once
  <2> QED BY <1>5, <2>1 DEF Establishment
<1>6. IndicatorEffect(tcp, p, d, a)
  BY NumbersApplied
<1>7. /\ tcp.retransmission # None => a.retransmission = tcp.retransmission
      /\ tcp.out_of_order # None => a.out_of_order = tcp.out_of_order
  BY <1>6 DEF IndicatorEffect, Once
<1>8. /\ tcp.reset # None => a.reset # None
      /\ tcp.fin_first # None => a.fin_first # None
  BY <1>1, <1>2 DEF Effect, Once
<1>9. ASSUME NEW t
      PROVE  /\ Termination(t).state = "Reset" <=> t.reset # None
             /\ Termination(t) # NotObserved <=> t.reset # None \/ t.fin_first # None
  <2>1. CASE t.reset # None
    <3>1. Termination(t) = [state |-> "Reset", packet |-> t.reset]
      BY <2>1 DEF Termination
    <3>2. Termination(t).state = "Reset" /\ NotObserved.state = "NotObserved"
      BY <3>1 DEF NotObserved
    <3> QED BY <2>1, <3>2
  <2>2. CASE t.reset = None /\ t.fin_first # None
    <3>1. Termination(t) = [state |-> "Fin", first_fin |-> t.fin_first, second_fin |-> t.fin_last]
      BY <2>2 DEF Termination
    <3>2. Termination(t).state = "Fin" /\ NotObserved.state = "NotObserved"
      BY <3>1 DEF NotObserved
    <3> QED BY <2>2, <3>2
  <2>3. CASE t.reset = None /\ t.fin_first = None
    <3>1. Termination(t) = NotObserved /\ NotObserved.state = "NotObserved"
      BY <2>3 DEF Termination, NotObserved
    <3> QED BY <2>3, <3>1
  <2> QED BY <2>1, <2>2, <2>3
<1> QED BY <1>4, <1>5, <1>7, <1>8, <1>9 DEF Stand

\* One packet more takes nothing back.
LEMMA PacketKeeps ==
    ASSUME NEW g, NEW S, S \subseteq Nat, NEW flow, FlowShows(g, S, flow),
           NEW p \in PacketRecord, NEW d \in FlowDirection,
           NEW f, f = ApplyPacket(flow, p, d)
    PROVE  /\ flow.dns_error_responses \subseteq f.dns_error_responses
           /\ flow.tcp # None => /\ Stand(flow.tcp, f.tcp)
                                 /\ ~IsPartialCapture(flow) => ~IsPartialCapture(f)
<1>1. flow \in Flows
  BY DEF FlowShows
<1>2. /\ ViewsEffect(flow, p, d, f)
      /\ p.dns = None => SameTransactions(f, flow)
      /\ p.dns # None => TransactionEffect(flow, p, f)
  BY <1>1, PacketApplied
<1>3. flow.dns_error_responses \subseteq f.dns_error_responses
  BY <1>2 DEF SameTransactions, TransactionEffect
<1>4. ASSUME flow.tcp # None
      PROVE  Stand(flow.tcp, f.tcp)
  <2> DEFINE tcp == flow.tcp
             a == f.tcp
  <2>1. tcp \in TcpFlowAccumulators /\ Opening(g, S, tcp) /\ Completion(g, S, tcp)
    BY <1>1, <1>4 DEF FlowShows, ConnectionShows, Flows, Optional
  <2>2. a = IF p.tcp = None THEN tcp ELSE ApplyTcpPacketToFlow(tcp, p, d)
    BY <1>2, <1>4 DEF ViewsEffect, Connection
  <2> HIDE DEF tcp, a
  <2>3. CASE p.tcp = None
    BY <2>2, <2>3 DEF Stand, tcp, a
  <2>4. CASE p.tcp # None
    <3>1. Taken(p, d)
      BY <2>4 DEF Taken, PacketRecord, Optional
    <3>2. Stand(tcp, ApplyTcpPacketToFlow(tcp, p, d))
      BY <2>1, <3>1, SegmentKeeps
    <3> QED BY <2>2, <2>4, <3>2 DEF tcp, a
  <2> QED BY <2>3, <2>4
<1>5. ~OneSided(flow) => ~OneSided(f)
  <2>1. flow.packets.packets_from_a \in Nat /\ flow.packets.packets_from_b \in Nat
    BY <1>1 DEF Flows, FlowAccumulators
  <2>2. /\ f.packets.packets_from_a = flow.packets.packets_from_a + IF d = "BToA" THEN 0 ELSE 1
        /\ f.packets.packets_from_b = flow.packets.packets_from_b + IF d = "BToA" THEN 1 ELSE 0
    BY <1>2 DEF ViewsEffect, ApplyPacketToFlow
  <2> QED BY <2>1, <2>2 DEF OneSided
<1>6. flow.tcp # None => (~IsPartialCapture(flow) => ~IsPartialCapture(f))
  BY <1>4, <1>5 DEF IsPartialCapture, Stand
<1> QED BY <1>3, <1>4, <1>6

\* ConclusionsStand in every step: an established connection, an indicator, a
\* reset, a whole capture and an error response are not taken back.
THEOREM ConclusionsKept == Spec => ConclusionsStand
<1> DEFINE Kept(k) ==
             /\ flows[k].dns_error_responses \subseteq flows'[k].dns_error_responses
             /\ k.protocol = "Tcp" =>
                  LET before == flows[k].tcp
                      after == flows'[k].tcp
                  IN  /\ Establishment(before).state = "Established" =>
                            Establishment(after) = Establishment(before)
                      /\ before.retransmission # None =>
                            after.retransmission = before.retransmission
                      /\ before.out_of_order # None =>
                            after.out_of_order = before.out_of_order
                      /\ Termination(before).state = "Reset" =>
                            Termination(after).state = "Reset"
                      /\ ~IsPartialCapture(flows[k]) => ~IsPartialCapture(flows'[k])
<1>1. Inv /\ Next => \A k \in DOMAIN flows : Kept(k)
  <2>1. SUFFICES ASSUME Inv, NEW q \in Captures[input].packets,
                        SkipPacket(Numbered(q)) \/ FoldPacket(Numbered(q)),
                        NEW k \in DOMAIN flows
                 PROVE  Kept(k)
    BY DEF Next
  <2>2. CASE flows'[k] = flows[k]
    BY <2>2
  <2>3. CASE flows'[k] # flows[k]
    <3> DEFINE p == Numbered(q)
    <3>1. FoldPacket(p)
      BY <2>1, <2>3 DEF SkipPacket
    <3>2. p \in PacketRecord
      <4>1. q \in PacketRecord /\ Len(capture) \in Nat
        BY <2>1, CapturesAssumption DEF Inv, Captured
      <4> QED BY <4>1 DEF Numbered, PacketRecord
    <3> HIDE DEF p
    <3>3. flows'[k] = ApplyPacket(flows[k], p, Direction(p))
      BY <2>1, <2>3, <3>1 DEF FoldPacket
    <3>4. /\ FlowShows(capture, PacketsOf(capture, k), flows[k])
          /\ PacketsOf(capture, k) \subseteq Nat
          /\ flows[k].tcp = None <=> k.protocol # "Tcp"
      BY <2>1, InvShows DEF FlowFacts, Known
    <3>5. /\ flows[k].dns_error_responses \subseteq flows'[k].dns_error_responses
          /\ flows[k].tcp # None =>
                /\ Stand(flows[k].tcp, flows'[k].tcp)
                /\ ~IsPartialCapture(flows[k]) => ~IsPartialCapture(flows'[k])
      BY <3>2, <3>3, <3>4, DirectionTyped, PacketKeeps
    <3> QED BY <3>4, <3>5 DEF Stand
  <2> QED BY <2>2, <2>3
<1>2. Inv /\ [Next]_vars => [\A k \in DOMAIN flows : Kept(k)]_vars
  BY <1>1
<1> QED BY <1>2, InvHolds, PTL DEF Spec, ConclusionsStand
-----------------------------------------------------------------------------
\* The flows among themselves.

FlowKeys == [interface : Nat, protocol : {"Tcp", "Udp"}, endpoint_a : Int, endpoint_b : Int]

Rank(k) == IF k.protocol = "Tcp" THEN 0 ELSE 1

\* The keys in the order of their fields.
Precedes(j, k) ==
    \/ j.interface < k.interface
    \/ /\ j.interface = k.interface
       /\ \/ Rank(j) < Rank(k)
          \/ /\ Rank(j) = Rank(k)
             /\ \/ j.endpoint_a < k.endpoint_a
                \/ j.endpoint_a = k.endpoint_a /\ j.endpoint_b < k.endpoint_b

\* A tuple comes before another when it is less where they first differ.
LEMMA TuplesOrdered ==
    ASSUME NEW a1, NEW a2, NEW a3, NEW a4, NEW b1, NEW b2, NEW b3, NEW b4
    PROVE  (\E n \in 1 .. 4 : /\ <<a1, a2, a3, a4>>[n] < <<b1, b2, b3, b4>>[n]
                              /\ \A m \in 1 .. n - 1 :
                                    <<a1, a2, a3, a4>>[m] = <<b1, b2, b3, b4>>[m])
             <=> \/ a1 < b1
                 \/ a1 = b1 /\ a2 < b2
                 \/ a1 = b1 /\ a2 = b2 /\ a3 < b3
                 \/ a1 = b1 /\ a2 = b2 /\ a3 = b3 /\ a4 < b4
<1> DEFINE a == <<a1, a2, a3, a4>>
           b == <<b1, b2, b3, b4>>
           Less(n) == a[n] < b[n] /\ \A m \in 1 .. n - 1 : a[m] = b[m]
<1>1. /\ a[1] = a1 /\ a[2] = a2 /\ a[3] = a3 /\ a[4] = a4
      /\ b[1] = b1 /\ b[2] = b2 /\ b[3] = b3 /\ b[4] = b4
  OBVIOUS
<1> HIDE DEF a, b
<1>2. 1 .. 4 = {1, 2, 3, 4}
  OBVIOUS
<1>3. 1 .. 1 - 1 = {} /\ 1 .. 2 - 1 = {1} /\ 1 .. 3 - 1 = {1, 2} /\ 1 .. 4 - 1 = {1, 2, 3}
  OBVIOUS
<1>4. /\ Less(1) <=> a1 < b1
      /\ Less(2) <=> a1 = b1 /\ a2 < b2
  BY <1>1, <1>3
<1>5. Less(3) <=> a1 = b1 /\ a2 = b2 /\ a3 < b3
  BY <1>1, <1>3
<1>6. Less(4) <=> a1 = b1 /\ a2 = b2 /\ a3 = b3 /\ a4 < b4
  BY <1>1, <1>3
<1> HIDE DEF Less
<1>7. (\E n \in 1 .. 4 : Less(n)) <=> Less(1) \/ Less(2) \/ Less(3) \/ Less(4)
  BY <1>2
<1> QED BY <1>4, <1>5, <1>6, <1>7 DEF Less, a, b

\* The order of the keys is that of their fields.
LEMMA KeysOrdered ==
    ASSUME NEW j \in FlowKeys, NEW k \in FlowKeys
    PROVE  KeyBefore(j, k) <=> Precedes(j, k)
<1> DEFINE rank == [Tcp |-> 0, Udp |-> 1]
<1>1. rank[j.protocol] = Rank(j) /\ rank[k.protocol] = Rank(k)
  BY DEF FlowKeys, Rank
<1> HIDE DEF rank
<1>2. KeyBefore(j, k) <=>
        \E n \in 1 .. 4 :
           /\ <<j.interface, rank[j.protocol], j.endpoint_a, j.endpoint_b>>[n]
                < <<k.interface, rank[k.protocol], k.endpoint_a, k.endpoint_b>>[n]
           /\ \A m \in 1 .. n - 1 :
                 <<j.interface, rank[j.protocol], j.endpoint_a, j.endpoint_b>>[m]
                   = <<k.interface, rank[k.protocol], k.endpoint_a, k.endpoint_b>>[m]
  BY DEF KeyBefore, rank
<1> QED BY <1>1, <1>2, TuplesOrdered DEF Precedes

\* Of two keys one comes first, and never both.
LEMMA KeysTotal ==
    ASSUME NEW j \in FlowKeys, NEW k \in FlowKeys, NEW l \in FlowKeys
    PROVE  /\ ~KeyBefore(k, k)
           /\ KeyBefore(j, k) /\ KeyBefore(k, l) => KeyBefore(j, l)
           /\ j # k => KeyBefore(j, k) \/ KeyBefore(k, j)
<1>1. ASSUME NEW x \in FlowKeys
      PROVE  /\ x.interface \in Int /\ x.endpoint_a \in Int /\ x.endpoint_b \in Int
             /\ Rank(x) \in Int /\ x.protocol \in {"Tcp", "Udp"}
  BY DEF FlowKeys, Rank
<1>2. ~Precedes(k, k)
  BY <1>1 DEF Precedes
<1>3. Precedes(j, k) /\ Precedes(k, l) => Precedes(j, l)
  <2>1. /\ j.interface \in Int /\ j.endpoint_a \in Int /\ j.endpoint_b \in Int /\ Rank(j) \in Int
        /\ k.interface \in Int /\ k.endpoint_a \in Int /\ k.endpoint_b \in Int /\ Rank(k) \in Int
        /\ l.interface \in Int /\ l.endpoint_a \in Int /\ l.endpoint_b \in Int /\ Rank(l) \in Int
    BY <1>1
  <2> QED BY <2>1 DEF Precedes
<1>4. ASSUME ~Precedes(j, k), ~Precedes(k, j)
      PROVE  j = k
  <2>1. /\ j.interface = k.interface /\ Rank(j) = Rank(k)
        /\ j.endpoint_a = k.endpoint_a /\ j.endpoint_b = k.endpoint_b
    BY <1>1, <1>4 DEF Precedes
  <2>2. j.protocol = k.protocol
    BY <1>1, <2>1 DEF Rank
  <2> QED BY <2>1, <2>2 DEF FlowKeys
<1> QED BY <1>2, <1>3, <1>4, KeysOrdered

\* The positions of finitely many keys are 0, 1, ... without gap or tie.
LEMMA PositionsFill ==
    ASSUME NEW K \in SUBSET FlowKeys, IsFiniteSet(K)
    PROVE  {Position(k, K) : k \in K} = 0 .. Cardinality(K) - 1
<1> DEFINE B(k) == {j \in K : KeyBefore(j, k)}
           n == Cardinality(K)
           T == 0 .. n - 1
           f == [k \in K |-> Cardinality(B(k))]
<1>1. n \in Nat
  BY FS_CardinalityType
<1>2. ASSUME NEW k \in K
      PROVE  IsFiniteSet(B(k)) /\ Cardinality(B(k)) \in T
  <2>1. ~KeyBefore(k, k)
    BY KeysTotal
  <2>2. B(k) \in SUBSET (K \ {k})
    BY <2>1
  <2> HIDE DEF B
  <2>3. IsFiniteSet(K \ {k}) /\ Cardinality(K \ {k}) = n - 1
    BY FS_RemoveElement
  <2>4. IsFiniteSet(B(k)) /\ Cardinality(B(k)) <= n - 1
    BY <2>2, <2>3, FS_Subset
  <2>5. Cardinality(B(k)) \in Nat
    BY <2>4, FS_CardinalityType
  <2> QED BY <1>1, <2>4, <2>5
<1>3. ASSUME NEW j \in K, NEW k \in K, KeyBefore(j, k)
      PROVE  Cardinality(B(j)) # Cardinality(B(k))
  <2>1. ~KeyBefore(j, j) /\ \A i \in K : KeyBefore(i, j) => KeyBefore(i, k)
    BY <1>3, KeysTotal
  <2>2. B(j) \in SUBSET B(k) /\ B(j) # B(k)
    BY <1>3, <2>1
  <2> HIDE DEF B
  <2> QED BY <1>2, <2>2, FS_Subset
<1>4. \A j, k \in K : Cardinality(B(j)) = Cardinality(B(k)) => j = k
  <2>1. SUFFICES ASSUME NEW j \in K, NEW k \in K, j # k
                 PROVE  Cardinality(B(j)) # Cardinality(B(k))
    OBVIOUS
  <2> HIDE DEF B
  <2>2. KeyBefore(j, k) \/ KeyBefore(k, j)
    BY <2>1, KeysTotal
  <2> QED BY <1>3, <2>2
<1> HIDE DEF B, n, T
<1>5. f \in Injection(K, T)
  BY <1>2, <1>4 DEF Injection, IsInjective
<1>6. IsFiniteSet(T) /\ Cardinality(T) = n
  BY <1>1, FS_Interval DEF T
<1>7. f \in Surjection(K, T)
  BY <1>5, <1>6, FS_Injection DEF n
<1>8. {f[k] : k \in K} = T
  BY <1>5, <1>7 DEF Surjection, Injection
<1>9. \A k : Position(k, K) = Cardinality(B(k))
  BY DEF Position, B
<1> QED BY <1>8, <1>9 DEF T, n

\* A key holds the lesser endpoint first, and the direction says who sent.
LEMMA KeyOfPacket ==
    ASSUME NEW p \in PacketRecord, HasFlow(p)
    PROVE  /\ FlowKey(p) \in FlowKeys
           /\ Direction(p) = "BToA" <=> p.source # FlowKey(p).endpoint_a
           /\ FlowKey(p).interface = p.interface /\ FlowKey(p).protocol = p.protocol
<1>1. /\ p.interface \in Nat /\ p.source \in Int /\ p.destination \in Int
      /\ p.protocol \in {"Tcp", "Udp"}
  BY DEF PacketRecord, HasFlow, Optional
<1>2. /\ FlowKey(p).interface = p.interface /\ FlowKey(p).protocol = p.protocol
      /\ FlowKey(p).endpoint_a = IF p.source < p.destination THEN p.source ELSE p.destination
  BY DEF FlowKey
<1>3. FlowKey(p) \in FlowKeys
  BY <1>1 DEF FlowKey, FlowKeys
<1>4. CASE p.source < p.destination
  <2>1. FlowKey(p).endpoint_a = p.source /\ ~(p.destination < p.source)
    BY <1>1, <1>2, <1>4
  <2>2. Direction(p) = "AToB"
    BY <1>4, <2>1 DEF Direction
  <2> QED BY <1>2, <1>3, <2>1, <2>2
<1>5. CASE p.destination < p.source
  <2>1. FlowKey(p).endpoint_a = p.destination /\ p.destination # p.source /\ ~(p.source < p.destination)
    BY <1>1, <1>2, <1>5
  <2>2. Direction(p) = "BToA"
    BY <1>5, <2>1 DEF Direction
  <2> QED BY <1>2, <1>3, <2>1, <2>2
<1>6. CASE p.source = p.destination
  <2>1. ~(p.source < p.destination) /\ ~(p.destination < p.source)
    BY <1>1, <1>6
  <2>2. Direction(p) = "Unknown" /\ FlowKey(p).endpoint_a = p.source
    BY <1>2, <1>6, <2>1 DEF Direction
  <2> QED BY <1>2, <1>3, <2>2
<1> QED BY <1>1, <1>4, <1>5, <1>6

\* Packets of one conversation have one key, whoever sent them.
LEMMA ConversationHasOneKey ==
    ASSUME NEW p \in PacketRecord, HasFlow(p), NEW q \in PacketRecord, HasFlow(q)
    PROVE  SameConversation(p, q) <=> FlowKey(p) = FlowKey(q)
<1>1. /\ p.source \in Int /\ p.destination \in Int
      /\ q.source \in Int /\ q.destination \in Int
  BY DEF PacketRecord
<1> DEFINE a(r) == IF r.source < r.destination THEN r.source ELSE r.destination
           b(r) == IF r.source < r.destination THEN r.destination ELSE r.source
<1>2. FlowKey(p) = FlowKey(q) <=>
         /\ p.interface = q.interface /\ p.protocol = q.protocol
         /\ a(p) = a(q) /\ b(p) = b(q)
  BY DEF FlowKey
<1>3. {p.source, p.destination} = {q.source, q.destination} <=>
         \/ p.source = q.source /\ p.destination = q.destination
         \/ p.source = q.destination /\ p.destination = q.source
  OBVIOUS
<1>4. a(p) = a(q) /\ b(p) = b(q) <=>
         \/ p.source = q.source /\ p.destination = q.destination
         \/ p.source = q.destination /\ p.destination = q.source
  BY <1>1
<1> HIDE DEF a, b
<1> QED BY <1>2, <1>3, <1>4 DEF SameConversation

\* The packets of a flow with the direction they have.
LEMMA SidesOfFlow ==
    ASSUME NEW k \in DOMAIN flows, FlowFacts(k)
    PROVE  LET S == PacketsOf(capture, k)
           IN  /\ k \in FlowKeys
               /\ FromB(capture, S) = {i \in S : capture[i].source # k.endpoint_a}
<1> DEFINE S == PacketsOf(capture, k)
<1>1. \A i \in S : /\ capture[i] \in PacketRecord /\ HasFlow(capture[i])
                   /\ FlowKey(capture[i]) = k
  BY DEF FlowFacts, Known
<1>2. S # {}
  BY DEF FlowFacts
<1> HIDE DEF S
<1>3. k \in FlowKeys
  BY <1>1, <1>2, KeyOfPacket
<1>4. \A i \in S : Direction(capture[i]) = "BToA" <=> capture[i].source # k.endpoint_a
  BY <1>1, KeyOfPacket
<1>5. FromB(capture, S) = {i \in S : capture[i].source # k.endpoint_a}
  BY <1>4 DEF FromB
<1> QED BY <1>3, <1>5 DEF S

\* A flow counts, times and lists all its packets and no other.
LEMMA FlowIsWhole ==
    ASSUME NEW k \in DOMAIN flows, FlowFacts(k)
    PROVE
        LET times == {capture[i].ts : i \in Of(k)} \ {None}
            packets == flows[k].packets
        IN  /\ packets.packets_from_b
                   = Cardinality({i \in Of(k) : capture[i].source # k.endpoint_a})
            /\ packets.packets_from_a = Cardinality(Of(k)) - packets.packets_from_b
            /\ times = {} => {packets.first_timestamp, packets.last_timestamp} = {None}
            /\ times # {} => {packets.first_timestamp, packets.last_timestamp} \subseteq times
            /\ \A t \in times : /\ ~Before(t, packets.first_timestamp)
                                /\ ~Before(packets.last_timestamp, t)
            /\ {flows[k].messages[n].packet : n \in LaneA(flows[k])}
                   = {i \in Of(k) : capture[i].source = k.endpoint_a}
            /\ \A n \in DOMAIN flows[k].messages : \A m \in 1 .. n - 1 :
                   flows[k].messages[m].packet < flows[k].messages[n].packet
<1> DEFINE S == PacketsOf(capture, k)
           B == FromB(capture, S)
           packets == flows[k].packets
           times == {capture[i].ts : i \in Of(k)} \ {None}
           messages == flows[k].messages
<1>1. /\ Of(k) = S /\ Counts(capture, S, flows[k]) /\ Span(capture, S, flows[k])
      /\ Lists(capture, S, messages)
  BY DEF FlowFacts, FlowShows
<1>2. B = {i \in S : capture[i].source # k.endpoint_a} /\ B \subseteq S
  BY SidesOfFlow DEF FromB
<1>3. /\ packets.packets_from_b = Cardinality(B)
      /\ packets.packets_from_a = Cardinality(S \ B)
      /\ IsFiniteSet(S)
  BY <1>1 DEF Counts
<1>4. times = Times(capture, S)
  BY <1>1 DEF Times
<1> HIDE DEF S, B, packets, times
<1>5. Cardinality(S \ B) = Cardinality(S) - Cardinality(B)
  <2>1. /\ IsFiniteSet(B) /\ IsFiniteSet(S \ B)
        /\ Cardinality(B) \in Nat /\ Cardinality(S \ B) \in Nat
    BY <1>2, <1>3, FS_Subset, FS_CardinalityType
  <2>2. (S \ B) \cup B = S /\ (S \ B) \cap B = {}
    BY <1>2
  <2>3. Cardinality(S) = Cardinality(S \ B) + Cardinality(B) - 0
    BY <2>1, <2>2, FS_Union, FS_EmptySet
  <2> QED BY <2>1, <2>3
<1>6. /\ times = {} => {packets.first_timestamp, packets.last_timestamp} = {None}
      /\ times # {} => {packets.first_timestamp, packets.last_timestamp} \subseteq times
      /\ \A t \in times : /\ ~Before(t, packets.first_timestamp)
                          /\ ~Before(packets.last_timestamp, t)
  BY <1>1, <1>4 DEF Span, packets
<1>7. {messages[n].packet : n \in LaneA(flows[k])} = {i \in S : capture[i].source = k.endpoint_a}
  <2>1. \A n : n \in LaneA(flows[k]) <=> n \in DOMAIN messages /\ messages[n].direction # "BToA"
    BY DEF LaneA
  <2>2. \A n \in DOMAIN messages : messages[n].packet \in S
                                   /\ messages[n].direction = Direction(capture[messages[n].packet])
    BY <1>1 DEF Lists
  <2>3. \A i \in S : \E n \in DOMAIN messages : messages[n].packet = i
    BY <1>1 DEF Lists
  <2>4. \A i \in S : Direction(capture[i]) = "BToA" <=> capture[i].source # k.endpoint_a
    BY <1>2 DEF FromB, B
  <2> HIDE DEF messages
  <2> QED BY <2>1, <2>2, <2>3, <2>4
<1>8. \A n \in DOMAIN messages : \A m \in 1 .. n - 1 : messages[m].packet < messages[n].packet
  BY <1>1 DEF Lists
<1> QED BY <1>1, <1>2, <1>3, <1>5, <1>6, <1>7, <1>8 DEF packets, times

\* The flows are finitely many.
LEMMA FinitelyMany ==
    ASSUME Inv
    PROVE  DOMAIN flows \in SUBSET FlowKeys /\ IsFiniteSet(DOMAIN flows)
<1> DEFINE I == {i \in DOMAIN capture : HasFlow(capture[i])}
           K == DOMAIN flows
           f == [i \in I |-> FlowKey(capture[i])]
<1>1. /\ capture \in Seq(PacketRecord)
      /\ K = {FlowKey(capture[i]) : i \in I}
  BY DEF Inv, Captured, Histories
<1>2. DOMAIN capture = 1 .. Len(capture) /\ Len(capture) \in Nat
      /\ \A i \in DOMAIN capture : capture[i] \in PacketRecord
  BY <1>1
<1>3. IsFiniteSet(I)
  <2>1. IsFiniteSet(DOMAIN capture)
    BY <1>2, FS_Interval
  <2> QED BY <2>1, FS_Subset
<1>4. K \in SUBSET FlowKeys
  BY <1>1, <1>2, KeyOfPacket
<1> HIDE DEF I, K
<1>5. f \in Surjection(I, K)
  BY <1>1 DEF Surjection
<1>6. IsFiniteSet(K)
  BY <1>3, <1>5, FS_Surjection
<1> QED BY <1>4, <1>6 DEF K

\* ConversationsAreWhole in every state: packets share a flow exactly when they
\* belong to one conversation, a flow counts, times and lists its own packets,
\* and the flows, and the TCP states, are numbered 0, 1, ... without gap or tie.
THEOREM ConversationsKept == Spec => []ConversationsAreWhole
<1>1. Inv => ConversationsAreWhole
  <2>1. SUFFICES ASSUME Inv
                 PROVE  ConversationsAreWhole
    OBVIOUS
  <2>2. /\ capture \in Seq(PacketRecord)
        /\ DOMAIN flows = {FlowKey(capture[i]) : i \in {i \in Ids : HasFlow(capture[i])}}
    BY <2>1 DEF Inv, Captured, Histories, Ids
  <2>3. \A i, j \in {i \in Ids : HasFlow(capture[i])} :
          SameConversation(capture[i], capture[j]) <=> FlowKey(capture[i]) = FlowKey(capture[j])
    <3>1. \A i \in Ids : capture[i] \in PacketRecord
      BY <2>2 DEF Ids
    <3> QED BY <3>1, ConversationHasOneKey
  <2>4. \A k \in DOMAIN flows :
        LET times == {capture[i].ts : i \in Of(k)} \ {None}
            packets == flows[k].packets
        IN  /\ packets.packets_from_b
                   = Cardinality({i \in Of(k) : capture[i].source # k.endpoint_a})
            /\ packets.packets_from_a = Cardinality(Of(k)) - packets.packets_from_b
            /\ times = {} => {packets.first_timestamp, packets.last_timestamp} = {None}
            /\ times # {} => {packets.first_timestamp, packets.last_timestamp} \subseteq times
            /\ \A t \in times : /\ ~Before(t, packets.first_timestamp)
                                /\ ~Before(packets.last_timestamp, t)
            /\ {flows[k].messages[n].packet : n \in LaneA(flows[k])}
                   = {i \in Of(k) : capture[i].source = k.endpoint_a}
            /\ \A n \in DOMAIN flows[k].messages : \A m \in 1 .. n - 1 :
                   flows[k].messages[m].packet < flows[k].messages[n].packet
    BY <2>1, InvShows, FlowIsWhole
  <2>5. DOMAIN flows \in SUBSET FlowKeys /\ IsFiniteSet(DOMAIN flows)
    BY <2>1, FinitelyMany
  <2>6. {FlowId(k) : k \in DOMAIN flows} = 0 .. Cardinality(DOMAIN flows) - 1
    BY <2>5, PositionsFill DEF FlowId
  <2>7. {TcpFlowId(k) : k \in TcpFlows} = 0 .. Cardinality(TcpFlows) - 1
    <3>1. TcpFlows \in SUBSET DOMAIN flows
      BY DEF TcpFlows
    <3>2. TcpFlows \in SUBSET FlowKeys /\ IsFiniteSet(TcpFlows)
      BY <2>5, <3>1, FS_Subset
    <3> QED BY <3>2, PositionsFill DEF TcpFlowId
  <2> QED BY <2>2, <2>3, <2>4, <2>6, <2>7 DEF ConversationsAreWhole
<1> QED BY <1>1, InvHolds, PTL
-----------------------------------------------------------------------------
\* The catalog.

TcpKinds == {"SynWithoutResponse", "RepeatedSynAttempts", "ConnectionReset",
             "ExcessiveRetransmission", "LongHandshake"}

\* What a finding about a connection says of it.
LEMMA TcpFound ==
    ASSUME NEW tcp, NEW x \in TcpFindings(tcp)
    PROVE  /\ x.kind \in TcpKinds
           /\ x.kind = "SynWithoutResponse" =>
                 tcp.first_syn # None /\ tcp.syn_ack = None /\ tcp.reset = None
           /\ x.kind = "RepeatedSynAttempts" =>
                 /\ tcp.repeated_syn # None
                 /\ x.first = tcp.first_syn /\ x.second = tcp.repeated_syn.second
           /\ x.kind = "ConnectionReset" => tcp.first_syn # None /\ tcp.reset # None
           /\ x.kind = "LongHandshake" =>
                 /\ x.first = tcp.first_syn /\ x.second = tcp.established_ack
                 /\ HandshakeDuration(tcp) # None
<1> DEFINE syn == [kind |-> "SynWithoutResponse", confidence |-> "Inferred",
                   first |-> tcp.first_syn, second |-> None,
                   holds |-> tcp.first_syn # None /\ tcp.syn_ack = None /\ tcp.reset = None]
           repeated == [kind |-> "RepeatedSynAttempts", confidence |-> "Certain",
                        first |-> tcp.first_syn,
                        second |-> IF tcp.repeated_syn = None THEN None
                                   ELSE tcp.repeated_syn.second,
                        holds |-> tcp.repeated_syn # None]
           reset == [kind |-> "ConnectionReset", confidence |-> "Certain",
                     first |-> tcp.first_syn, second |-> tcp.reset,
                     holds |-> tcp.first_syn # None /\ tcp.reset # None]
           excessive == [kind |-> "ExcessiveRetransmission", confidence |-> "Inferred",
                         first |-> IF tcp.retransmission = None THEN None
                                   ELSE tcp.retransmission.first,
                         second |-> IF tcp.retransmission = None THEN None
                                    ELSE tcp.retransmission.second,
                         holds |-> \E d \in DOMAIN tcp.side :
                                      tcp.side[d].retransmission_sequence_count
                                          >= EXCESSIVE_RETRANSMISSION_THRESHOLD]
           long == [kind |-> "LongHandshake", confidence |-> "Inferred",
                    first |-> tcp.first_syn, second |-> tcp.established_ack,
                    holds |-> /\ HandshakeDuration(tcp) # None
                              /\ IsDurationExcessive(HandshakeDuration(tcp))]
<1>1. TcpFindings(tcp) = {y \in {syn, repeated, reset, excessive, long} : y.holds}
  BY DEF TcpFindings
<1>2. /\ syn.kind = "SynWithoutResponse"
      /\ syn.holds = (tcp.first_syn # None /\ tcp.syn_ack = None /\ tcp.reset = None)
  OBVIOUS
<1>3. /\ repeated.kind = "RepeatedSynAttempts" /\ repeated.holds = (tcp.repeated_syn # None)
      /\ repeated.first = tcp.first_syn
      /\ tcp.repeated_syn # None => repeated.second = tcp.repeated_syn.second
  OBVIOUS
<1>4. /\ reset.kind = "ConnectionReset"
      /\ reset.holds = (tcp.first_syn # None /\ tcp.reset # None)
  OBVIOUS
<1>5. excessive.kind = "ExcessiveRetransmission"
  OBVIOUS
<1>6. /\ long.kind = "LongHandshake"
      /\ long.first = tcp.first_syn /\ long.second = tcp.established_ack
      /\ long.holds = (HandshakeDuration(tcp) # None /\ IsDurationExcessive(HandshakeDuration(tcp)))
  OBVIOUS
<1> HIDE DEF syn, repeated, reset, excessive, long
<1>7. /\ x = syn \/ x = repeated \/ x = reset \/ x = excessive \/ x = long
      /\ x.holds
  BY <1>1
<1>8. CASE x = syn
  BY <1>2, <1>7, <1>8 DEF TcpKinds
<1>9. CASE x = repeated
  BY <1>3, <1>7, <1>9 DEF TcpKinds
<1>10. CASE x = reset
  BY <1>4, <1>7, <1>10 DEF TcpKinds
<1>11. CASE x = excessive
  BY <1>5, <1>11 DEF TcpKinds
<1>12. CASE x = long
  BY <1>6, <1>7, <1>12 DEF TcpKinds
<1> QED BY <1>7, <1>8, <1>9, <1>10, <1>11, <1>12

\* What a finding about the transactions of a flow says of them.
LEMMA DnsFound ==
    ASSUME NEW flow, NEW x \in DnsFindings(flow)
    PROVE  /\ x.kind \in {"DnsErrorResponse", "DnsRequestWithoutResponse"}
           /\ x.kind = "DnsRequestWithoutResponse" =>
                 \E t \in TransactionIds : flow.dns_queries[t] # None
                                           /\ x.first = flow.dns_queries[t]
<1>1. CASE \E pair \in flow.dns_error_responses :
             x = [kind |-> "DnsErrorResponse", confidence |-> "Certain",
                  first |-> pair.first, second |-> pair.second, holds |-> TRUE]
  BY <1>1
<1>2. CASE \E t \in {t \in TransactionIds : flow.dns_queries[t] # None} :
             x = [kind |-> "DnsRequestWithoutResponse", confidence |-> "Inferred",
                  first |-> flow.dns_queries[t], second |-> None, holds |-> TRUE]
  BY <1>2
<1> QED BY <1>1, <1>2 DEF DnsFindings

\* Where an entry of the catalog comes from.
LEMMA AnomalyFound ==
    ASSUME NEW flow, NEW a \in Anomalies(flow)
    PROVE  /\ Limitations(flow) # {} => a.confidence = "Inferred"
           /\ a.kind \in TcpKinds =>
                 /\ flow.tcp # None
                 /\ \E x \in TcpFindings(flow.tcp) :
                       x.kind = a.kind /\ a.first = x.first /\ a.second = x.second
           /\ a.kind = "DnsRequestWithoutResponse" =>
                 \E t \in TransactionIds : flow.dns_queries[t] # None
                                           /\ a.first = flow.dns_queries[t]
<1> DEFINE L == Limitations(flow)
           T == IF flow.tcp = None THEN {} ELSE TcpFindings(flow.tcp)
<1>1. PICK x \in T \cup DnsFindings(flow) \cup OneSidedFinding(flow) : a = Anomaly(x, L)
  BY DEF Anomalies
<1>2. /\ a.kind = x.kind /\ a.first = x.first /\ a.second = x.second
      /\ a.confidence = IF L = {} THEN x.confidence ELSE "Inferred"
  BY <1>1 DEF Anomaly
<1>3. ASSUME NEW y \in OneSidedFinding(flow)
      PROVE  y.kind = "OneSidedCommunication"
  BY DEF OneSidedFinding
<1>4. a.kind \in TcpKinds => x \in T
  <2>1. x \in DnsFindings(flow) => x.kind \notin TcpKinds
    BY DnsFound DEF TcpKinds
  <2>2. x \in OneSidedFinding(flow) => x.kind \notin TcpKinds
    BY <1>3 DEF TcpKinds
  <2> QED BY <1>1, <1>2, <2>1, <2>2
<1>5. a.kind = "DnsRequestWithoutResponse" => x \in DnsFindings(flow)
  <2>1. x \in T => x.kind # "DnsRequestWithoutResponse"
    BY TcpFound DEF TcpKinds
  <2>2. x \in OneSidedFinding(flow) => x.kind # "DnsRequestWithoutResponse"
    BY <1>3
  <2> QED BY <1>1, <1>2, <2>1, <2>2
<1> HIDE DEF L
<1>6. L # {} => a.confidence = "Inferred"
  BY <1>2
<1>7. a.kind = "DnsRequestWithoutResponse" =>
         \E t \in TransactionIds : flow.dns_queries[t] # None /\ a.first = flow.dns_queries[t]
  BY <1>2, <1>5, DnsFound, ZenonT(40)
<1>8. x \in T => flow.tcp # None /\ x \in TcpFindings(flow.tcp)
  OBVIOUS
<1> QED BY <1>2, <1>4, <1>6, <1>7, <1>8 DEF L

\* What made a connection fail is in the catalog.
LEMMA FailureSaid ==
    ASSUME NEW flow, flow.tcp # None
    PROVE  /\ flow.tcp.first_syn # None /\ flow.tcp.reset # None =>
                 \E a \in Anomalies(flow) : a.kind = "ConnectionReset"
           /\ flow.tcp.repeated_syn # None =>
                 \E a \in Anomalies(flow) :
                    /\ a.kind = "RepeatedSynAttempts"
                    /\ a.first = flow.tcp.first_syn
                    /\ a.second = flow.tcp.repeated_syn.second
<1> DEFINE tcp == flow.tcp
           L == Limitations(flow)
<1>1. ASSUME NEW x \in TcpFindings(tcp)
      PROVE  \E a \in Anomalies(flow) :
                a.kind = x.kind /\ a.first = x.first /\ a.second = x.second
  <2>1. Anomaly(x, L) \in Anomalies(flow)
    BY DEF Anomalies
  <2>2. /\ Anomaly(x, L).kind = x.kind /\ Anomaly(x, L).first = x.first
        /\ Anomaly(x, L).second = x.second
    BY DEF Anomaly
  <2> QED BY <2>1, <2>2
<1>2. ASSUME tcp.first_syn # None, tcp.reset # None
      PROVE  \E a \in Anomalies(flow) : a.kind = "ConnectionReset"
  <2> DEFINE x == [kind |-> "ConnectionReset", confidence |-> "Certain",
                   first |-> tcp.first_syn, second |-> tcp.reset,
                   holds |-> tcp.first_syn # None /\ tcp.reset # None]
  <2>1. x \in TcpFindings(tcp)
    BY <1>2 DEF TcpFindings
  <2>2. x.kind = "ConnectionReset"
    OBVIOUS
  <2> HIDE DEF x
  <2> QED BY <1>1, <2>1, <2>2
<1>3. ASSUME tcp.repeated_syn # None
      PROVE  \E a \in Anomalies(flow) :
                /\ a.kind = "RepeatedSynAttempts" /\ a.first = tcp.first_syn
                /\ a.second = tcp.repeated_syn.second
  <2> DEFINE x == [kind |-> "RepeatedSynAttempts", confidence |-> "Certain",
                   first |-> tcp.first_syn,
                   second |-> IF tcp.repeated_syn = None THEN None
                              ELSE tcp.repeated_syn.second,
                   holds |-> tcp.repeated_syn # None]
  <2>1. x \in TcpFindings(tcp)
    BY <1>3 DEF TcpFindings
  <2>2. /\ x.kind = "RepeatedSynAttempts" /\ x.first = tcp.first_syn
        /\ x.second = tcp.repeated_syn.second
    BY <1>3
  <2> HIDE DEF x
  <2> QED BY <1>1, <2>1, <2>2
<1> QED BY <1>2, <1>3

\* A flow that was seen in part is said to be.
LEMMA LimitedIsSaid ==
    ASSUME NEW k \in DOMAIN flows, FlowFacts(k),
           \/ \E i \in Of(k) : capture[i].truncated
           \/ \A i, j \in Of(k) : capture[i].source = capture[j].source
    PROVE  Limitations(flows[k]) # {}
<1> DEFINE S == PacketsOf(capture, k)
           B == FromB(capture, S)
<1>1. Of(k) = S /\ Counts(capture, S, flows[k])
  BY DEF FlowFacts, FlowShows
<1>2. B = {i \in S : capture[i].source # k.endpoint_a}
  BY SidesOfFlow
<1> HIDE DEF S, B
<1>3. CASE \E i \in S : capture[i].truncated
  <2>1. flows[k].truncation_seen
    BY <1>1, <1>3 DEF Counts
  <2>2. "CaptureTruncated" \in Limitations(flows[k])
    BY <2>1 DEF Limitations
  <2> QED BY <2>2
<1>4. CASE \A i, j \in S : capture[i].source = capture[j].source
  <2>1. B = {} \/ S \ B = {}
    BY <1>2, <1>4
  <2>2. \/ flows[k].packets.packets_from_b = 0
        \/ flows[k].packets.packets_from_a = 0
    BY <1>1, <2>1, FS_EmptySet DEF Counts, B
  <2>3. OneSided(flows[k])
    BY <2>2 DEF OneSided
  <2>4. "OneSidedView" \in Limitations(flows[k])
    BY <2>3 DEF Limitations
  <2> QED BY <2>4
<1> QED BY <1>1, <1>3, <1>4

\* CatalogAgrees in every state: of what the catalog and the other views both
\* speak they say the same, by the same evidence, and the catalog finds nothing
\* certain in a limited view.
THEOREM CatalogKept == Spec => []CatalogAgrees
<1>1. Inv => CatalogAgrees
  <2>1. SUFFICES ASSUME Inv, NEW k \in DOMAIN flows
        PROVE
        LET found(kind) == {a \in Anomalies(flows[k]) : a.kind = kind}
            state == IF k.protocol = "Tcp" THEN Establishment(flows[k].tcp)
                                           ELSE NotObserved
            limited == \/ \E i \in Of(k) : capture[i].truncated
                       \/ \A i, j \in Of(k) : capture[i].source = capture[j].source
        IN  /\ limited => \A a \in Anomalies(flows[k]) : a.confidence = "Inferred"
            /\ found("LongHandshake") # {} =>
                   /\ state.state = "Established"
                   /\ found("LongHandshake") = {[a EXCEPT !.first = state.syn,
                         !.second = state.final_ack] : a \in found("LongHandshake")}
            /\ \A a \in found("RepeatedSynAttempts") :
                   LET syns == {i \in Of(k) : IsSyn(Flags(i))}
                   IN  /\ a.first = First(syns)
                       /\ Adjacent({i \in syns : Dir(i) = Dir(a.first)}, a.first, a.second)
            /\ state.state = "Failed" =>
                   \/ state.cause = "Reset" /\ found("ConnectionReset") # {}
                   \/ \E a \in found("RepeatedSynAttempts") :
                         <<a.first, a.second>> = <<state.syn, state.evidence>>
            /\ found("SynWithoutResponse") # {} =>
                   /\ state.state \in {"InProgress", "Failed"}
                   /\ ~\E i \in Of(k) : \/ "RST" \in Flags(i)
                                         \/ /\ i > state.syn /\ IsSynAck(Flags(i))
                                            /\ Dir(i) # Dir(state.syn)
            /\ found("ConnectionReset") # {} =>
                   /\ Termination(flows[k].tcp).state = "Reset"
                   /\ state.state # "NotObserved"
            /\ \A a \in found("DnsRequestWithoutResponse") :
                   ~\E i \in Of(k) : /\ i > a.first /\ capture[i].dns # None
                                     /\ capture[i].dns.id = capture[a.first].dns.id
                                     /\ capture[i].dns.is_response
    BY DEF CatalogAgrees
  <2> DEFINE flow == flows[k]
             tcp == flow.tcp
             g == capture
             S == PacketsOf(capture, k)
             found(kind) == {a \in Anomalies(flow) : a.kind = kind}
             state == IF k.protocol = "Tcp" THEN Establishment(tcp) ELSE NotObserved
  <2>2. /\ FlowFacts(k) /\ Of(k) = S /\ S \subseteq Nat
        /\ tcp = None <=> k.protocol # "Tcp"
        /\ Transactions(g, S, flow)
        /\ tcp # None => /\ Opening(g, S, tcp) /\ Completion(g, S, tcp)
                         /\ Teardown(g, S, tcp)
    BY <2>1, InvShows DEF FlowFacts, FlowShows, ConnectionShows, Known
  <2>3. ASSUME \/ \E i \in Of(k) : capture[i].truncated
               \/ \A i, j \in Of(k) : capture[i].source = capture[j].source,
               NEW a \in Anomalies(flow)
        PROVE  a.confidence = "Inferred"
    BY <2>2, <2>3, LimitedIsSaid, AnomalyFound
  <2>4. ASSUME NEW a \in found("LongHandshake")
        PROVE  /\ tcp # None /\ a.first = tcp.first_syn /\ a.second = tcp.established_ack
               /\ tcp.established_ack # None
    <3>1. a \in Anomalies(flow) /\ a.kind = "LongHandshake" /\ a.kind \in TcpKinds
      BY <2>4 DEF TcpKinds
    <3>2. PICK x \in TcpFindings(tcp) : x.kind = a.kind /\ a.first = x.first /\ a.second = x.second
      BY <3>1, AnomalyFound
    <3>3. tcp # None
      BY <3>1, AnomalyFound
    <3>4. x.first = tcp.first_syn /\ x.second = tcp.established_ack /\ HandshakeDuration(tcp) # None
      BY <3>1, <3>2, TcpFound
    <3>5. tcp.established_ack_timestamp # None
      BY <3>4 DEF HandshakeDuration, DurationBetween
    <3>6. tcp.established_ack # None
      BY <2>2, <3>3, <3>5 DEF Completion
    <3> QED BY <3>2, <3>3, <3>4, <3>6
  <2>5. ASSUME found("LongHandshake") # {}
        PROVE  /\ state.state = "Established"
               /\ found("LongHandshake") = {[a EXCEPT !.first = state.syn,
                     !.second = state.final_ack] : a \in found("LongHandshake")}
    <3>1. state = [state |-> "Established", syn |-> tcp.first_syn,
                   syn_ack |-> tcp.syn_ack, final_ack |-> tcp.established_ack]
      BY <2>2, <2>4, <2>5 DEF Establishment
    <3>2. ASSUME NEW a \in found("LongHandshake")
          PROVE  [a EXCEPT !.first = state.syn, !.second = state.final_ack] = a
      <4>1. state.syn = a.first /\ state.final_ack = a.second
        BY <2>4, <3>1
      <4>2. \E x, l : a = Anomaly(x, l)
        BY DEF Anomalies
      <4> HIDE DEF state
      <4> QED BY <4>1, <4>2 DEF Anomaly
    <3> HIDE DEF state, found
    <3> DEFINE F == found("LongHandshake")
               Same(a) == [a EXCEPT !.first = state.syn, !.second = state.final_ack]
               G == {Same(a) : a \in F}
    <3>3. F = G
      <4>1. \A a \in F : Same(a) = a
        BY <3>2
      <4> HIDE DEF Same, F
      <4>2. \A a \in F : a \in G
        <5> TAKE a \in F
        <5>1. Same(a) \in G
          OBVIOUS
        <5> QED BY <4>1, <5>1
      <4>3. \A z \in G : z \in F
        BY <4>1
      <4> HIDE DEF G
      <4> QED BY <4>2, <4>3
    <3>4. state.state = "Established"
      BY <3>1
    <3> QED BY <3>3, <3>4
  <2>6. ASSUME found("SynWithoutResponse") # {}
        PROVE  /\ state.state \in {"InProgress", "Failed"}
               /\ ~\E i \in Of(k) : \/ "RST" \in Flags(i)
                                     \/ /\ i > state.syn /\ IsSynAck(Flags(i))
                                        /\ Dir(i) # Dir(state.syn)
    <3>1. PICK a \in Anomalies(flow) : a.kind = "SynWithoutResponse"
      BY <2>6
    <3>2. a.kind \in TcpKinds
      BY <3>1 DEF TcpKinds
    <3>3. PICK x \in TcpFindings(tcp) : x.kind = a.kind
      BY <3>2, AnomalyFound
    <3>4. tcp # None
      BY <3>2, AnomalyFound
    <3>5. tcp.first_syn # None /\ tcp.syn_ack = None /\ tcp.reset = None
      BY <3>1, <3>3, TcpFound
    <3>6. /\ Answers(g, S, tcp.first_syn) = {} /\ Resets(g, S) = {}
          /\ tcp.established_ack = None
      BY <2>2, <3>4, <3>5 DEF Completion, Teardown, Earliest, Newest, Acks
    <3>7. /\ state.state \in {"InProgress", "Failed"} /\ state.syn = tcp.first_syn
      <4>1. state = Establishment(tcp)
        BY <2>2, <3>4
      <4>2. CASE tcp.repeated_syn = None
        <5>1. Establishment(tcp) = [state |-> "InProgress", syn |-> tcp.first_syn]
          BY <3>5, <3>6, <4>2 DEF Establishment
        <5> HIDE DEF state
        <5> QED BY <4>1, <5>1
      <4>3. CASE tcp.repeated_syn # None
        <5>1. Establishment(tcp) = [state |-> "Failed", syn |-> tcp.first_syn,
                cause |-> "RepeatedSyn", evidence |-> tcp.repeated_syn.second]
          BY <3>5, <3>6, <4>3 DEF Establishment
        <5> HIDE DEF state
        <5> QED BY <4>1, <5>1
      <4> QED BY <4>2, <4>3
    <3>8. /\ tcp.first_syn \in S
      BY <2>2, <3>4, <3>5 DEF Opening, Earliest, Syns
    <3> HIDE DEF state, tcp, S
    <3>9. \A i \in S : /\ "RST" \notin Flags(i)
                       /\ ~(/\ i > tcp.first_syn /\ IsSynAck(Flags(i))
                            /\ Dir(i) # Dir(tcp.first_syn))
      <4>1. \A i \in S : i \in Nat /\ tcp.first_syn \in Nat
        BY <2>2, <3>8
      <4> QED BY <3>5, <3>6, <4>1 DEF Answers, Resets, Dir, Flags
    <3> QED BY <2>2, <3>7, <3>9
  <2>7. ASSUME found("ConnectionReset") # {}
        PROVE  /\ Termination(tcp).state = "Reset"
               /\ state.state # "NotObserved"
    <3>1. PICK a \in Anomalies(flow) : a.kind = "ConnectionReset"
      BY <2>7
    <3>2. a.kind \in TcpKinds
      BY <3>1 DEF TcpKinds
    <3>3. PICK x \in TcpFindings(tcp) : x.kind = a.kind
      BY <3>2, AnomalyFound
    <3>4. tcp # None
      BY <3>2, AnomalyFound
    <3>5. tcp.first_syn # None /\ tcp.reset # None
      BY <3>1, <3>3, TcpFound
    <3>6. Termination(tcp).state = "Reset"
      BY <3>5 DEF Termination
    <3>7. Establishment(tcp).state \in {"Established", "Failed"}
      <4>1. CASE tcp.established_ack # None
        BY <4>1 DEF Establishment
      <4>2. CASE tcp.established_ack = None
        BY <3>5, <4>2 DEF Establishment
      <4> QED BY <4>1, <4>2
    <3>8. state = Establishment(tcp)
      BY <2>2, <3>4
    <3> HIDE DEF state
    <3> QED BY <3>6, <3>7, <3>8
  <2>8. ASSUME NEW a \in found("DnsRequestWithoutResponse"), NEW i \in Of(k),
               i > a.first, capture[i].dns # None,
               capture[i].dns.id = capture[a.first].dns.id, capture[i].dns.is_response
        PROVE  FALSE
    <3>1. PICK t \in TransactionIds : flow.dns_queries[t] # None /\ a.first = flow.dns_queries[t]
      BY <2>8, AnomalyFound
    <3>2. /\ a.first \in TransactionOf(g, S, t)
          /\ \A j \in TransactionOf(g, S, t) : j <= a.first
      BY <2>2, <3>1 DEF Transactions, Unanswered
    <3>3. a.first \in S /\ capture[a.first].dns.id = t
      BY <3>2 DEF TransactionOf
    <3>4. i \in S /\ i \in TransactionOf(g, S, t)
      BY <2>2, <2>8, <3>3 DEF TransactionOf
    <3>5. i \in Nat /\ a.first \in Nat
      BY <2>2, <3>3, <3>4
    <3> QED BY <2>8, <3>2, <3>4, <3>5
  <2>9. ASSUME NEW a \in found("RepeatedSynAttempts")
        PROVE  LET syns == {i \in Of(k) : IsSyn(Flags(i))}
               IN  /\ a.first = First(syns)
                   /\ Adjacent({i \in syns : Dir(i) = Dir(a.first)}, a.first, a.second)
    <3>1. a \in Anomalies(flow) /\ a.kind = "RepeatedSynAttempts" /\ a.kind \in TcpKinds
      BY <2>9 DEF TcpKinds
    <3>2. PICK x \in TcpFindings(tcp) : x.kind = a.kind /\ a.first = x.first /\ a.second = x.second
      BY <3>1, AnomalyFound
    <3>3. /\ tcp # None /\ tcp.repeated_syn # None
          /\ a.first = tcp.first_syn /\ a.second = tcp.repeated_syn.second
      BY <3>1, <3>2, AnomalyFound, TcpFound
    <3> DEFINE syns == {i \in Of(k) : IsSyn(Flags(i))}
               repeats == Repeats(g, S, tcp.first_syn)
    <3>4. /\ tcp.first_syn # None
          /\ a.second \in repeats /\ \A j \in repeats : a.second <= j
      BY <2>2, <3>3, RepeatNamed
    <3>5. syns = Syns(g, S)
      BY <2>2 DEF Syns, Flags
    <3>6. a.first = First(syns)
      BY <2>2, <3>3, <3>4, <3>5, OpeningNamed
    <3>7. a.first \in syns
      BY <2>2, <3>3, <3>4, <3>5 DEF Opening, Earliest
    <3>8. \A i : i \in repeats <=> i \in syns /\ a.first < i /\ Dir(i) = Dir(a.first)
      BY <3>3, <3>4, <3>5 DEF Repeats, Dir
    <3>9. syns \subseteq Nat
      BY <2>2
    <3> HIDE DEF syns, repeats
    <3>10. Adjacent({i \in syns : Dir(i) = Dir(a.first)}, a.first, a.second)
      <4>1. a.second \in syns /\ a.first < a.second /\ Dir(a.second) = Dir(a.first)
        BY <3>4, <3>8
      <4>2. \A m \in syns : Dir(m) = Dir(a.first) => ~(a.first < m /\ m < a.second)
        <5> SUFFICES ASSUME NEW m \in syns, Dir(m) = Dir(a.first), a.first < m
                     PROVE  ~(m < a.second)
          OBVIOUS
        <5>1. a.second <= m
          BY <3>4, <3>8
        <5>2. m \in Nat /\ a.second \in Nat
          BY <3>9, <4>1
        <5> QED BY <5>1, <5>2
      <4> QED BY <3>7, <4>1, <4>2 DEF Adjacent
    <3> QED BY <3>6, <3>10 DEF syns
  <2>10. ASSUME state.state = "Failed"
         PROVE  \/ state.cause = "Reset" /\ found("ConnectionReset") # {}
                \/ \E a \in found("RepeatedSynAttempts") :
                      <<a.first, a.second>> = <<state.syn, state.evidence>>
    <3>1. state = Establishment(tcp) /\ tcp # None
      BY <2>2, <2>10 DEF NotObserved
    <3> HIDE DEF state
    <3>2. Establishment(tcp).state = "Failed"
      BY <2>10, <3>1
    <3>3. CASE tcp.first_syn # None /\ tcp.reset # None /\ tcp.established_ack = None
      <4>1. Establishment(tcp) = [state |-> "Failed", syn |-> tcp.first_syn,
                                  cause |-> "Reset", evidence |-> tcp.reset]
        BY <3>3 DEF Establishment
      <4>2. found("ConnectionReset") # {}
        BY <3>1, <3>3, FailureSaid
      <4> QED BY <3>1, <4>1, <4>2
    <3>4. CASE tcp.reset = None /\ tcp.repeated_syn # None /\ tcp.established_ack = None
      <4>1. Establishment(tcp) = [state |-> "Failed", syn |-> tcp.first_syn,
                cause |-> "RepeatedSyn", evidence |-> tcp.repeated_syn.second]
        BY <3>4 DEF Establishment
      <4>2. \E a \in found("RepeatedSynAttempts") :
               a.first = tcp.first_syn /\ a.second = tcp.repeated_syn.second
        BY <3>1, <3>4, FailureSaid
      <4> QED BY <3>1, <4>1, <4>2
    <3>5. \/ tcp.first_syn # None /\ tcp.reset # None /\ tcp.established_ack = None
          \/ tcp.reset = None /\ tcp.repeated_syn # None /\ tcp.established_ack = None
      <4>1. CASE tcp.established_ack # None
        BY <3>2, <4>1 DEF Establishment
      <4>2. CASE tcp.established_ack = None
        BY <2>2, <3>1, <3>2, <4>2 DEF Establishment, NotObserved, Opening, Repeats
      <4> QED BY <4>1, <4>2
    <3> QED BY <3>3, <3>4, <3>5
  <2> HIDE DEF state, found, tcp
  <2>11. /\ \A a \in found("DnsRequestWithoutResponse") :
               ~\E i \in Of(k) : /\ i > a.first /\ capture[i].dns # None
                                 /\ capture[i].dns.id = capture[a.first].dns.id
                                 /\ capture[i].dns.is_response
    BY <2>8
  <2>12. \A a \in found("RepeatedSynAttempts") :
            LET syns == {i \in Of(k) : IsSyn(Flags(i))}
            IN  /\ a.first = First(syns)
                /\ Adjacent({i \in syns : Dir(i) = Dir(a.first)}, a.first, a.second)
    BY <2>9
  <2> QED BY <2>3, <2>5, <2>6, <2>7, <2>10, <2>11, <2>12 DEF state, found, tcp
<1> QED BY <1>1, InvHolds, PTL
=============================================================================
