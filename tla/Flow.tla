-------------------------------- MODULE Flow --------------------------------
(***************************************************************************)
(* What one flow is folded through (packet-core/src/flow.rs).  A packet is *)
(* a record with its id (the evidence it gives), its timestamp ts (None,   *)
(* or whole seconds s and fractional ticks f), truncated, and what its     *)
(* layers say: tcp (None, or a sequence number, an acknowledgment number   *)
(* and a set of flags) and dns (None, or a transaction).  The code folds a *)
(* capture five times, once per view; the views share their accumulators,  *)
(* so one record holds them all.                                           *)
(***************************************************************************)
EXTENDS Integers, Sequences, FiniteSets

CONSTANTS None,             \* an absent value
          TicksPerSecond,   \* the resolution of the interface of the flow
          TransactionIds    \* DNS transactions of the capture

ASSUME TicksPerSecondAssumption == TicksPerSecond \in Nat \ {0}

EXCESSIVE_RETRANSMISSION_THRESHOLD == 2
LONG_HANDSHAKE_DURATION_SECONDS == 2

Optional(S) == S \cup {None}

\* A slot that keeps the first value it is given.
Once(old, happens, value) == IF old = None /\ happens THEN value ELSE old
-----------------------------------------------------------------------------
(* What the decoders say of a packet.  An endpoint is its place in the     *)
(* order of the endpoints.                                                 *)

FlowDirection == {"AToB", "BToA", "Unknown"}

CaptureTimestamp == [s : Int, f : 0 .. TicksPerSecond - 1]

TcpPacketData ==
    [sequence : Optional(Nat), acknowledgment : Optional(Nat),
     flags : SUBSET {"SYN", "ACK", "FIN", "RST"}]

DnsPacketData ==
    [id : TransactionIds, is_response : BOOLEAN, asks : BOOLEAN, failed : BOOLEAN]

PacketRecord ==
    [id : Nat, interface : Nat, protocol : Optional({"Tcp", "Udp"}),
     source : Int, destination : Int, ts : Optional(CaptureTimestamp),
     truncated : BOOLEAN, tcp : Optional(TcpPacketData), dns : Optional(DnsPacketData)]
-----------------------------------------------------------------------------
(* Instants and durations.  A flow has one interface, hence one resolution *)

Before(t, u) == \/ t.s < u.s
                \/ t.s = u.s /\ t.f < u.f

CheckedSub(a, b) == IF b <= a THEN a - b ELSE None

\* Mutant: a difference that does not look which instant is first.
SignedDuration(start, end) ==
    (end.s - start.s) * TicksPerSecond + end.f - start.f

\* The fraction is subtracted, with its check, before the borrow is looked
\* at: a smaller fraction ends the computation, and nothing is ever borrowed.
Duration(start, end) ==
    LET fraction == CheckedSub(end.f, start.f)
    IN  IF Before(end, start) \/ fraction = None
        THEN None
        ELSE (end.s - start.s) * TicksPerSecond + fraction

DurationBetween(start, end) ==
    IF start = None \/ end = None THEN None ELSE Duration(start, end)

IsNonzero(duration) == IF duration = 0 THEN None ELSE duration

IsDurationExcessive(duration) ==
    duration > LONG_HANDSHAKE_DURATION_SECONDS * TicksPerSecond
-----------------------------------------------------------------------------
(* The accumulators: what they hold, and what a new one holds              *)

PacketPairEvidence == [first : Nat, second : Optional(Nat)]

TcpDirectionalIndicator ==
    [direction : FlowDirection, first : Optional(Nat), second : Nat]

TcpDirectionAccumulators ==
    [last_sequence : Optional(Nat), last_sequence_packet : Optional(Nat),
     retransmission_sequence_count : Nat,
     last_ack : Optional(Nat), last_ack_packet : Optional(Nat)]

TcpFlowAccumulators ==
    [first_syn : Optional(Nat), first_syn_direction : Optional(FlowDirection),
     syn_ack : Optional(Nat), established_ack : Optional(Nat),
     repeated_syn : Optional(PacketPairEvidence), reset : Optional(Nat),
     fin_first : Optional(Nat), fin_last : Optional(Nat),
     retransmission : Optional(TcpDirectionalIndicator),
     duplicate_ack : Optional(TcpDirectionalIndicator),
     out_of_order : Optional(TcpDirectionalIndicator),
     first_syn_timestamp : Optional(CaptureTimestamp),
     established_ack_timestamp : Optional(CaptureTimestamp),
     first_data_timestamp : Optional(CaptureTimestamp),
     side : [{"AToB", "BToA"} -> TcpDirectionAccumulators]]

FlowAccumulators ==
    [packets_from_a : Nat, packets_from_b : Nat, first_packet : Optional(Nat),
     first_timestamp : Optional(CaptureTimestamp),
     last_timestamp : Optional(CaptureTimestamp)]

Messages ==
    [packet : Nat, timestamp : Optional(CaptureTimestamp), direction : FlowDirection]

Flows ==
    [packets : FlowAccumulators, tcp : Optional(TcpFlowAccumulators),
     truncation_seen : BOOLEAN,
     dns_queries : [TransactionIds -> Optional(Nat)],
     dns_error_responses : SUBSET PacketPairEvidence,
     first_dns_query : [TransactionIds -> Optional(CaptureTimestamp)],
     dns_response_latency : Optional(Nat), messages : Seq(Messages)]

\* The absent value is none of the values it stands beside.
ASSUME NoneAssumption ==
    /\ None \notin Nat
    /\ None \notin FlowDirection
    /\ None \notin {"Tcp", "Udp"}
    /\ None \notin CaptureTimestamp
    /\ None \notin TcpPacketData
    /\ None \notin DnsPacketData
    /\ None \notin PacketPairEvidence
    /\ None \notin TcpDirectionalIndicator
    /\ None \notin TcpFlowAccumulators

FlowAccumulator ==
    [packets_from_a |-> 0, packets_from_b |-> 0,
     first_packet |-> None, first_timestamp |-> None, last_timestamp |-> None]

TcpDirectionAccumulator ==
    [last_sequence |-> None, last_sequence_packet |-> None,
     retransmission_sequence_count |-> 0,
     last_ack |-> None, last_ack_packet |-> None]

TcpFlowAccumulator ==
    [first_syn |-> None, first_syn_direction |-> None, syn_ack |-> None,
     established_ack |-> None, repeated_syn |-> None, reset |-> None,
     fin_first |-> None, fin_last |-> None, retransmission |-> None,
     duplicate_ack |-> None, out_of_order |-> None,
     first_syn_timestamp |-> None, established_ack_timestamp |-> None,
     first_data_timestamp |-> None,
     side |-> [d \in {"AToB", "BToA"} |-> TcpDirectionAccumulator]]

NewFlow ==
    [packets |-> FlowAccumulator, tcp |-> None, truncation_seen |-> FALSE,
     dns_queries |-> [t \in TransactionIds |-> None],
     dns_error_responses |-> {},
     first_dns_query |-> [t \in TransactionIds |-> None],
     dns_response_latency |-> None, messages |-> <<>>]

\* apply_packet_to_flow
ApplyPacketToFlow(flow, p, direction) ==
    LET timed == p.ts # None
        earlier == timed /\ flow.first_timestamp # None
                         /\ Before(p.ts, flow.first_timestamp)
        later == timed /\ flow.last_timestamp # None
                       /\ Before(flow.last_timestamp, p.ts)
    IN  [packets_from_a |->
             flow.packets_from_a + IF direction = "BToA" THEN 0 ELSE 1,
         packets_from_b |->
             flow.packets_from_b + IF direction = "BToA" THEN 1 ELSE 0,
         first_packet |-> Once(flow.first_packet, TRUE, p.id),
         first_timestamp |-> IF earlier THEN p.ts
                             ELSE Once(flow.first_timestamp, timed, p.ts),
         last_timestamp |-> IF later THEN p.ts
                            ELSE Once(flow.last_timestamp, timed, p.ts)]

Indicator(direction, first, second) ==
    [direction |-> direction, first |-> first, second |-> second]

\* Mutant: numbers are compared with the highest of their direction.
NoteHighestSequence(tcp, p, direction) ==
    LET side == tcp.side[direction]
        sequence == p.tcp.sequence
        again == side.last_sequence = sequence
        lower == side.last_sequence # None /\ sequence < side.last_sequence
        pair == Indicator(direction, side.last_sequence_packet, p.id)
    IN  IF direction = "Unknown" \/ sequence = None THEN tcp
        ELSE [tcp EXCEPT
                !.retransmission = Once(@, again, pair),
                !.out_of_order = Once(@, lower, pair),
                !.side[direction].retransmission_sequence_count =
                    IF again THEN @ + 1 ELSE @,
                !.side[direction].last_sequence = IF lower THEN @ ELSE sequence,
                !.side[direction].last_sequence_packet = IF lower THEN @ ELSE p.id]

\* apply_tcp_packet_to_flow: the sequence number, compared with the one before
\* it in its own direction
NoteSequence(tcp, p, direction) ==
    LET side == tcp.side[direction]
        sequence == p.tcp.sequence
        again == side.last_sequence = sequence
        lower == /\ side.last_sequence # None
                 /\ sequence < side.last_sequence
        count == side.retransmission_sequence_count + IF again THEN 1 ELSE 0
        pair == Indicator(direction, side.last_sequence_packet, p.id)
    IN  IF direction = "Unknown" \/ sequence = None THEN tcp
        ELSE [tcp EXCEPT
                !.retransmission = Once(@, again, pair),
                !.out_of_order = Once(@, lower, pair),
                !.side[direction] =
                    [side EXCEPT !.retransmission_sequence_count = count,
                                 !.last_sequence = sequence,
                                 !.last_sequence_packet = p.id]]

\* apply_tcp_packet_to_flow: the acknowledgment number
NoteAcknowledgment(tcp, p, direction) ==
    LET side == tcp.side[direction]
        again == /\ side.last_ack = p.tcp.acknowledgment
                 /\ "ACK" \in p.tcp.flags
        pair == Indicator(direction, side.last_ack_packet, p.id)
    IN  IF direction = "Unknown" \/ p.tcp.acknowledgment = None THEN tcp
        ELSE [tcp EXCEPT
                !.duplicate_ack = Once(@, again, pair),
                !.side[direction] = [side EXCEPT !.last_ack = p.tcp.acknowledgment,
                                                 !.last_ack_packet = p.id]]

IsSyn(flags) == "SYN" \in flags /\ "ACK" \notin flags
IsSynAck(flags) == {"SYN", "ACK"} \subseteq flags

\* Mutant: every SYN is taken for the first.
NoteLatestSyn(tcp, p, direction) ==
    IF IsSyn(p.tcp.flags)
    THEN [tcp EXCEPT !.first_syn = p.id, !.first_syn_direction = direction,
                     !.first_syn_timestamp = p.ts]
    ELSE tcp

\* apply_tcp_packet_to_flow: the first SYN, and the first repeated one
NoteSyn(tcp, p, direction) ==
    LET syn == IsSyn(p.tcp.flags)
        repeated == /\ syn /\ tcp.first_syn # None
                    /\ tcp.first_syn_direction = direction
    IN  [tcp EXCEPT
           !.first_syn = Once(@, syn, p.id),
           !.first_syn_direction = Once(@, syn, direction),
           !.first_syn_timestamp =
               Once(@, syn /\ tcp.first_syn = None, p.ts),
           !.repeated_syn =
               Once(@, repeated, [first |-> tcp.first_syn, second |-> p.id])]

\* Mutant: a SYN-ACK from either side is taken for the answer.
NoteHandshakeEitherWay(tcp, p, direction) ==
    LET answers == IsSynAck(p.tcp.flags) /\ tcp.first_syn # None
        completes == /\ "ACK" \in p.tcp.flags /\ tcp.syn_ack # None
                     /\ direction = tcp.first_syn_direction
    IN  [tcp EXCEPT
           !.syn_ack = Once(@, answers, p.id),
           !.established_ack = Once(@, completes, p.id),
           !.established_ack_timestamp =
               Once(@, completes /\ tcp.established_ack = None, p.ts)]

\* apply_tcp_packet_to_flow: the rest of the handshake
NoteHandshake(tcp, p, direction) ==
    LET answers == /\ IsSynAck(p.tcp.flags) /\ tcp.first_syn # None
                   /\ direction # tcp.first_syn_direction
        completes == /\ "ACK" \in p.tcp.flags /\ tcp.syn_ack # None
                     /\ direction = tcp.first_syn_direction
    IN  [tcp EXCEPT
           !.syn_ack = Once(@, answers, p.id),
           !.established_ack = Once(@, completes, p.id),
           !.established_ack_timestamp =
               Once(@, completes /\ tcp.established_ack = None, p.ts)]

\* apply_tcp_packet_to_flow: first data, reset and FINs
NoteDataAndTeardown(tcp, p, direction) ==
    LET data == p.tcp.sequence # None /\ p.tcp.flags = {}
        fin == "FIN" \in p.tcp.flags
    IN  [tcp EXCEPT
           !.first_data_timestamp = Once(@, data, p.ts),
           !.reset = IF "RST" \in p.tcp.flags THEN p.id ELSE @,
           !.fin_first = Once(@, fin, p.id),
           !.fin_last = Once(@, fin /\ tcp.fin_first # None, p.id)]

ApplyTcpPacketToFlow(tcp, p, direction) ==
    LET sequenced == NoteSequence(tcp, p, direction)
        acknowledged == NoteAcknowledgment(sequenced, p, direction)
        opened == NoteSyn(acknowledged, p, direction)
    IN  NoteDataAndTeardown(NoteHandshake(opened, p, direction), p, direction)
-----------------------------------------------------------------------------
(* DNS transactions, kept twice: by the catalog and, for timed packets, by *)
(* the metrics                                                             *)

\* apply_packet_to_anomaly_accumulator
NoteTransaction(flow, p) ==
    LET t == p.dns.id
        query == flow.dns_queries[t]
        error == IF query # None THEN [first |-> query, second |-> p.id]
                                 ELSE [first |-> p.id, second |-> None]
    IN  IF p.dns.is_response
        THEN [flow EXCEPT
                !.dns_queries[t] = None,
                !.dns_error_responses =
                    IF p.dns.failed THEN @ \cup {error} ELSE @]
        ELSE [flow EXCEPT !.dns_queries[t] = IF p.dns.asks THEN p.id ELSE @]

Shorter(latency, best) ==
    IF latency = None \/ (best # None /\ best <= latency) THEN best ELSE latency

\* Mutant: a repeated query restarts the clock.
TimeLastQuery(flow, p) ==
    LET t == p.dns.id
        latency == DurationBetween(flow.first_dns_query[t], p.ts)
    IN  IF p.ts = None THEN flow
        ELSE IF p.dns.is_response
        THEN [flow EXCEPT
                !.first_dns_query[t] = None,
                !.dns_response_latency = Shorter(latency, @)]
        ELSE [flow EXCEPT !.first_dns_query[t] = IF p.dns.asks THEN p.ts ELSE @]

\* apply_packet_to_metrics
TimeTransaction(flow, p) ==
    LET t == p.dns.id
        latency == DurationBetween(flow.first_dns_query[t], p.ts)
    IN  IF p.ts = None THEN flow
        ELSE IF p.dns.is_response
        THEN [flow EXCEPT
                !.first_dns_query[t] = None,
                !.dns_response_latency = Shorter(latency, @)]
        ELSE [flow EXCEPT !.first_dns_query[t] = Once(@, p.dns.asks, p.ts)]

\* One packet of the flow, in every view.
ApplyPacket(flow, p, direction) ==
    LET tcp == IF flow.tcp = None THEN TcpFlowAccumulator ELSE flow.tcp
        counted ==
            [flow EXCEPT
               !.packets = ApplyPacketToFlow(@, p, direction),
               !.truncation_seen = @ \/ p.truncated,
               !.tcp = IF p.tcp = None THEN @
                       ELSE ApplyTcpPacketToFlow(tcp, p, direction),
               !.messages = Append(@, [packet |-> p.id, timestamp |-> p.ts,
                                       direction |-> direction])]
    IN  IF p.dns = None THEN counted
        ELSE TimeTransaction(NoteTransaction(counted, p), p)
-----------------------------------------------------------------------------
(* The conclusions                                                         *)

NotObserved == [state |-> "NotObserved"]

\* classify_tcp_connection_establishment
Establishment(tcp) ==
    CASE tcp.established_ack # None ->
           [state |-> "Established", syn |-> tcp.first_syn,
            syn_ack |-> tcp.syn_ack, final_ack |-> tcp.established_ack]
      [] tcp.established_ack = None /\ tcp.first_syn # None
         /\ tcp.reset # None ->
           [state |-> "Failed", syn |-> tcp.first_syn,
            cause |-> "Reset", evidence |-> tcp.reset]
      [] tcp.established_ack = None /\ tcp.reset = None
         /\ tcp.repeated_syn # None ->
           [state |-> "Failed", syn |-> tcp.first_syn,
            cause |-> "RepeatedSyn", evidence |-> tcp.repeated_syn.second]
      [] tcp.established_ack = None /\ tcp.reset = None
         /\ tcp.repeated_syn = None /\ tcp.first_syn # None ->
           [state |-> "InProgress", syn |-> tcp.first_syn]
      [] OTHER -> NotObserved

\* classify_tcp_connection_termination
Termination(tcp) ==
    CASE tcp.reset # None -> [state |-> "Reset", packet |-> tcp.reset]
      [] tcp.reset = None /\ tcp.fin_first # None ->
           [state |-> "Fin", first_fin |-> tcp.fin_first,
            second_fin |-> tcp.fin_last]
      [] OTHER -> NotObserved

OneSided(flow) == 0 \in {flow.packets.packets_from_a, flow.packets.packets_from_b}

\* classify_tcp_is_partial_capture
IsPartialCapture(flow) ==
    \/ OneSided(flow)
    \/ Establishment(flow.tcp).state # "Established"
    \/ Termination(flow.tcp) = NotObserved

HandshakeDuration(tcp) ==
    DurationBetween(tcp.first_syn_timestamp, tcp.established_ack_timestamp)

\* reconstruct_flow_metrics
Metrics(flow) ==
    [duration |-> DurationBetween(flow.packets.first_timestamp,
                                  flow.packets.last_timestamp),
     handshake_latency |->
         IF flow.tcp = None THEN None ELSE IsNonzero(HandshakeDuration(flow.tcp)),
     time_to_first_data |->
         IF flow.tcp = None THEN None
         ELSE IsNonzero(DurationBetween(flow.tcp.established_ack_timestamp,
                                        flow.tcp.first_data_timestamp)),
     dns_response_latency |-> flow.dns_response_latency,
     partial_capture |-> flow.tcp = None \/ OneSided(flow) \/ IsPartialCapture(flow)]

\* reconstruct_packet_sequence_timelines
RelativeOffset(flow, message) ==
    DurationBetween(flow.packets.first_timestamp, message.timestamp)

LaneA(flow) == {i \in DOMAIN flow.messages : flow.messages[i].direction # "BToA"}
LaneB(flow) == {i \in DOMAIN flow.messages : flow.messages[i].direction = "BToA"}
-----------------------------------------------------------------------------
(* The catalog of anomalies                                                *)

\* Mutant: a truncated packet limits nothing.
LimitationsOfView(flow) == IF OneSided(flow) THEN {"OneSidedView"} ELSE {}

Limitations(flow) ==
    {l \in {"OneSidedView", "CaptureTruncated"} :
        \/ l = "OneSidedView" /\ OneSided(flow)
        \/ l = "CaptureTruncated" /\ flow.truncation_seen}

\* What the flow shows, with the confidence the evidence alone would give.
TcpFindings(tcp) ==
    {found \in
        {[kind |-> "SynWithoutResponse", confidence |-> "Inferred",
          first |-> tcp.first_syn, second |-> None,
          holds |-> tcp.first_syn # None /\ tcp.syn_ack = None /\ tcp.reset = None],
         [kind |-> "RepeatedSynAttempts", confidence |-> "Certain",
          first |-> tcp.first_syn,
          second |-> IF tcp.repeated_syn = None THEN None
                     ELSE tcp.repeated_syn.second,
          holds |-> tcp.repeated_syn # None],
         [kind |-> "ConnectionReset", confidence |-> "Certain",
          first |-> tcp.first_syn, second |-> tcp.reset,
          holds |-> tcp.first_syn # None /\ tcp.reset # None],
         [kind |-> "ExcessiveRetransmission", confidence |-> "Inferred",
          first |-> IF tcp.retransmission = None THEN None
                    ELSE tcp.retransmission.first,
          second |-> IF tcp.retransmission = None THEN None
                     ELSE tcp.retransmission.second,
          holds |-> \E d \in DOMAIN tcp.side :
                        tcp.side[d].retransmission_sequence_count
                            >= EXCESSIVE_RETRANSMISSION_THRESHOLD],
         [kind |-> "LongHandshake", confidence |-> "Inferred",
          first |-> tcp.first_syn, second |-> tcp.established_ack,
          holds |-> /\ HandshakeDuration(tcp) # None
                    /\ IsDurationExcessive(HandshakeDuration(tcp))]} :
     found.holds}

DnsFindings(flow) ==
    {[kind |-> "DnsErrorResponse", confidence |-> "Certain",
      first |-> pair.first, second |-> pair.second, holds |-> TRUE] :
        pair \in flow.dns_error_responses}
    \cup
    {[kind |-> "DnsRequestWithoutResponse", confidence |-> "Inferred",
      first |-> flow.dns_queries[t], second |-> None, holds |-> TRUE] :
        t \in {t \in TransactionIds : flow.dns_queries[t] # None}}

OneSidedFinding(flow) ==
    {found \in {[kind |-> "OneSidedCommunication", confidence |-> "Inferred",
                 first |-> flow.packets.first_packet, second |-> None,
                 holds |-> OneSided(flow)]} : found.holds}

\* add_flow_anomaly: a limited view makes no finding certain.
Anomaly(found, limitations) ==
    [kind |-> found.kind, first |-> found.first, second |-> found.second,
     limitations |-> limitations,
     confidence |-> IF limitations = {} THEN found.confidence ELSE "Inferred"]

\* classify_flow_anomalies
Anomalies(flow) ==
    {Anomaly(found, Limitations(flow)) :
        found \in (IF flow.tcp = None THEN {} ELSE TcpFindings(flow.tcp))
                  \cup DnsFindings(flow) \cup OneSidedFinding(flow)}
=============================================================================
