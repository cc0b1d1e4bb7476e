---------------------------- MODULE FlowAnalysis ----------------------------
(***************************************************************************)
(* The analysis of a capture by flows (packet-core/src/flow.rs): the       *)
(* packets are read in order and each is folded into the flow of its key.  *)
(* capture is what has been read, so that every conclusion can be compared *)
(* with its definition over the whole history.                             *)
(***************************************************************************)
EXTENDS Flow

CONSTANT Captures   \* the captures of an instance, by number: of what packets, how many

VARIABLES input,    \* the number of the capture that is read
          capture,  \* its packets so far
          flows     \* the accumulators, by key

vars == <<input, capture, flows>>

\* A fraction is less than a second (CaptureTimestamp::new), and the transport
\* layer that gives a packet its ports is the one that is read for its TCP fields.
ASSUME CapturesAssumption ==
    \A c \in DOMAIN Captures :
        /\ Captures[c].bound \in Nat
        /\ Captures[c].packets \subseteq PacketRecord
        /\ \A p \in Captures[c].packets :
              p.protocol # None => (p.protocol = "Tcp" <=> p.tcp # None)
-----------------------------------------------------------------------------
(* packet_flow_key                                                         *)

\* No network or no transport layer: the packet belongs to no flow.
HasFlow(p) == p.protocol # None

\* Mutant: the key of a packet as it was sent, one flow for each direction.
KeyAsSent(p) == [interface |-> p.interface, protocol |-> p.protocol,
                 endpoint_a |-> p.source, endpoint_b |-> p.destination]

FlowKey(p) ==
    LET forward == p.source < p.destination
    IN  [interface |-> p.interface, protocol |-> p.protocol,
         endpoint_a |-> IF forward THEN p.source ELSE p.destination,
         endpoint_b |-> IF forward THEN p.destination ELSE p.source]

Direction(p) ==
    CASE p.source < p.destination -> "AToB"
      [] p.destination < p.source -> "BToA"
      [] OTHER -> "Unknown"

\* The order of the keys, and the identity it gives a flow among its peers.
KeyBefore(j, k) ==
    LET rank == [Tcp |-> 0, Udp |-> 1]
        fields(x) == <<x.interface, rank[x.protocol], x.endpoint_a, x.endpoint_b>>
    IN  \E n \in 1 .. 4 : /\ fields(j)[n] < fields(k)[n]
                          /\ \A m \in 1 .. n - 1 : fields(j)[m] = fields(k)[m]

Position(k, keys) == Cardinality({j \in keys : KeyBefore(j, k)})

\* reconstruct_bidirectional_flows and the other views that list every flow
FlowId(k) == Position(k, DOMAIN flows)

\* reconstruct_tcp_connection_states, which lists the TCP flows
TcpFlows == {k \in DOMAIN flows : k.protocol = "Tcp"}
TcpFlowId(k) == Position(k, TcpFlows)
-----------------------------------------------------------------------------
Init == /\ input \in DOMAIN Captures
        /\ capture = <<>>
        /\ flows = [k \in {} |-> NewFlow]

Reads(p) ==
    /\ Len(capture) < Captures[input].bound                                   \* bound
    /\ capture' = Append(capture, p)
    /\ UNCHANGED input

SkipPacket(p) == Reads(p) /\ ~HasFlow(p) /\ UNCHANGED flows

FoldPacket(p) ==
    LET key == FlowKey(p)
        flow == IF key \in DOMAIN flows THEN flows[key] ELSE NewFlow
    IN  /\ Reads(p)
        /\ HasFlow(p)
        /\ flows' = [k \in DOMAIN flows \cup {key} |->
                        IF k = key THEN ApplyPacket(flow, p, Direction(p))
                                   ELSE flows[k]]

\* A packet as it stands in the capture: its id is its place.
Numbered(p) == [p EXCEPT !.id = Len(capture) + 1]

Next == \E p \in Captures[input].packets : \/ SkipPacket(Numbered(p))
                                  \/ FoldPacket(Numbered(p))

Spec == Init /\ [][Next]_vars
-----------------------------------------------------------------------------
(* The capture as a reader sees it                                         *)

Ids == DOMAIN capture
Of(k) == {i \in Ids : HasFlow(capture[i]) /\ FlowKey(capture[i]) = k}
Dir(i) == Direction(capture[i])
Flags(i) == capture[i].tcp.flags

First(S) == CHOOSE i \in S : \A j \in S : i <= j
Latest(S) == CHOOSE i \in S : \A j \in S : j <= i

\* i and j are neighbours in S.
Adjacent(S, i, j) == i < j /\ {i, j} \subseteq S /\ ~\E m \in S : i < m /\ m < j

(* Durations and latencies are numbers of ticks, and a flow has TCP state  *)
(* exactly when it is a TCP flow.                                          *)
TypeOK ==
    /\ input \in DOMAIN Captures
    /\ \A k \in DOMAIN flows :
        /\ Metrics(flows[k]).duration \in Nat \cup {None}
        /\ Metrics(flows[k]).handshake_latency \in (Nat \ {0}) \cup {None}
        /\ Metrics(flows[k]).time_to_first_data \in (Nat \ {0}) \cup {None}
        /\ Metrics(flows[k]).dns_response_latency \in Nat \cup {None}
        /\ flows[k].tcp = None <=> k.protocol # "Tcp"

(* Two packets share a flow exactly when they belong to one conversation,  *)
(* whoever spoke first; a flow counts, times and lists all its packets and *)
(* no other; the flows are numbered 0, 1, ... without a gap or a tie, and  *)
(* so are the TCP states among themselves.  Whether the two numberings     *)
(* agree is TcpIdsAreAligned.                                              *)
SameConversation(p, q) ==
    /\ p.interface = q.interface /\ p.protocol = q.protocol
    /\ {p.source, p.destination} = {q.source, q.destination}

ConversationsAreWhole ==
    /\ DOMAIN flows = {FlowKey(capture[i]) : i \in {i \in Ids : HasFlow(capture[i])}}
    /\ \A i, j \in {i \in Ids : HasFlow(capture[i])} :
        SameConversation(capture[i], capture[j])
            <=> FlowKey(capture[i]) = FlowKey(capture[j])
    /\ \A k \in DOMAIN flows :
        LET times == {capture[i].ts : i \in Of(k)} \ {None}
            packets == flows[k].packets
        IN  /\ packets.packets_from_b
                   = Cardinality({i \in Of(k) : capture[i].source # k.endpoint_a})
            /\ packets.packets_from_a = Cardinality(Of(k)) - packets.packets_from_b
            /\ times = {} => {packets.first_timestamp, packets.last_timestamp} = {None}
            /\ times # {} => {packets.first_timestamp, packets.last_timestamp} \subseteq times
            /\ \A t \in times : /\ ~Before(t, packets.first_timestamp)
                                /\ ~Before(packets.last_timestamp, t)
            /\ {flows[k].messages[n].packet : n \in LaneA(flows[k])}
                   = {i \in Of(k) : capture[i].source = k.endpoint_a}
            /\ \A n \in DOMAIN flows[k].messages : \A m \in 1 .. n - 1 :
                   flows[k].messages[m].packet < flows[k].messages[n].packet
    /\ {FlowId(k) : k \in DOMAIN flows} = 0 .. Cardinality(DOMAIN flows) - 1
    /\ {TcpFlowId(k) : k \in TcpFlows} = 0 .. Cardinality(TcpFlows) - 1

(* What a TCP flow is said to be is what its history shows: established    *)
(* when its first SYN was answered from the other side and that answer     *)
(* acknowledged, in this order, with the first packets that do so as       *)
(* evidence and the time between them as latency; else failed by its last  *)
(* RST, or by the first SYN its side repeats; ended by its last RST, else  *)
(* by its first two FINs.  A repeated SYN counts whether or not there was  *)
(* an answer before it, and the second FIN whichever side sent it: what    *)
(* the code's comments say of these is RepeatedSynHadNoResponse and        *)
(* SecondFinIsFromOtherSide.                                               *)
EstablishmentExact ==
    \A k \in TcpFlows :
        LET tcp == flows[k].tcp
            syns == {i \in Of(k) : IsSyn(Flags(i))}
            syn == First(syns)
            answers == {i \in Of(k) : /\ syn < i /\ IsSynAck(Flags(i))
                                      /\ Dir(i) # Dir(syn)}
            acks == {i \in Of(k) : /\ First(answers) < i /\ "ACK" \in Flags(i)
                                   /\ Dir(i) = Dir(syn)}
            repeats == {i \in syns : syn < i /\ Dir(i) = Dir(syn)}
            resets == {i \in Of(k) : "RST" \in Flags(i)}
            fins == {i \in Of(k) : "FIN" \in Flags(i)}
            established == syns # {} /\ answers # {} /\ acks # {}
        IN  /\ established =>
                /\ Establishment(tcp) =
                      [state |-> "Established", syn |-> syn,
                       syn_ack |-> First(answers), final_ack |-> First(acks)]
                /\ Metrics(flows[k]).handshake_latency = IsNonzero(
                      DurationBetween(capture[syn].ts, capture[First(acks)].ts))
            /\ ~established =>
                /\ Establishment(tcp) =
                     IF syns = {} THEN NotObserved
                     ELSE IF resets # {}
                     THEN [state |-> "Failed", syn |-> syn,
                           cause |-> "Reset", evidence |-> Latest(resets)]
                     ELSE IF repeats # {}
                     THEN [state |-> "Failed", syn |-> syn,
                           cause |-> "RepeatedSyn", evidence |-> First(repeats)]
                     ELSE [state |-> "InProgress", syn |-> syn]
                /\ Metrics(flows[k]).handshake_latency = None
            /\ Termination(tcp) =
                 IF resets # {} THEN [state |-> "Reset", packet |-> Latest(resets)]
                 ELSE IF fins = {} THEN NotObserved
                 ELSE [state |-> "Fin", first_fin |-> First(fins),
                       second_fin |-> IF fins = {First(fins)} THEN None
                                      ELSE First(fins \ {First(fins)})]

(* The indicators of a TCP flow show the first pair of packets, next to    *)
(* each other among those of one direction that carry the number, that     *)
(* repeats a sequence number, falls behind one, or repeats an              *)
(* acknowledgment; the packets of the other direction, and those with a    *)
(* truncated header, do not come in between.                               *)
Neighbours(S) == {x \in S \X S : Adjacent(S, x[1], x[2])}
FirstPairs(pairs) == {x \in pairs : \A y \in pairs : x[2] <= y[2]}

Shows(indicator, pairs) ==
    IF indicator = None THEN pairs = {}
    ELSE /\ FirstPairs(pairs) = {<<indicator.first, indicator.second>>}
         /\ indicator.direction = Dir(indicator.second)

SequenceFindingsExact ==
    \A k \in TcpFlows :
        LET tcp == flows[k].tcp
            seq(i) == capture[i].tcp.sequence
            ack(i) == capture[i].tcp.acknowledgment
            going(d) == {i \in Of(k) : Dir(i) = d}
            numbered(d) == Neighbours({i \in going(d) : seq(i) # None})
            acked(d) == Neighbours({i \in going(d) : ack(i) # None})
            again(d) == {x \in numbered(d) : seq(x[1]) = seq(x[2])}
            behind(d) == {x \in numbered(d) : seq(x[2]) < seq(x[1])}
            dup(d) == {x \in acked(d) : /\ ack(x[1]) = ack(x[2])
                                        /\ "ACK" \in Flags(x[2])}
        IN  /\ Shows(tcp.retransmission, again("AToB") \cup again("BToA"))
            /\ Shows(tcp.out_of_order, behind("AToB") \cup behind("BToA"))
            /\ Shows(tcp.duplicate_ack, dup("AToB") \cup dup("BToA"))
            /\ \A d \in DOMAIN tcp.side :
                 tcp.side[d].retransmission_sequence_count = Cardinality(again(d))

(* The queries and responses of a transaction, and its exchanges: a timed  *)
(* response, and the first timed query since the one before.               *)
DnsMessages(k, t) ==
    {i \in Of(k) : /\ capture[i].dns # None /\ capture[i].dns.id = t
                   /\ capture[i].dns.is_response \/ capture[i].dns.asks}

Exchanges(k, t) ==
    LET timed == {i \in DnsMessages(k, t) : capture[i].ts # None}
        answer(i) == capture[i].dns.is_response
    IN  {x \in timed \X timed :
            /\ x[1] < x[2] /\ ~answer(x[1]) /\ answer(x[2])
            /\ \A m \in timed : x[1] < m /\ m < x[2] => ~answer(m)
            /\ \A m \in timed : m < x[1] =>
                  \E r \in timed : m <= r /\ r < x[1] /\ answer(r)}

Latency(x) == Duration(capture[x[1]].ts, capture[x[2]].ts)

(* A DNS query is unanswered when no response of its transaction follows   *)
(* it, and the last such query is shown; an error response is shown with   *)
(* the query it answers, if any; the latency is the shortest of those the  *)
(* exchanges of the flow have.  The code's comment says that it is that of *)
(* the earliest, which is LatencyIsOfEarliest.                             *)
DnsTransactionsExact ==
    \A k \in DOMAIN flows :
        LET dns(i) == capture[i].dns
            answered(r) == {q \in DnsMessages(k, dns(r).id) :
                              q < r /\ ~dns(q).is_response
                              /\ Adjacent(DnsMessages(k, dns(r).id), q, r)}
            latencies == {Latency(x) : x \in UNION {Exchanges(k, t) : t \in TransactionIds}}
                             \ {None}
            errors == {i \in Of(k) : dns(i) # None /\ dns(i).is_response /\ dns(i).failed}
        IN  /\ \A t \in TransactionIds : flows[k].dns_queries[t] =
                   IF DnsMessages(k, t) = {} \/ dns(Latest(DnsMessages(k, t))).is_response
                   THEN None ELSE Latest(DnsMessages(k, t))
            /\ flows[k].dns_error_responses =
                   {IF answered(r) = {} THEN [first |-> r, second |-> None]
                    ELSE [first |-> Latest(answered(r)), second |-> r] : r \in errors}
            /\ {flows[k].dns_response_latency} \ {None} =
                   {x \in latencies : \A y \in latencies : x <= y}

(* The catalog and the other views say the same of what both speak of: a   *)
(* SYN without response is one nothing answered, a long handshake is that  *)
(* of an established connection, repeated SYNs are the first SYN and the   *)
(* next of its side, and those a failed connection names; a request        *)
(* without response has none; no finding is certain when a side or the end *)
(* of a packet is missing.  Repeated SYNs are found in a connection that   *)
(* was established as well: AttemptsMadeNoProgress.                        *)
CatalogAgrees ==
    \A k \in DOMAIN flows :
        LET found(kind) == {a \in Anomalies(flows[k]) : a.kind = kind}
            state == IF k.protocol = "Tcp" THEN Establishment(flows[k].tcp)
                                           ELSE NotObserved
            limited == \/ \E i \in Of(k) : capture[i].truncated
                       \/ \A i, j \in Of(k) : capture[i].source = capture[j].source
        IN  /\ limited => \A a \in Anomalies(flows[k]) : a.confidence = "Inferred"
            /\ found("LongHandshake") # {} =>
                   /\ state.state = "Established"
                   /\ found("LongHandshake") = {[a EXCEPT !.first = state.syn,
                         !.second = state.final_ack] : a \in found("LongHandshake")}
            /\ \A a \in found("RepeatedSynAttempts") :
                   LET syns == {i \in Of(k) : IsSyn(Flags(i))}
                   IN  /\ a.first = First(syns)
                       /\ Adjacent({i \in syns : Dir(i) = Dir(a.first)}, a.first, a.second)
            /\ state.state = "Failed" =>
                   \/ state.cause = "Reset" /\ found("ConnectionReset") # {}
                   \/ \E a \in found("RepeatedSynAttempts") :
                         <<a.first, a.second>> = <<state.syn, state.evidence>>
            /\ found("SynWithoutResponse") # {} =>
                   /\ state.state \in {"InProgress", "Failed"}
                   /\ ~\E i \in Of(k) : \/ "RST" \in Flags(i)
                                         \/ /\ i > state.syn /\ IsSynAck(Flags(i))
                                            /\ Dir(i) # Dir(state.syn)
            /\ found("ConnectionReset") # {} =>
                   /\ Termination(flows[k].tcp).state = "Reset"
                   /\ state.state # "NotObserved"
            /\ \A a \in found("DnsRequestWithoutResponse") :
                   ~\E i \in Of(k) : /\ i > a.first /\ capture[i].dns # None
                                     /\ capture[i].dns.id = capture[a.first].dns.id
                                     /\ capture[i].dns.is_response

(* Reading on never takes back what was shown: a connection stays          *)
(* established by the same three packets, an indicator keeps its pair, a   *)
(* reset is not turned into an orderly end, a capture found whole is not   *)
(* found partial, and an error response is not forgotten.                  *)
ConclusionsStand ==
    [][\A k \in DOMAIN flows :
        /\ flows[k].dns_error_responses \subseteq flows'[k].dns_error_responses
        /\ k.protocol = "Tcp" =>
             LET before == flows[k].tcp
                 after == flows'[k].tcp
             IN  /\ Establishment(before).state = "Established" =>
                       Establishment(after) = Establishment(before)
                 /\ before.retransmission # None =>
                       after.retransmission = before.retransmission
                 /\ before.out_of_order # None =>
                       after.out_of_order = before.out_of_order
                 /\ Termination(before).state = "Reset" =>
                       Termination(after).state = "Reset"
                 /\ ~IsPartialCapture(flows[k]) => ~IsPartialCapture(flows'[k])]_vars

-----------------------------------------------------------------------------
(* What comments of the code say of its results, where the code does       *)
(* something else: TLC finds a capture against each of these.              *)

(* A TCP state has the identity of its flow in every other view            *)
(* (TcpConnectionHeuristic::id: "Stable flow identifier, aligned with      *)
(* `BidirectionalFlow`").                                                  *)
TcpIdsAreAligned == \A k \in TcpFlows : TcpFlowId(k) = FlowId(k)

(* The second FIN of a connection between two endpoints is from the side   *)
(* that did not send the first (TcpConnectionTermination::Fin: "Optional   *)
(* second FIN to confirm bidirectional shutdown").                         *)
SecondFinIsFromOtherSide ==
    \A k \in TcpFlows :
        LET end == Termination(flows[k].tcp)
        IN  /\ k.endpoint_a # k.endpoint_b
            /\ end.state = "Fin"
            /\ end.second_fin # None
            => Dir(end.second_fin) # Dir(end.first_fin)

(* An attempt that failed because its SYN was repeated had no answer from  *)
(* the other side before (TcpConnectionFailureCause::RepeatedSyn:          *)
(* "Repeated SYN attempts were observed without a response").              *)
RepeatedSynHadNoResponse ==
    \A k \in TcpFlows :
        LET attempt == Establishment(flows[k].tcp)
        IN  /\ attempt.state = "Failed"
            /\ attempt.cause = "RepeatedSyn"
            => ~\E i \in Of(k) : /\ attempt.syn < i /\ i < attempt.evidence
                                 /\ IsSynAck(Flags(i))
                                 /\ Dir(i) # Dir(attempt.syn)

(* Repeated SYN attempts are not found in a connection that was            *)
(* established before the repeated SYN (FlowAnomalyKind: "Same source      *)
(* endpoint sent repeated SYN packets without an intermediate SYN-ACK";    *)
(* the finding: "without handshake progress").                             *)
AttemptsMadeNoProgress ==
    \A k \in TcpFlows : \A a \in Anomalies(flows[k]) :
        LET connection == Establishment(flows[k].tcp)
        IN  /\ a.kind = "RepeatedSynAttempts"
            /\ connection.state = "Established"
            => a.second < connection.final_ack

(* An exchange with a latency that comes before every other, in the        *)
(* capture and by its times, gives the flow its latency                    *)
(* (FlowMetrics::dns_response_latency: "DNS request/response latency for   *)
(* the earliest inferable transaction, if any").                           *)
LatencyIsOfEarliest ==
    \A k \in DOMAIN flows :
        LET inferable == {x \in UNION {Exchanges(k, t) : t \in TransactionIds} :
                             Latency(x) # None}
            earliest == {x \in inferable : \A y \in inferable : \A n \in {1, 2} :
                            /\ x[n] <= y[n]
                            /\ ~Before(capture[y[n]].ts, capture[x[n]].ts)}
        IN  \A x \in earliest : Metrics(flows[k]).dns_response_latency = Latency(x)

(* Every message with a timestamp has an offset from the start of its flow *)
(* (PacketSequenceMessage::relative_offset: "Relative timestamp from the   *)
(* flow start, when both timestamps are available").                       *)
TimedMessagesHaveOffsets ==
    \A k \in DOMAIN flows : \A n \in DOMAIN flows[k].messages :
        LET message == flows[k].messages[n]
        IN  message.timestamp # None => RelativeOffset(flows[k], message) # None

(* The results are what the comments at their fields and kinds say of them *)
(* (flow.rs:47, :287, :349, :366, :435, :531).                             *)
ResultsAreAsDocumented ==
    /\ TcpIdsAreAligned
    /\ SecondFinIsFromOtherSide
    /\ RepeatedSynHadNoResponse
    /\ AttemptsMadeNoProgress
    /\ LatencyIsOfEarliest
    /\ TimedMessagesHaveOffsets
=============================================================================
