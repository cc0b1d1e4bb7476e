----------------------------- MODULE Transport ------------------------------
(***************************************************************************)
(* TCP, UDP and ICMP (protocol-decoders/src/tcp.rs, udp.rs, icmp.rs,       *)
(* checksum.rs).  n is what the network layer handed over, bytes the       *)
(* packet.  A decoder gives [emits, payload, finding]: the payload is a    *)
(* complete message for the application, or None.                          *)
(***************************************************************************)
EXTENDS Network

TransportDecode(protocol, range, kids, payload, finding) ==
    NetworkDecode(<<Tree(protocol, Node(protocol, range, kids))>>, payload, finding)

TransportPayload(protocol, bytes, n, start) ==
    [protocol |-> protocol,
     ports |-> {ReadU16(bytes, n.payload.start), ReadU16(bytes, n.payload.start + 2)},
     range |-> start]

\* When the whole domain of a transport checksum is known.
Checkable(n) == IsCompleteDatagram(n.fragment) /\ n.destination # None

\* The pseudo-header's two-byte fields; an address pair is a whole number of words.
TransportChecksumValid(bytes, n, protocol, range) ==
    LET slice(r) == SubSeq(bytes, r.start + 1, End(r))
    IN  InternetChecksumValid(
            slice(n.source) \o slice(n.destination)
                \o <<0, protocol, range.length \div 256, range.length % 256>> \o slice(range))
-----------------------------------------------------------------------------
(* TCP                                                                     *)

TCP_HEADER_LENGTH == 20

\* add_fixed_fields, add_flags
TcpFixed ==
    <<Number("source_port", 0, 2), Number("destination_port", 2, 2),
      Number("sequence_number", 4, 4), Number("acknowledgment_number", 8, 4),
      Number("data_offset_words", 12, 1), Number("header_length", 12, 1), Number("reserved", 12, 1),
      Number("flags", 13, 1), Number("cwr", 13, 1), Number("ece", 13, 1), Number("urg", 13, 1),
      Number("ack", 13, 1), Number("psh", 13, 1), Number("rst", 13, 1), Number("syn", 13, 1),
      Number("fin", 13, 1), Number("window", 14, 2), Number("checksum", 16, 2),
      Number("urgent_pointer", 18, 2)>>

OptionRootName(kind) ==
    CASE kind = 2 -> "maximum_segment_size_option"
      [] kind = 3 -> "window_scale_option"
      [] kind = 4 -> "sack_permitted_option"
      [] kind = 5 -> "sack_option"
      [] kind = 8 -> "timestamp_option"
      [] OTHER    -> "tcp_option"

KnownLengthValid(kind, length) ==
    /\ kind = 2 => length = 4
    /\ kind = 3 => length = 3
    /\ kind = 4 => length = 2
    /\ kind = 5 => length >= 10 /\ (length - 2) % 8 = 0
    /\ kind = 8 => length = 10

\* add_sack_blocks
SackBlocks(at, length) ==
    Node("sack_blocks", ByteRange(at, length),
         [i \in 1 .. length \div 8 |->
            LET block == at + 8 * (i - 1)
            IN  Node("sack_block", ByteRange(block, 8),
                     <<Leaf("left_edge", ByteRange(block, 4)),
                       Leaf("right_edge", ByteRange(block + 4, 4))>>)])

\* decode_known_option: the fields of a sound option after its kind and length.
OptionFields(kind, at, length) ==
    CASE kind = 2 -> <<Leaf("maximum_segment_size", ByteRange(at + 2, 2))>>
      [] kind = 3 -> <<Leaf("window_scale_shift", ByteRange(at + 2, 1))>>
      [] kind = 4 -> <<>>
      [] kind = 5 -> <<SackBlocks(at + 2, length - 2)>>
      [] kind = 8 -> <<Leaf("timestamp_value", ByteRange(at + 2, 4)),
                       Leaf("timestamp_echo_reply", ByteRange(at + 6, 4))>>
      [] OTHER    -> OnlyIf(length > 2, Data("data", ByteRange(at + 2, length - 2)))

\* An option with a length: fields only of a sound one, otherwise its bytes.
TcpOption(kind, at, declared, available) ==
    LET retained == IF declared = None THEN 1 ELSE Least(IF declared < 2 THEN 2 ELSE declared, available)
        known == declared # None /\ declared \in 2 .. available /\ KnownLengthValid(kind, declared)
    IN  Node(OptionRootName(kind), ByteRange(at, retained),
             <<Leaf("option_kind", ByteRange(at, 1))>>
                 \o OnlyIf(declared # None, Leaf("option_length", ByteRange(at + 1, 1)))
                 \o (IF known THEN OptionFields(kind, at, declared)
                     ELSE OnlyIf(retained > 2, Data("data", ByteRange(at + 2, retained - 2)))))

\* decode_options, from each position on.  Every finding has the same priority, so
\* the first one met stays.
TcpOptions(bytes, start, end) ==
    LET from[at \in start .. end] ==
            IF at = end THEN [kids |-> <<>>, finding |-> None]
            ELSE
            LET kind == Octet(bytes, at)
                available == end - at
                padding == ByteRange(at + 1, available - 1)
                declared == IF available >= 2 THEN Octet(bytes, at + 1) ELSE None
                sound == declared # None /\ declared >= 2 /\ declared <= available
                kid == IF kind = 1 THEN Leaf("no_operation", ByteRange(at, 1))
                       ELSE TcpOption(kind, at, declared, available)
                fault == IF kind = 1 \/ KnownLengthValid(kind, declared) THEN None
                         ELSE Malformed(ByteRange(at + 1, 1))
            IN  CASE kind = 0 ->
                        [kids |-> <<Leaf("end_of_options", ByteRange(at, 1))>>
                             \o OnlyIf(available > 1, Data("padding", padding)),
                         finding |-> IF \E i \in padding.start .. End(padding) - 1 : Octet(bytes, i) # 0
                                     THEN Malformed(padding) ELSE None]
                  [] kind # 0 /\ (kind = 1 \/ sound) ->
                        LET rest == from[at + (IF kind = 1 THEN 1 ELSE declared)]
                        IN  [kids |-> <<kid>> \o rest.kids,
                             finding |-> RecordFinding(fault, rest.finding)]
                  [] OTHER -> [kids |-> <<kid>>, finding |-> Malformed(kid.range)]
    IN  from[start]

\* A segment whose header is all there.
TcpSegment(bytes, n, header) ==
    LET start == n.payload.start
        range == ByteRange(start, header)
        checksum == ByteRange(start + 16, 2)
        options == TcpOptions(bytes, start + TCP_HEADER_LENGTH, start + header)
        area == ByteRange(start + TCP_HEADER_LENGTH, header - TCP_HEADER_LENGTH)
        complete == /\ IsCompleteDatagram(n.fragment)
                    /\ n.payload.length = n.declared
                    /\ options.finding = None
        checked == complete /\ Checkable(n)
        valid == ~checked \/ TransportChecksumValid(bytes, n, 6, n.payload)
        kids == Leaves(TcpFixed, start, header)
                    \o OnlyIf(header > TCP_HEADER_LENGTH, Node("tcp_options", area, options.kids))
                    \o OnlyIf(checked, Leaf("checksum_valid", checksum))
    IN  TransportDecode("tcp", range, kids,
            IF complete
            THEN TransportPayload("tcp", bytes, n, ByteRange(start + header, n.declared - header))
            ELSE None,
            MostSerious(OnlyIf(n.payload.length < n.declared, Truncated(range))
                            \o <<options.finding>> \o OnlyIf(~valid, WrongChecksum(checksum))))

DecodeTcp(bytes, n) ==
    LET start == n.payload.start
        available == n.payload.length
        words == IF available > 12 THEN Octet(bytes, start + 12) \div 16 ELSE 0
        header == 4 * words
        range == ByteRange(start, Least(available, IF words >= 5 THEN header ELSE TCP_HEADER_LENGTH))
        evidence == EvidenceOrSelector(range, n.selector)
        data_offset == ByteRange(start + 12, 1)
        complete == IsCompleteDatagram(n.fragment)
        short == available < n.declared
        stopped(finding) ==
            TransportDecode("tcp", range, Leaves(TcpFixed, start, available), None, finding)
    IN  CASE complete /\ n.declared < TCP_HEADER_LENGTH -> stopped(Malformed(evidence))
          [] ~(complete /\ n.declared < TCP_HEADER_LENGTH) /\ available < TCP_HEADER_LENGTH ->
                stopped(IF short THEN Truncated(evidence) ELSE None)
          [] available >= TCP_HEADER_LENGTH /\ words < 5 -> stopped(Malformed(data_offset))
          [] available >= TCP_HEADER_LENGTH /\ words >= 5 /\ header > n.declared ->
                stopped(IF complete THEN Malformed(data_offset) ELSE None)
          [] /\ available >= TCP_HEADER_LENGTH /\ words >= 5
             /\ header <= n.declared /\ available < header ->
                stopped(IF complete \/ short THEN Truncated(evidence) ELSE None)
          [] OTHER -> TcpSegment(bytes, n, header)
-----------------------------------------------------------------------------
(* UDP                                                                     *)

UDP_HEADER_LENGTH == 8

UdpLayout == <<Number("source_port", 0, 2), Number("destination_port", 2, 2),
               Number("length", 4, 2), Number("checksum", 6, 2)>>

\* A datagram that is all there, as long as its own length says.
UdpDatagram(bytes, n, declared, finding) ==
    LET start == n.payload.start
        checksum == ByteRange(start + 6, 2)
        checked == ReadU16(bytes, start + 6) # 0 /\ Checkable(n)
        valid == ~checked \/ TransportChecksumValid(bytes, n, 17, ByteRange(start, declared))
    IN  TransportDecode("udp", ByteRange(start, UDP_HEADER_LENGTH),
            Leaves(UdpLayout, start, UDP_HEADER_LENGTH)
                \o OnlyIf(checked, Leaf("checksum_valid", checksum)),
            TransportPayload("udp", bytes, n,
                ByteRange(start + UDP_HEADER_LENGTH, declared - UDP_HEADER_LENGTH)),
            RecordFinding(finding, IF valid THEN None ELSE WrongChecksum(checksum)))

DecodeUdp(bytes, n) ==
    LET start == n.payload.start
        available == n.payload.length
        range == ByteRange(start, Least(available, UDP_HEADER_LENGTH))
        evidence == EvidenceOrSelector(range, n.selector)
        length == ByteRange(start + 4, 2)
        declared == ReadU16(bytes, start + 4)
        complete == IsCompleteDatagram(n.fragment)
        zero == IF complete /\ n.version = 6 /\ ReadU16(bytes, start + 6) = 0
                THEN WrongChecksum(ByteRange(start + 6, 2)) ELSE None
        stopped(finding) ==
            TransportDecode("udp", range, Leaves(UdpLayout, start, available), None, finding)
    IN  CASE available < UDP_HEADER_LENGTH /\ complete /\ n.declared < UDP_HEADER_LENGTH ->
                stopped(Malformed(evidence))
          [] available < UDP_HEADER_LENGTH /\ ~(complete /\ n.declared < UDP_HEADER_LENGTH) ->
                stopped(IF available < n.declared THEN Truncated(evidence) ELSE None)
          [] available >= UDP_HEADER_LENGTH /\ declared < UDP_HEADER_LENGTH ->
                stopped(RecordFinding(zero, Malformed(length)))
          [] available >= UDP_HEADER_LENGTH /\ declared >= UDP_HEADER_LENGTH /\ ~complete ->
                stopped(zero)
          [] available >= UDP_HEADER_LENGTH /\ complete /\ declared > n.declared ->
                stopped(RecordFinding(zero, Malformed(length)))
          [] /\ available >= UDP_HEADER_LENGTH /\ complete
             /\ declared <= n.declared /\ declared > available ->
                stopped(RecordFinding(zero, Truncated(length)))
          [] OTHER -> UdpDatagram(bytes, n, declared, zero)
-----------------------------------------------------------------------------
(* ICMP and ICMPv6                                                         *)

COMMON_HEADER_LENGTH == 4
COMMON_BODY_HEADER_LENGTH == 8

IcmpLayout == <<Number("type", 0, 1), Number("code", 1, 1), Number("checksum", 2, 2)>>

IcmpRequiredLength(version, type) ==
    IF type \in (IF version = 4 THEN {0, 3, 8, 11, 12} ELSE {1, 2, 3, 4, 128, 129})
    THEN COMMON_BODY_HEADER_LENGTH ELSE COMMON_HEADER_LENGTH

\* decode_common_body
IcmpBody(version, type) ==
    CASE <<version, type>> \in {<<4, 0>>, <<4, 8>>, <<6, 128>>, <<6, 129>>} ->
            <<Number("identifier", 4, 2), Number("sequence_number", 6, 2)>>
      [] <<version, type>> \in {<<4, 3>>, <<4, 11>>, <<6, 1>>, <<6, 3>>} ->
            <<Bytes("rest_of_header", 4, 4)>>
      [] <<version, type>> = <<6, 2>>  -> <<Number("mtu", 4, 4)>>
      [] <<version, type>> = <<4, 12>> -> <<Number("pointer", 4, 1)>>
      [] <<version, type>> = <<6, 4>>  -> <<Number("pointer", 4, 4)>>
      [] OTHER -> <<>>

DecodeIcmp(bytes, n) ==
    LET start == n.payload.start
        available == n.payload.length
        protocol == IF n.version = 4 THEN "icmp" ELSE "icmpv6"
        type == Octet(bytes, start)
        required == IF available = 0 THEN COMMON_HEADER_LENGTH
                    ELSE IcmpRequiredLength(n.version, type)
        complete == IsCompleteDatagram(n.fragment)
        whole == /\ complete /\ n.declared >= required
                 /\ available = n.declared /\ available >= COMMON_HEADER_LENGTH
        checked == whole /\ (n.version = 6 => Checkable(n))
        valid == \/ ~checked
                 \/ IF n.version = 4
                    THEN InternetChecksumValid(SubSeq(bytes, start + 1, End(n.payload)))
                    ELSE TransportChecksumValid(bytes, n, 58, n.payload)
        body == IF available >= COMMON_BODY_HEADER_LENGTH THEN IcmpBody(n.version, type) ELSE <<>>
        finding == IF complete /\ n.declared < required THEN Malformed(n.payload)
                   ELSE IF available < n.declared THEN Truncated(n.payload)
                   ELSE IF ~valid THEN WrongChecksum(n.payload) ELSE None
    IN  TransportDecode(protocol, n.payload,
            Leaves(IcmpLayout \o body, start, available)
                \o OnlyIf(checked, Leaf("checksum_valid", n.payload)),
            None, finding)
-----------------------------------------------------------------------------
\* dispatch_network_payload: nothing is decoded of a later fragment or of another protocol.
DecodeTransport(bytes, n) ==
    CASE n.fragment.initial /\ <<n.version, n.next_header>> \in {<<4, 1>>, <<6, 58>>} ->
            DecodeIcmp(bytes, n)
      [] n.fragment.initial /\ n.next_header = 6  -> DecodeTcp(bytes, n)
      [] n.fragment.initial /\ n.next_header = 17 -> DecodeUdp(bytes, n)
      [] OTHER -> NetworkDecode(<<>>, None, None)

\* dispatch_transport_payload: the DNS message a payload frames, or None.
DnsMessage(bytes, p) ==
    LET framed == /\ p.range.length >= 2
                  /\ ReadU16(bytes, p.range.start) = p.range.length - 2
    IN  IF 53 \notin p.ports THEN None
        ELSE IF p.protocol = "udp" THEN p.range
        ELSE IF framed THEN ByteRange(p.range.start + 2, p.range.length - 2)
        ELSE None
=============================================================================
