------------------------------ MODULE Network -------------------------------
(***************************************************************************)
(* IPv4 and IPv6 (protocol-decoders/src/ipv4.rs, ipv6.rs).  A step of the  *)
(* decoder gives [emits |-> what it asks of the sink, payload |-> what it  *)
(* hands to the transport or None, finding |-> its finding or None].       *)
(***************************************************************************)
EXTENDS Fields

CONSTANTS MAX_IPV6_EXTENSION_HEADERS,   \* how many extension headers are traversed
          MAX_IPV6_EXTENSION_BYTES      \* and how many bytes of them

ASSUME NetworkAssumption == /\ MAX_IPV6_EXTENSION_HEADERS \in Nat
                            /\ MAX_IPV6_EXTENSION_BYTES \in Nat

NetworkDecode(emits, payload, finding) ==
    [emits |-> emits, payload |-> payload, finding |-> finding]

\* Where the datagram is a fragment of one that was cut in pieces.
Unfragmented == [initial |-> TRUE, more |-> FALSE]

IsCompleteDatagram(fragment) == fragment.initial /\ ~fragment.more

\* The most serious of some findings, the first of those as serious.
MostSerious(findings) ==
    LET upTo[n \in 0 .. Len(findings)] ==
            IF n = 0 THEN None ELSE RecordFinding(upTo[n - 1], findings[n])
    IN  upTo[Len(findings)]
-----------------------------------------------------------------------------
(* IPv4                                                                    *)

IPV4_HEADER_LENGTH == 20

Ipv4Version == <<Number("version", 0, 1), Number("header_length", 0, 1)>>

\* add_fixed_fields, add_fragment_fields
Ipv4Fixed ==
    Ipv4Version \o
    <<Number("differentiated_services", 1, 1), Number("explicit_congestion_notification", 1, 1),
      Number("total_length", 2, 2), Number("identification", 4, 2), Number("flags", 6, 2),
      Number("reserved_flag", 6, 2), Number("dont_fragment", 6, 2), Number("more_fragments", 6, 2),
      Number("fragment_offset", 6, 2), Number("fragment_offset_bytes", 6, 2),
      Number("time_to_live", 8, 1), Number("protocol", 9, 1), Number("header_checksum", 10, 2),
      Bytes("source_address", 12, 4), Bytes("destination_address", 16, 4)>>

ReservedFlag(word) == word \div 32768 = 1
DontFragment(word) == (word \div 16384) % 2 = 1
MoreFragments(word) == (word \div 8192) % 2 = 1
FragmentOffset(word) == word % 8192

\* validate_lengths_and_fragments: the findings, the last of which forbids the payload
\* when it is about the header; [findings, safe].
Ipv4Extents(bytes, offset, header) ==
    LET total == ReadU16(bytes, offset + 2)
        word == ReadU16(bytes, offset + 6)
        contradictory == \/ ReservedFlag(word)
                         \/ DontFragment(word) /\ (MoreFragments(word) \/ FragmentOffset(word) # 0)
                         \/ MoreFragments(word) /\ (total - header) % 8 # 0
    IN  IF total < header
        THEN [safe |-> FALSE,
              findings |-> <<Finding(90, "MALFORMED_PROTOCOL", ByteRange(offset + 2, 2))>>]
        ELSE [safe |-> ~contradictory,
              findings |-> OnlyIf(total > Len(bytes) - offset, Truncated(ByteRange(offset + 2, 2)))
                  \o OnlyIf(contradictory,
                            Finding(80, "MALFORMED_PROTOCOL", ByteRange(offset + 6, 2)))]

\* Mutant: an option is as long as it says.
Ipv4OptionUncut(at, declared, available) ==
    Node("ipv4_option", ByteRange(at, IF declared = None THEN 1 ELSE declared),
         <<Leaf("option_type", ByteRange(at, 1))>>
             \o OnlyIf(declared # None, Leaf("option_length", ByteRange(at + 1, 1)))
             \o (IF declared # None /\ declared > 2
                 THEN <<Data("data", ByteRange(at + 2, declared - 2))>> ELSE <<>>))

\* One option with a length: its length may be missing, too small or too large.
Ipv4Option(at, declared, available) ==
    LET retained == IF declared = None THEN 1 ELSE Least(IF declared < 2 THEN 2 ELSE declared, available)
    IN  Node("ipv4_option", ByteRange(at, retained),
             <<Leaf("option_type", ByteRange(at, 1))>>
                 \o OnlyIf(declared # None, Leaf("option_length", ByteRange(at + 1, 1)))
                 \o (IF declared # None /\ declared > 2 /\ declared <= available
                     THEN <<Data("data", ByteRange(at + 2, declared - 2))>> ELSE <<>>))

\* decode_options, from each position on: the fields, the finding, and whether a
\* source route says that the destination in the header is not the final one.
Ipv4Options(bytes, start, end) ==
    LET from[at \in start .. end] ==
            IF at = end THEN [kids |-> <<>>, finding |-> None, source_route |-> FALSE]
            ELSE
            LET type == Octet(bytes, at)
                available == end - at
                declared == IF available >= 2 THEN Octet(bytes, at + 1) ELSE None
                sound == declared # None /\ declared >= 2 /\ declared <= available
                length == IF type = 1 THEN 1 ELSE declared
                kid == IF type = 1 THEN Leaf("no_operation", ByteRange(at, 1))
                       ELSE Ipv4Option(at, declared, available)
                routed == type \in {131, 137}
            IN  CASE type = 0 ->
                        [kids |-> <<Leaf("end_of_options", ByteRange(at, 1))>>
                             \o OnlyIf(available > 1, Data("padding", ByteRange(at + 1, available - 1))),
                         finding |-> None, source_route |-> FALSE]
                  [] type # 0 /\ (type = 1 \/ sound) ->
                        LET rest == from[at + length]
                        IN  [rest EXCEPT !.kids = <<kid>> \o @, !.source_route = @ \/ routed]
                  [] OTHER ->
                        [kids |-> <<kid>>, source_route |-> routed,
                         finding |-> Finding(90, "MALFORMED_PROTOCOL", kid.range)]
    IN  from[start]

\* Mutant: the payload is all that was captured behind the header.
Ipv4PayloadWithPadding(bytes, offset, header, destination_known) ==
    LET start == offset + header
        word == ReadU16(bytes, offset + 6)
    IN  [version |-> 4, next_header |-> Octet(bytes, offset + 9),
         selector |-> ByteRange(offset + 9, 1),
         payload |-> ByteRange(start, Len(bytes) - start),
         declared |-> ReadU16(bytes, offset + 2) - header,
         fragment |-> [initial |-> FragmentOffset(word) = 0, more |-> MoreFragments(word)],
         source |-> ByteRange(offset + 12, 4),
         destination |-> IF destination_known THEN ByteRange(offset + 16, 4) ELSE None]

\* network_payload
Ipv4Payload(bytes, offset, header, destination_known) ==
    LET start == offset + header
        declared == ReadU16(bytes, offset + 2) - header
        word == ReadU16(bytes, offset + 6)
    IN  [version |-> 4, next_header |-> Octet(bytes, offset + 9),
         selector |-> ByteRange(offset + 9, 1),
         payload |-> ByteRange(start, Least(start + declared, Len(bytes)) - start),
         declared |-> declared,
         fragment |-> [initial |-> FragmentOffset(word) = 0, more |-> MoreFragments(word)],
         source |-> ByteRange(offset + 12, 4),
         destination |-> IF destination_known THEN ByteRange(offset + 16, 4) ELSE None]

\* decode_complete_header
Ipv4CompleteHeader(bytes, offset, header) ==
    LET range == ByteRange(offset, header)
        valid == InternetChecksumValid(SubSeq(bytes, offset + 1, offset + header))
        extents == Ipv4Extents(bytes, offset, header)
        options == Ipv4Options(bytes, offset + IPV4_HEADER_LENGTH, offset + header)
        area == ByteRange(offset + IPV4_HEADER_LENGTH, header - IPV4_HEADER_LENGTH)
        kids == Leaves(Ipv4Fixed, offset, header)
                    \o <<Leaf("header_checksum_valid", range)>>
                    \o OnlyIf(header > IPV4_HEADER_LENGTH, Node("ipv4_options", area, options.kids))
    IN  NetworkDecode(
            <<Tree("ipv4", Node("ipv4", range, kids))>>,
            IF extents.safe /\ options.finding = None
            THEN Ipv4Payload(bytes, offset, header, ~options.source_route) ELSE None,
            MostSerious(OnlyIf(~valid, WrongChecksum(range)) \o extents.findings
                            \o <<options.finding>>))

DecodeIpv4(bytes, offset) ==
    LET available == Len(bytes) - offset
        first == IF available = 0 THEN 0 ELSE Octet(bytes, offset)
        header == 4 * (first % 16)
        sized == first \div 16 = 4 /\ header >= IPV4_HEADER_LENGTH
        range == ByteRange(offset, Least(available, IF sized THEN header ELSE IPV4_HEADER_LENGTH))
        stopped(layout, finding) ==
            NetworkDecode(<<Tree("ipv4", Node("ipv4", range, Leaves(layout, offset, available)))>>,
                          None, finding)
    IN  CASE available = 0             -> stopped(<<>>, Truncated(range))
          [] available > 0 /\ ~sized   -> stopped(Ipv4Version, Malformed(ByteRange(offset, 1)))
          [] sized /\ available < header -> stopped(Ipv4Fixed, Truncated(range))
          [] OTHER                     -> Ipv4CompleteHeader(bytes, offset, header)
-----------------------------------------------------------------------------
(* IPv6                                                                    *)

IPV6_HEADER_LENGTH == 40
FRAGMENT_HEADER_LENGTH == 8
ESP_VISIBLE_HEADER_LENGTH == 8
AH_FIXED_HEADER_LENGTH == 12

HOP_BY_HOP == 0
ROUTING == 43
FRAGMENT == 44
ESP == 50
AUTHENTICATION == 51
NO_NEXT_HEADER == 59
DESTINATION_OPTIONS == 60

IsExtension(next_header) ==
    next_header \in {HOP_BY_HOP, ROUTING, FRAGMENT, ESP, AUTHENTICATION, DESTINATION_OPTIONS}

Ipv6Version == <<Number("version", 0, 1)>>

Ipv6Fixed ==
    Ipv6Version \o
    <<Number("traffic_class", 0, 2), Number("flow_label", 1, 3), Number("payload_length", 4, 2),
      Number("next_header", 6, 1), Number("hop_limit", 7, 1), Bytes("source_address", 8, 16),
      Bytes("destination_address", 24, 16)>>

\* add_limit_marker, add_jumbogram_marker: where the chain of headers is given up.
Marker(name, selector) ==
    Tree("unsupported", Node(name, selector, <<Leaf("next_header", selector)>>))

LimitMarker(selector) == Marker("unsupported_ipv6_extension_chain", selector)

\* decode_fixed_header; what it hands on is where the traversal of the extension
\* headers starts.
DecodeIpv6(bytes, offset) ==
    LET available == Len(bytes) - offset
        range == ByteRange(offset, Least(available, IPV6_HEADER_LENGTH))
        version == IF available = 0 THEN 0 ELSE Octet(bytes, offset) \div 16
        next == Octet(bytes, offset + 6)
        selector == ByteRange(offset + 6, 1)
        length == ReadU16(bytes, offset + 4)
        start == offset + IPV6_HEADER_LENGTH
        header(layout) == Tree("ipv6", Node("ipv6", range, Leaves(layout, offset, available)))
        jumbogram == length = 0 /\ next = HOP_BY_HOP /\ available > IPV6_HEADER_LENGTH
    IN  CASE available = 0 -> NetworkDecode(<<header(<<>>)>>, None, Truncated(range))
          [] available > 0 /\ version # 6 ->
                NetworkDecode(<<header(Ipv6Version)>>, None, Malformed(ByteRange(offset, 1)))
          [] version = 6 /\ available < IPV6_HEADER_LENGTH ->
                NetworkDecode(<<header(Ipv6Fixed)>>, None, Truncated(range))
          [] version = 6 /\ available >= IPV6_HEADER_LENGTH /\ jumbogram ->
                NetworkDecode(<<header(Ipv6Fixed), Marker("unsupported_ipv6_jumbogram", selector)>>,
                              None, Unsupported(selector))
          [] OTHER ->
                NetworkDecode(
                    <<header(Ipv6Fixed)>>,
                    [next_header |-> next, selector |-> selector, cursor |-> start,
                     declared_end |-> start + length, depth |-> 0, traversed |-> 0,
                     fragment |-> Unfragmented, source |-> ByteRange(offset + 8, 16),
                     destination |-> ByteRange(offset + 24, 16)],
                    IF start + length > Len(bytes) THEN Truncated(ByteRange(offset + 4, 2)) ELSE None)

\* terminal_payload: what follows the extension headers traversed so far.
Ipv6Payload(bytes, at) ==
    [version |-> 6, next_header |-> at.next_header, selector |-> at.selector,
     payload |-> ByteRange(at.cursor, Least(at.declared_end, Len(bytes)) - at.cursor),
     declared |-> at.declared_end - at.cursor, fragment |-> at.fragment,
     source |-> at.source, destination |-> at.destination]

\* The captured part of a header cut short, if any of it is there.
CutEvidence(bytes, at, length, evidence) ==
    LET captured == Least(Len(bytes) - at.cursor, length)
    IN  IF captured <= 0 THEN evidence ELSE ByteRange(at.cursor, captured)

\* Mutant: a header that is cut short is taken for one that does not fit.
PrefixWithinCapture(bytes, at, length) ==
    IF at.cursor + length > Least(at.declared_end, Len(bytes)) THEN Malformed(at.selector) ELSE None

\* validate_prefix_extent: None when the first bytes of a header are there.
PrefixExtent(bytes, at, length) ==
    IF at.cursor + length > at.declared_end THEN Malformed(at.selector)
    ELSE IF at.cursor + length <= Len(bytes) THEN None
    ELSE Truncated(CutEvidence(bytes, at, length, at.selector))

\* validate_extension_extent
ExtensionExtent(bytes, at, length, evidence) ==
    CASE at.cursor + length > at.declared_end -> Malformed(evidence)
      [] at.cursor + length <= at.declared_end
            /\ at.traversed + length > MAX_IPV6_EXTENSION_BYTES -> OverLimit(evidence)
      [] /\ at.cursor + length <= at.declared_end
         /\ at.traversed + length <= MAX_IPV6_EXTENSION_BYTES
         /\ at.cursor + length > Len(bytes) ->
            Truncated(CutEvidence(bytes, at, length, evidence))
      [] OTHER -> None

\* The length an extension header declares, and the byte that declares it.
ExtensionLength(bytes, at) ==
    CASE at.next_header = FRAGMENT       -> FRAGMENT_HEADER_LENGTH
      [] at.next_header = ESP            -> ESP_VISIBLE_HEADER_LENGTH
      [] at.next_header = AUTHENTICATION -> 4 * (Octet(bytes, at.cursor + 1) + 2)
      [] OTHER                           -> 8 * (Octet(bytes, at.cursor + 1) + 1)

\* Why the next header is not decoded, or None: its first bytes before its whole.
ExtensionRefusal(bytes, at) ==
    LET variable == at.next_header \notin {FRAGMENT, ESP}
        prefix == IF variable THEN PrefixExtent(bytes, at, 2) ELSE None
        evidence == IF variable THEN ByteRange(at.cursor + 1, 1) ELSE at.selector
    IN  IF prefix # None THEN prefix
        ELSE ExtensionExtent(bytes, at, ExtensionLength(bytes, at), evidence)

ExtensionNext == <<Number("next_header", 0, 1)>>

\* decode_variable, decode_fragment, decode_authentication, decode_esp: the fields of a
\* header that is there.
ExtensionLayout(next_header, length) ==
    CASE next_header = ROUTING ->
            ExtensionNext \o
            <<Number("header_extension_length", 1, 1), Number("routing_type", 2, 1),
              Number("segments_left", 3, 1), Bytes("data", 4, length - 4)>>
      [] next_header \in {HOP_BY_HOP, DESTINATION_OPTIONS} ->
            ExtensionNext \o
            <<Number("header_extension_length", 1, 1), Bytes("data", 2, length - 2)>>
      [] next_header = FRAGMENT ->
            ExtensionNext \o
            <<Number("reserved", 1, 3), Number("fragment_offset", 2, 2),
              Number("fragment_offset_bytes", 2, 2), Number("more_fragments", 2, 2),
              Number("identification", 4, 4)>>
      [] next_header = AUTHENTICATION ->
            ExtensionNext \o
            <<Number("payload_length", 1, 1), Number("security_parameters_index", 4, 4),
              Number("sequence_number", 8, 4)>>
                \o OnlyIf(length > AH_FIXED_HEADER_LENGTH,
                          Bytes("authentication_data", 12, length - AH_FIXED_HEADER_LENGTH))
      [] next_header = ESP ->
            <<Number("security_parameters_index", 0, 4), Number("sequence_number", 4, 4)>>
                \o OnlyIf(length > ESP_VISIBLE_HEADER_LENGTH,
                          Bytes("data", 8, length - ESP_VISIBLE_HEADER_LENGTH))

ExtensionProtocol(next_header) ==
    CASE next_header = HOP_BY_HOP          -> "ipv6_hop_by_hop"
      [] next_header = ROUTING             -> "ipv6_routing"
      [] next_header = DESTINATION_OPTIONS -> "ipv6_destination_options"
      [] next_header = FRAGMENT            -> "ipv6_fragment"
      [] next_header = AUTHENTICATION      -> "ipv6_authentication"
      [] next_header = ESP                 -> "ipv6_esp"

\* Mutant: the final destination is taken from the header even behind a routing header.
AfterExtensionKeepingDestination(bytes, at, length) ==
    LET word == ReadU16(bytes, at.cursor + 2)
    IN  [at EXCEPT
            !.next_header = Octet(bytes, at.cursor), !.selector = ByteRange(at.cursor, 1),
            !.cursor = @ + length, !.traversed = @ + length, !.depth = @ + 1,
            !.fragment = IF at.next_header = FRAGMENT
                         THEN [initial |-> word \div 8 = 0, more |-> word % 2 = 1] ELSE @]

\* The traversal after a header of some length; a routing header leaves the final
\* destination unknown.
AfterExtension(bytes, at, length) ==
    LET word == ReadU16(bytes, at.cursor + 2)
    IN  [at EXCEPT
            !.next_header = Octet(bytes, at.cursor), !.selector = ByteRange(at.cursor, 1),
            !.cursor = @ + length, !.traversed = @ + length, !.depth = @ + 1,
            !.destination = IF at.next_header = ROUTING THEN None ELSE @,
            !.fragment = IF at.next_header = FRAGMENT
                         THEN [initial |-> word \div 8 = 0, more |-> word % 2 = 1] ELSE @]

\* decode_next_extension.  The payload is the traversal after the header, None when
\* it stops there: at a malformed authentication header, and at an ESP header, whose
\* layer is all the rest.
DecodeExtension(bytes, at) ==
    LET refusal == ExtensionRefusal(bytes, at)
        declared == ExtensionLength(bytes, at)
        length == IF at.next_header = ESP THEN Least(at.declared_end, Len(bytes)) - at.cursor
                  ELSE declared
        range == ByteRange(at.cursor, length)
        protocol == ExtensionProtocol(at.next_header)
        layer == Tree(protocol, Node(protocol, range,
                     Leaves(ExtensionLayout(at.next_header, length), at.cursor, length)))
        misaligned == length < AH_FIXED_HEADER_LENGTH \/ length % 8 # 0
    IN  CASE refusal # None ->
                NetworkDecode(OnlyIf(refusal.code = "RESOURCE_LIMIT", LimitMarker(at.selector)),
                              None, refusal)
          [] refusal = None /\ at.next_header = ESP ->
                NetworkDecode(<<layer>>, None, Unsupported(range))
          [] refusal = None /\ at.next_header = AUTHENTICATION /\ misaligned ->
                NetworkDecode(<<layer>>, None, Malformed(ByteRange(at.cursor + 1, 1)))
          [] OTHER -> NetworkDecode(<<layer>>, AfterExtension(bytes, at, length), None)

\* stop_before_extension, None when the header may be decoded
StopBeforeExtension(at) ==
    CASE at.depth >= MAX_IPV6_EXTENSION_HEADERS ->
            NetworkDecode(<<LimitMarker(at.selector)>>, None, OverLimit(at.selector))
      [] at.depth \in 1 .. MAX_IPV6_EXTENSION_HEADERS - 1 /\ at.next_header = HOP_BY_HOP ->
            NetworkDecode(<<>>, None, Malformed(at.selector))
      [] OTHER -> None
=============================================================================
