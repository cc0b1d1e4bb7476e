----------------------------- MODULE MCDecoding -----------------------------
(***************************************************************************)
(* The packets the decoders are checked on: sound ones, as a sender builds *)
(* them, captured whole, with padding, and cut at every byte; damaged ones *)
(* with one byte overwritten; and DNS questions over every name of a few   *)
(* bytes.                                                                  *)
(***************************************************************************)
EXTENDS Decoding

Repeat(byte, count) == [i \in 1 .. count |-> byte]
U16(value) == <<value \div 256, value % 256>>
Put(bytes, offset, value) ==
    [bytes EXCEPT ![offset + 1] = value \div 256, ![offset + 2] = value % 256]

\* The value that makes the words of a checksum's domain add up to all ones.
Checksum(bytes) == 65535 - (OctetSum(bytes) % 65535)
-----------------------------------------------------------------------------
(* Building packets from the inside out                                    *)

Source4 == <<192, 0, 2, 1>>
Target4 == <<198, 51, 100, 2>>
Source6 == <<32, 1, 13, 184>> \o Repeat(0, 11) \o <<1>>
Target6 == <<32, 1, 13, 184>> \o Repeat(0, 11) \o <<2>>

\* A message with its checksum at an offset, for a pair of addresses and a protocol.
Summed(message, offset, addresses, protocol) ==
    Put(message, offset, Checksum(addresses \o <<0, protocol>> \o U16(Len(message)) \o message))

Over4 == Source4 \o Target4
Over6 == Source6 \o Target6

Udp(source, target, payload, addresses) ==
    Summed(U16(source) \o U16(target) \o U16(8 + Len(payload)) \o <<0, 0>> \o payload,
           6, addresses, 17)

Tcp(source, target, options, payload, addresses) ==
    Summed(U16(source) \o U16(target) \o <<0, 0, 0, 1, 0, 0, 0, 2>>
               \o <<16 * ((20 + Len(options)) \div 4), 24>> \o U16(512) \o <<0, 0, 0, 0>>
               \o options \o payload,
           16, addresses, 6)

Ipv4(options, word, protocol, payload) ==
    LET header == <<64 + (20 + Len(options)) \div 4, 0>> \o U16(20 + Len(options) + Len(payload))
                      \o <<0, 7>> \o U16(word) \o <<64, protocol, 0, 0>> \o Over4 \o options
    IN  Put(header, 10, Checksum(header)) \o payload

Ipv6(next, payload) ==
    <<96, 0, 0, 0>> \o U16(Len(payload)) \o <<next, 64>> \o Over6 \o payload

Ethernet(type, payload) == <<2, 0, 0, 0, 0, 2, 2, 0, 0, 0, 0, 1>> \o U16(type) \o payload
Vlan(type, payload) == Ethernet(ETHER_TYPE_VLAN, <<32, 5>> \o U16(type) \o payload)

\* An extension header of eight bytes.
Extension(next) == <<next, 0, 0, 0, 0, 0, 0, 0>>

RECURSIVE Chain(_, _, _)
Chain(count, next, payload) ==
    IF count = 0 THEN payload
    ELSE Extension(IF count = 1 THEN next ELSE DESTINATION_OPTIONS) \o Chain(count - 1, next, payload)

Dns(questions, answers, authority, additional, body) ==
    <<0, 9, 129, 128>> \o U16(questions) \o U16(answers) \o U16(authority) \o U16(additional) \o body

Root == <<0>>
Pointer(offset) == <<192 + offset \div 256, offset % 256>>
Rr(owner, type, class, data) ==
    owner \o U16(type) \o U16(class) \o <<0, 0, 0, 60>> \o U16(Len(data)) \o data

RECURSIVE Times(_, _)
Times(count, bytes) == IF count = 0 THEN <<>> ELSE bytes \o Times(count - 1, bytes)
-----------------------------------------------------------------------------
(* Sound packets                                                           *)

\* What a sender built, and how much of it its conclusions need.
Sound(bytes, checked, application) ==
    [link_type |-> LINKTYPE_ETHERNET, bytes |-> bytes, content |-> Len(bytes),
     checked |-> IF checked THEN Len(bytes) ELSE None,
     application |-> IF application THEN Len(bytes) ELSE None]

Captured(p, length) ==
    [p EXCEPT !.bytes = SubSeq(p.bytes \o <<1, 3, 2>>, 1, length)]

Damaged(bytes) == [Sound(bytes, FALSE, FALSE) EXCEPT !.content = None]

Arp == Ethernet(ETHER_TYPE_ARP,
           <<0, 1, 8, 0, 6, 4, 0, 1, 2, 0, 0, 0, 0, 1>> \o Source4 \o Repeat(0, 6) \o Target4)

Ping == Vlan(ETHER_TYPE_IPV4,
            Ipv4(<<>>, 16384, 1, Put(<<8, 0, 0, 0, 0, 1, 0, 2, 5>>, 2,
                                     Checksum(<<8, 0, 0, 0, 0, 1, 0, 2, 5>>))))

\* Every option the decoder knows, in four times four bytes and a half.
Options == <<2, 4, 5, 180, 4, 2, 8, 10, 0, 0, 0, 1, 0, 0, 0, 2, 3, 3, 7,
             5, 10, 0, 0, 0, 1, 0, 0, 0, 9, 254, 3, 1, 1, 0, 0, 0>>

Segment == Ethernet(ETHER_TYPE_IPV4,
               Ipv4(<<7, 7, 4, 0, 0, 0, 0, 1>>, 0, 6, Tcp(80, 4000, Options, <<1, 2, 3>>, Over4)))

\* One question and a record of each kind, with names that end in pointers to others.
Name1 == <<1, 97, 2, 98, 46, 0>>                       \* at 12: its parts at 12, 14 and 17
Answers ==
    Rr(Pointer(12), TYPE_A, 1, Source4)                                          \* at 22
        \o Rr(<<1, 120>> \o Pointer(14), TYPE_CNAME, 1, <<1, 121>> \o Pointer(38)) \* at 38, 52
Authority == Rr(Pointer(52), TYPE_SOA, 1, Pointer(38) \o <<1, 122, 0>> \o Repeat(0, 20)) \* at 56
Additional == Rr(Root, TYPE_MX, 1, <<0, 5>> \o Pointer(12)) \o Rr(Root, TYPE_TXT, 1, <<2, 104, 105, 0>>)
                  \o Rr(Pointer(17), TYPE_AAAA, 1, Source6) \o Rr(Root, TYPE_A, 3, <<7>>)
                  \o Rr(Root, 99, 1, <<>>)
Answered == Dns(1, 2, 1, 5, Name1 \o <<0, 1, 0, 1>> \o Answers \o Authority \o Additional)

Lookup == Ethernet(ETHER_TYPE_IPV4, Ipv4(<<>>, 0, 17, Udp(53, 4000, Answered, Over4)))

Routed == Ethernet(ETHER_TYPE_IPV4,
              Ipv4(<<131, 7, 4, 10, 0, 0, 1, 0>>, 0, 17,
                   Udp(4000, 53, Dns(1, 0, 0, 0, Root \o <<0, 1, 0, 1>>), Over4)))

\* Fragments: the first, of eight bytes, of a datagram, and a later one.
Fragments == {Ethernet(ETHER_TYPE_IPV4, Ipv4(<<>>, 8192, 17, SubSeq(Udp(53, 53, Answered, Over4), 1, 24))),
              Ethernet(ETHER_TYPE_IPV4, Ipv4(<<>>, 8192, 6, SubSeq(Tcp(53, 53, Options, <<>>, Over4), 1, 24))),
              Ethernet(ETHER_TYPE_IPV4, Ipv4(<<>>, 3, 17, <<0, 53, 0, 53, 0, 9, 9>>)),
              Ethernet(ETHER_TYPE_IPV6,
                  Ipv6(FRAGMENT, <<17, 0, 0, 1, 0, 0, 0, 5>> \o SubSeq(Udp(53, 53, Answered, Over6), 1, 16))),
              Ethernet(ETHER_TYPE_IPV6, Ipv6(FRAGMENT, <<ESP, 0, 0, 8, 0, 0, 0, 5>> \o Repeat(1, 5))),
              Ethernet(ETHER_TYPE_IPV6, Ipv6(FRAGMENT, <<NO_NEXT_HEADER, 0, 0, 8, 0, 0, 0, 5>>))}

\* An atomic fragment is a complete datagram; an authenticated one, too.
Echo6 == Put(<<128, 0, 0, 0, 0, 1, 0, 2>>, 2,
             Checksum(Over6 \o <<0, 58, 0, 8>> \o <<128, 0, 0, 0, 0, 1, 0, 2>>))
Authenticated == Ethernet(ETHER_TYPE_IPV6,
    Ipv6(HOP_BY_HOP, Extension(FRAGMENT) \o <<AUTHENTICATION, 0, 0, 0, 0, 0, 0, 5>>
                         \o <<58, 4, 0, 0, 0, 0, 0, 1, 0, 0, 0, 2>> \o Repeat(9, 12) \o Echo6))

\* Behind a routing header the address is not the final destination's.
Detour == Ethernet(ETHER_TYPE_IPV6,
    Ipv6(ROUTING, Extension(17) \o Udp(4000, 53, Dns(1, 0, 0, 0, Root \o <<0, 1, 0, 1>>), Over6)))

\* As many headers as are traversed, the most layers of any packet, and no payload.
Deepest == Vlan(ETHER_TYPE_IPV6,
    Ipv6(HOP_BY_HOP, Chain(8, 17, Udp(53, 53, Dns(0, 0, 0, 0, <<>>), Over6))))
Empty6 == Ethernet(ETHER_TYPE_IPV6, Ipv6(NO_NEXT_HEADER, <<>>))

\* The most fields of any packet: options of two bytes, sixteen questions, fifteen SOA
\* records and sixteen strings.
Crowd == Dns(16, 15, 0, 1,
             Times(16, Root \o <<0, 1, 0, 1>>) \o Times(15, Rr(Root, TYPE_SOA, 1, Repeat(0, 22)))
                 \o Rr(Root, TYPE_TXT, 1, Repeat(0, 16)))
Crowded == Vlan(ETHER_TYPE_IPV4,
    Ipv4(Times(20, <<9, 2>>), 0, 6, Tcp(53, 53, Times(20, <<9, 2>>), U16(Len(Crowd)) \o Crowd, Over4)))

\* The longest names: the most bytes when rendered, the most labels, the most pointers.
Label(length, byte) == <<length>> \o Repeat(byte, length)
Longest == Times(3, Label(63, 0)) \o Label(61, 0) \o Root
RECURSIVE Linked(_, _)
Linked(count, offset) == IF count = 0 THEN <<>>
                     ELSE Rr(Pointer(offset), 99, 1, <<>>) \o Linked(count - 1, offset + 12)
LongNames ==
    {Ethernet(ETHER_TYPE_IPV4, Ipv4(<<>>, 0, 17, Udp(53, 9, m, Over4))) :
        m \in {Dns(1, 0, 0, 0, Longest \o <<0, 1, 0, 1>>),
               Dns(1, 0, 0, 0, Times(127, <<1, 97>>) \o Root \o <<0, 1, 0, 1>>),
               Dns(1, 16, 0, 0, Root \o <<0, 1, 0, 1>> \o Rr(Pointer(12), 99, 1, <<>>) \o Linked(15, 17))}}

\* A sound message behind which the datagram has room.
Roomy == [Sound(Ethernet(ETHER_TYPE_IPV4,
                    Ipv4(<<>>, 0, 17, Udp(53, 53, Dns(0, 0, 0, 0, <<>>), Over4) \o <<4, 4>>)),
                TRUE, TRUE) EXCEPT !.checked = @ - 2, !.application = @ - 2]

SoundPackets ==
    {Sound(Arp, FALSE, FALSE), Sound(Ping, TRUE, FALSE), Sound(Segment, TRUE, FALSE),
     Sound(Lookup, TRUE, TRUE), Sound(Routed, FALSE, TRUE), Sound(Authenticated, TRUE, FALSE),
     Sound(Detour, FALSE, TRUE), Sound(Empty6, FALSE, FALSE), Roomy}
        \cup {Sound(bytes, FALSE, FALSE) : bytes \in Fragments}

\* The large ones are captured whole and without their last byte only.
LargePackets == {Sound(Deepest, TRUE, TRUE), Sound(Crowded, TRUE, TRUE)}
                    \cup {Sound(bytes, TRUE, TRUE) : bytes \in LongNames}

Cuts == UNION {{Captured(p, length) : length \in 0 .. Len(p.bytes) + 3} : p \in SoundPackets}
            \cup UNION {{Captured(p, Len(p.bytes) + more) : more \in {-1, 0, 3}} : p \in LargePackets}
-----------------------------------------------------------------------------
(* Damaged packets                                                         *)

Overwritten == UNION {{Damaged([bytes EXCEPT ![i] = byte]) : i \in 13 .. Len(bytes), byte \in {0, 1, 255}} :
                         bytes \in {Arp, Segment, Lookup, Authenticated, Detour}}

\* A chain of headers one longer than is traversed, one longer than fits the bytes, one
\* whose first header is misplaced, and the ones the decoder does not go into.
Chains == {Ethernet(ETHER_TYPE_IPV6, Ipv6(next, payload)) :
              <<next, payload>> \in {<<DESTINATION_OPTIONS, Chain(9, 17, <<>>)>>,
                                     <<DESTINATION_OPTIONS, <<17, 64>> \o Repeat(0, 518)>>,
                                     <<DESTINATION_OPTIONS, Chain(2, HOP_BY_HOP, Extension(17))>>,
                                     <<AUTHENTICATION, <<17, 0>> \o Repeat(0, 10)>>,
                                     <<ESP, Repeat(7, 12)>>}}

Types == {Ethernet(type, <<1, 2, 3>>) : type \in {7, 1510, 34984, 37120, 4660}}
             \cup {Vlan(ETHER_TYPE_VLAN, <<1, 2, 3>>)}

\* A question over every name of four bytes, behind one whose parts it may point to, and
\* one that may point to it.
NameBytes == {0, 1, 12, 14, 97, 192}
Pointing ==
    {Damaged(Ethernet(ETHER_TYPE_IPV4, Ipv4(<<>>, 0, 17,
        Udp(53, 9, Dns(2, 1, 0, 0, <<1, 97, 1, 98, 0, 0, 1, 0, 1>> \o name \o <<0, 1, 0, 1>>
                                       \o Rr(Pointer(21), 99, 1, <<>>)), Over4)))) :
        name \in [1 .. 4 -> NameBytes]}

MCPackets == Cuts \cup Overwritten \cup Pointing
                 \cup {Damaged(bytes) : bytes \in Chains \cup Types}
                 \cup {[Damaged(Arp) EXCEPT !.link_type = 101]}

\* The limits the decoder publishes for one packet, and no others.
MCLimits == [LayersPerPacket |-> 13, FieldsPerPacket |-> 487, FieldChildrenPerPacket |-> 482,
             Layers |-> 1000, Fields |-> 1000, FieldChildren |-> 1000, Diagnostics |-> 1000,
             StringBytes |-> 1000]
=============================================================================
