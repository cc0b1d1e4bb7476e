------------------------------ MODULE Decoding ------------------------------
(***************************************************************************)
(* The decode of one packet (LinkLayerDecoder::decode and what it          *)
(* dispatches to): each step reads a header, says what it has of it to     *)
(* the sink, and chooses the next one; a finding is kept until the end and *)
(* the most serious reported.  A step that the sink refuses ends the       *)
(* decode in the code; here nothing after it reaches the sink.             *)
(*                                                                         *)
(* A packet is what was captured, [link_type, bytes], with what its sender *)
(* knew of it, which the decoder never sees: content is how many bytes it  *)
(* has before any padding, or None for a packet that no sound sender made; *)
(* checked and application are how many bytes must be captured for the     *)
(* transport's checksum, and for the DNS message, to be conclusive, None   *)
(* if none suffice.                                                        *)
(***************************************************************************)
EXTENDS Link, Transport, Dns

CONSTANTS Packets,  \* the packets of a capture
          Limits    \* the limits the importer is given

VARIABLES packet,   \* the packet decoded
          sink,     \* the dataset builder and the outcome of the last call on it
          stage,    \* which header is next
          at,       \* where it is, and what the headers before it said
          finding   \* the finding to report

vars == <<packet, sink, stage, at, finding>>

Key == [packet |-> 1, data |-> ByteRange(0, Len(packet.bytes)), layers |-> 0, fields |-> 0,
        field_children |-> 0, diagnostics |-> 0, strings |-> 0]

EmptyBuilder == [limits |-> Limits, strings |-> <<>>, layers |-> <<>>, fields |-> <<>>,
                 field_children |-> <<>>, diagnostics |-> <<>>]

Init == /\ packet \in Packets
        /\ sink = Continue(EmptyBuilder)
        /\ stage = "link"
        /\ at = None
        /\ finding = None

Emit(emits) == sink' = EmitAll(sink, Key, emits)

GoTo(next, place) == stage' = next /\ at' = place /\ UNCHANGED packet

\* Nothing more of the packet is decoded.
Stop == GoTo("finish", None)

EtherType(offset, inside_vlan) ==
    [type |-> ReadU16(packet.bytes, offset), offset |-> offset, inside_vlan |-> inside_vlan]
-----------------------------------------------------------------------------
(* Link layer                                                              *)

\* Only Ethernet is decoded.
LeaveOtherLinkType ==
    /\ stage = "link"
    /\ packet.link_type # LINKTYPE_ETHERNET
    /\ Stop
    /\ UNCHANGED <<sink, finding>>

ReadEthernet ==
    /\ stage = "link"
    /\ packet.link_type = LINKTYPE_ETHERNET
    /\ Emit(DecodeEthernet(packet.bytes))
    /\ IF Len(packet.bytes) >= ETHERNET_HEADER_LENGTH THEN GoTo("type", EtherType(12, FALSE)) ELSE Stop
    /\ UNCHANGED finding

ReadVlan ==
    /\ stage = "type"
    /\ at.type = ETHER_TYPE_VLAN /\ ~at.inside_vlan
    /\ Emit(DecodeVlan(packet.bytes))
    /\ IF Len(packet.bytes) >= VLAN_HEADER_END THEN GoTo("type", EtherType(16, TRUE)) ELSE Stop
    /\ UNCHANGED finding

\* ARP, and the types that are only shown.
ReadLastOfLink ==
    /\ stage = "type"
    /\ at.type \notin {ETHER_TYPE_IPV4, ETHER_TYPE_IPV6}
    /\ at.type = ETHER_TYPE_VLAN => at.inside_vlan
    /\ Emit(IF at.type = ETHER_TYPE_ARP THEN DecodeArp(packet.bytes, at.offset + 2)
            ELSE ShowEtherType(packet.bytes, at.type, at.offset))
    /\ Stop
    /\ UNCHANGED finding
-----------------------------------------------------------------------------
(* Network layer                                                           *)

\* What a decoder asks of the sink, its finding, and the next header if it hands one on.
Take(d, next) ==
    /\ Emit(d.emits)
    /\ finding' = RecordFinding(finding, d.finding)
    /\ IF d.payload = None THEN Stop ELSE GoTo(next, d.payload)

ReadNetworkHeader ==
    /\ stage = "type"
    /\ \/ /\ at.type = ETHER_TYPE_IPV4
          /\ Take(DecodeIpv4(packet.bytes, at.offset + 2), "transport")
       \/ /\ at.type = ETHER_TYPE_IPV6
          /\ Take(DecodeIpv6(packet.bytes, at.offset + 2), "extensions")

\* terminal_result, fragment_terminal_result: what follows is not a header to traverse,
\* or belongs to a fragment that does not start with one.
Terminal == ~IsExtension(at.next_header) \/ ~at.fragment.initial

EndExtensions ==
    /\ stage = "extensions"
    /\ Terminal
    /\ IF at.next_header = NO_NEXT_HEADER THEN Stop
       ELSE GoTo("transport", Ipv6Payload(packet.bytes, at))
    /\ UNCHANGED <<sink, finding>>

ReadExtension ==
    /\ stage = "extensions"
    /\ ~Terminal
    /\ Take(IF StopBeforeExtension(at) = None THEN DecodeExtension(packet.bytes, at)
            ELSE StopBeforeExtension(at),
            "extensions")
-----------------------------------------------------------------------------
(* Transport layer                                                         *)

ReadTransport ==
    /\ stage = "transport"
    /\ Take(DecodeTransport(packet.bytes, at), "application")
-----------------------------------------------------------------------------
(* DNS: at is where its message is, the fields it has so far, what parsing *)
(* has met, and how many questions and records of each section are left.   *)

Sections == <<"dns_question", "dns_answer", "dns_authority", "dns_additional">>

Message == SubSeq(packet.bytes, at.range.start + 1, End(at.range))

LeaveOtherApplication ==
    /\ stage = "application"
    /\ DnsMessage(packet.bytes, at) = None
    /\ Stop
    /\ UNCHANGED <<sink, finding>>

ReadDnsHeader ==
    /\ stage = "application"
    /\ LET range == DnsMessage(packet.bytes, at)
           root == NextField(sink, Key)
           m == SubSeq(packet.bytes, range.start + 1, End(range))
           fault == HeaderFault(m)
       IN  /\ range # None
           /\ Emit(<<Tree(None, Leaf("dns", range)), Tree(None, DnsHeader(range.start, Len(m)))>>)
           /\ GoTo("dns", [range |-> range, root |-> root, children |-> <<root + 1>>,
                           cursor |-> DNS_HEADER_LENGTH, s |-> NameState, fault |-> fault,
                           left |-> [section \in DOMAIN Sections |->
                                        IF fault # None THEN 0 ELSE ReadU16(m, 2 + 2 * section)]])
    /\ UNCHANGED finding

\* An item of a section: where it ends the next one starts, unless it has a fault.
TakeItem(item, section) ==
    /\ IF item.fault # None
       THEN GoTo("dns", [at EXCEPT !.fault = item.fault]) /\ UNCHANGED sink
       ELSE /\ Emit(<<Tree(None, item.node)>>)
            /\ GoTo("dns", [at EXCEPT !.children = Append(@, NextField(sink, Key)),
                                      !.cursor = item.end, !.s = item.s, !.left[section] = @ - 1])
    /\ UNCHANGED finding

\* The sections are read in order.
Reading(section) ==
    stage = "dns" /\ at.fault = None
        /\ at.left[section] > 0 /\ \A before \in 1 .. section - 1 : at.left[before] = 0

ReadQuestion ==
    /\ Reading(1)
    /\ TakeItem(ParseQuestion(Message, at.cursor, at.s, at.range.start), 1)

ReadRecord ==
    \E section \in 2 .. 4 :
        /\ Reading(section)
        /\ TakeItem(ParseRecord(Message, Sections[section], at.cursor, at.s, at.range.start), section)

\* finish_with_fault, or the end of the message, which nothing may follow.
FinishDns ==
    /\ stage = "dns"
    /\ at.fault # None \/ \A i \in DOMAIN Sections : at.left[i] = 0
    /\ LET rest == at.range.length - at.cursor
           fault == IF at.fault # None THEN at.fault
                    ELSE IF rest # 0 THEN Fault("malformed", at.cursor, rest) ELSE None
       IN  finding' = IF fault = None THEN finding
                      ELSE RecordFinding(finding, FaultFinding(fault, at.range.start))
    /\ Emit(<<SetChildren(at.root, at.children), Layer("dns", at.range, at.root)>>)
    /\ Stop
-----------------------------------------------------------------------------
\* emit_protocol_finding, and the sink's own validation of the packet
Finish ==
    /\ stage = "finish"
    /\ sink' = Settle(EmitAll(sink, Key, OnlyIf(finding # None,
                                                Diagnostic(finding.code, finding.evidence))), Key)
    /\ stage' = "done"
    /\ UNCHANGED <<packet, at, finding>>

Next == \/ LeaveOtherLinkType
        \/ ReadEthernet
        \/ ReadVlan
        \/ ReadLastOfLink
        \/ ReadNetworkHeader
        \/ EndExtensions
        \/ ReadExtension
        \/ ReadTransport
        \/ LeaveOtherApplication
        \/ ReadDnsHeader
        \/ ReadQuestion
        \/ ReadRecord
        \/ FinishDns
        \/ Finish

Spec == Init /\ [][Next]_vars
-----------------------------------------------------------------------------
(* Properties                                                              *)

Done == stage = "done"

Codes == {sink.b.diagnostics[i].code : i \in DOMAIN sink.b.diagnostics}
FieldNames == {sink.b.strings[sink.b.fields[i].name] : i \in DOMAIN sink.b.fields}
Protocols == {sink.b.strings[sink.b.layers[i].protocol] : i \in DOMAIN sink.b.layers}

\* No packet, however damaged, makes the sink refuse a call of the decoder or its result:
\* the limits the decoder publishes for one packet (lib.rs:76-85) suffice, every range is
\* within the packet and its parent, and every field has one parent.
SinkNeverRefuses == sink.out = "Continue"

\* A sound packet of which the end was not captured is reported as truncated and as nothing
\* else, wherever the cut; one captured whole, padding or not, is reported as nothing.
ExactlyTheCutIsReported ==
    Done /\ packet.content # None =>
        Codes = IF Len(packet.bytes) < packet.content THEN {"TRUNCATED_PROTOCOL"} ELSE {}

\* Nothing of the padding behind a sound packet's end, as its network layer or what that
\* carries declares it, is part of any layer or field.  Such a packet has an EtherType: the
\* frames of IEEE 802.3, whose length field the decoder does not cut by, are not among them.
PaddingIsNeverDecoded ==
    packet.content # None =>
        /\ \A i \in DOMAIN sink.b.fields : End(sink.b.fields[i].byte_range) <= packet.content
        /\ \A i \in DOMAIN sink.b.layers : End(sink.b.layers[i].byte_range) <= packet.content

\* A checksum verdict and a DNS message are concluded from a sound packet exactly when all
\* they depend on was captured: never from a fragment, a cut packet, or, for the checksum,
\* a packet whose header does not name its final destination.
ConclusionsNeedTheWhole ==
    LET reached(length) == length # None /\ Len(packet.bytes) >= length
    IN  Done /\ packet.content # None =>
            /\ "checksum_valid" \in FieldNames <=> reached(packet.checked)
            /\ "dns" \in Protocols <=> reached(packet.application)

\* The labels of the name encoded at an offset of a message, following every pointer
\* wherever it leads for as many steps, and where the encoding ends.
Labels(m, offset, limit) ==
    LET from[i \in Nat, steps \in 0 .. limit] ==
            IF steps = 0 \/ i >= Len(m) THEN <<"endless">>
            ELSE IF Octet(m, i) = 0 THEN <<>>
            ELSE IF Octet(m, i) < 64
            THEN <<SubSeq(m, i + 2, i + 1 + Octet(m, i))>> \o from[i + 1 + Octet(m, i), steps - 1]
            ELSE from[ReadU16(m, i) % 16384, steps - 1]
    IN  from[offset, limit]

EncodingEnd(m, offset) ==
    LET from[i \in Nat] == IF Octet(m, i) = 0 THEN i + 1
                           ELSE IF Octet(m, i) >= 64 THEN i + 2
                           ELSE from[i + 1 + Octet(m, i)]
    IN  from[offset]

\* Every name shown is the one encoded where the field says, whatever pointers it uses, and
\* the field covers its encoding and no more; also in a message that is damaged elsewhere.
NamesExpandAsEncoded ==
    stage = "dns" =>
        \A i \in DOMAIN sink.b.fields :
            LET field == sink.b.fields[i]
                offset == field.byte_range.start - at.range.start
            IN  field.text # None =>
                    /\ sink.b.strings[field.text] = ToString(Labels(Message, offset, MAX_NAME_COMPONENTS + MAX_POINTER_HOPS))
                    /\ End(field.byte_range) - at.range.start = EncodingEnd(Message, offset)
=============================================================================
