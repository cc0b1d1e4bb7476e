-------------------------------- MODULE Link --------------------------------
(***************************************************************************)
(* The link layer (protocol-decoders/src/lib.rs): the Ethernet header, one *)
(* 802.1Q tag, ARP, and the encapsulations the decoder only shows.  Each   *)
(* operator gives what the step asks of the sink.                          *)
(***************************************************************************)
EXTENDS Fields

LINKTYPE_ETHERNET == 1
ETHERNET_HEADER_LENGTH == 14
VLAN_HEADER_END == 18
ARP_FIXED_HEADER_LENGTH == 8
ARP_ETHERNET_IPV4_LENGTH == 28
ETHERNET_TYPE_MINIMUM == 1536
ETHER_TYPE_IPV4 == 2048
ETHER_TYPE_ARP == 2054
ETHER_TYPE_VLAN == 33024
ETHER_TYPE_IPV6 == 34525
ETHER_TYPE_PROVIDER_VLAN == 34984
ETHER_TYPE_LEGACY_VLAN == 37120

EthernetLayout == <<Bytes("destination", 0, 6), Bytes("source", 6, 6), Number("ether_type", 12, 2)>>

DecodeEthernet(bytes) ==
    LET available == Least(Len(bytes), ETHERNET_HEADER_LENGTH)
        range == ByteRange(0, available)
    IN  <<Tree("ethernet", Node("ethernet", range, Leaves(EthernetLayout, 0, available)))>>
            \o OnlyIf(available < ETHERNET_HEADER_LENGTH, Diagnostic("TRUNCATED_PROTOCOL", range))

VlanLayout == <<Number("tag_protocol_identifier", 0, 2), Number("tag_control_information", 2, 2),
                Number("priority_code_point", 2, 2), Number("drop_eligible", 2, 2),
                Number("vlan_identifier", 2, 2), Number("inner_ether_type", 4, 2)>>

\* The tag starts with the type field of the Ethernet header.
DecodeVlan(bytes) ==
    LET end == Least(Len(bytes), VLAN_HEADER_END)
        range == ByteRange(12, end - 12)
    IN  <<Tree("vlan", Node("vlan", range, Leaves(VlanLayout, 12, end - 12)))>>
            \o OnlyIf(end < VLAN_HEADER_END, Diagnostic("TRUNCATED_PROTOCOL", range))

\* A type the decoder knows but does not decode, with all that follows it.
UnsupportedEncapsulation(bytes, type_offset, root, type) ==
    LET payload == type_offset + 2
    IN  Tree("unsupported",
             Node(root, ByteRange(type_offset, Len(bytes) - type_offset),
                  <<Leaf(type, ByteRange(type_offset, 2)),
                    Data("data", ByteRange(payload, Len(bytes) - payload))>>))

\* What dispatch_ether_type shows of a type it does not decode; of an unknown one, nothing.
ShowEtherType(bytes, ether_type, type_offset) ==
    CASE ether_type <= 1500 ->
            <<UnsupportedEncapsulation(bytes, type_offset, "ieee_802_3", "length")>>
      [] ether_type \in 1501 .. ETHERNET_TYPE_MINIMUM - 1 ->
            <<Diagnostic("MALFORMED_PROTOCOL", ByteRange(type_offset, 2)),
              UnsupportedEncapsulation(bytes, type_offset, "ambiguous_type_or_length",
                                       "type_or_length")>>
      [] ether_type \in {ETHER_TYPE_PROVIDER_VLAN, ETHER_TYPE_LEGACY_VLAN} ->
            <<UnsupportedEncapsulation(bytes, type_offset, "provider_vlan", "encapsulation")>>
      [] ether_type = ETHER_TYPE_VLAN ->
            <<UnsupportedEncapsulation(bytes, type_offset, "stacked_vlan", "encapsulation")>>
      [] OTHER -> <<>>
-----------------------------------------------------------------------------
(* ARP                                                                     *)

ArpTypes == <<Number("hardware_type", 0, 2), Number("protocol_type", 2, 2),
              Number("hardware_address_length", 4, 1), Number("protocol_address_length", 5, 1)>>

ArpAddresses == <<Bytes("sender_hardware_address", 8, 6), Bytes("sender_protocol_address", 14, 4),
                  Bytes("target_hardware_address", 18, 6), Bytes("target_protocol_address", 24, 4)>>

\* A request or a reply also says so.
AddArpLayer(bytes, offset, length, decode_addresses) ==
    LET known == length >= 8 /\ ReadU16(bytes, offset + 6) \in {1, 2}
        layout == ArpTypes \o <<Number("operation", 6, 2)>>
                      \o (IF known THEN <<Number("is_request", 6, 2), Number("is_reply", 6, 2)>>
                          ELSE <<>>)
                      \o (IF decode_addresses THEN ArpAddresses ELSE <<>>)
    IN  Tree("arp", Node("arp", ByteRange(offset, length), Leaves(layout, offset, length)))

AddUnsupportedArp(offset, declared_length) ==
    Tree("unsupported",
         Node("unsupported_arp_addressing", ByteRange(offset, declared_length),
              Leaves(ArpTypes \o <<Bytes("data", 8, declared_length - ARP_FIXED_HEADER_LENGTH)>>,
                     offset, declared_length)))

AddUnsupportedOperation(offset) ==
    LET range == ByteRange(offset + 6, 2)
    IN  Tree("unsupported", Node("unsupported_arp_operation", range, <<Leaf("operation", range)>>))

DecodeArp(bytes, offset) ==
    LET available == Len(bytes) - offset
        fixed == ByteRange(offset, ARP_FIXED_HEADER_LENGTH)
        ethernet == ReadU16(bytes, offset) = 1
        ipv4 == ReadU16(bytes, offset + 2) = ETHER_TYPE_IPV4
        hardware_length == Octet(bytes, offset + 4)
        protocol_length == Octet(bytes, offset + 5)
        declared == ARP_FIXED_HEADER_LENGTH + 2 * (hardware_length + protocol_length)
        supported == ethernet /\ ipv4 /\ hardware_length = 6 /\ protocol_length = 4
        contradictory == \/ ethernet /\ hardware_length # 6
                         \/ ipv4 /\ protocol_length # 4
        truncated == Diagnostic("TRUNCATED_PROTOCOL", ByteRange(offset, available))
    IN  CASE available < ARP_FIXED_HEADER_LENGTH ->
                <<AddArpLayer(bytes, offset, available, FALSE), truncated>>
          [] available >= ARP_FIXED_HEADER_LENGTH /\ available < declared ->
                <<AddArpLayer(bytes, offset, available, supported),
                  IF contradictory THEN Diagnostic("MALFORMED_PROTOCOL", fixed) ELSE truncated>>
          [] available >= ARP_FIXED_HEADER_LENGTH /\ available >= declared /\ ~supported ->
                <<AddArpLayer(bytes, offset, ARP_FIXED_HEADER_LENGTH, FALSE)>>
                    \o OnlyIf(contradictory, Diagnostic("MALFORMED_PROTOCOL", fixed))
                    \o <<AddUnsupportedArp(offset, declared)>>
          [] OTHER ->
                <<AddArpLayer(bytes, offset, ARP_ETHERNET_IPV4_LENGTH, TRUE)>>
                    \o OnlyIf(ReadU16(bytes, offset + 6) \notin {1, 2},
                              AddUnsupportedOperation(offset))
=============================================================================
