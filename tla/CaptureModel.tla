---------------------------- MODULE CaptureModel ----------------------------
(***************************************************************************)
(* The canonical capture dataset (packet-core/src/model.rs, range.rs,      *)
(* timestamp.rs): arenas of sections, interfaces, packets, layers, fields  *)
(* and diagnostics that refer to one another by index and by span, and the *)
(* validation every dataset passes before anyone may read it.              *)
(*                                                                         *)
(* An identity is the position of its entry in a sequence, from 1 where    *)
(* the code counts from 0; a span still counts the entries before it.      *)
(***************************************************************************)
EXTENDS Integers, Sequences, FiniteSets

CONSTANTS None,                 \* Option::None
          MAX_TICK_EXPONENT,    \* the largest exponent whose ticks fit in a u64
          MAX_SECONDS           \* i64::MAX

ASSUME ModelAssumption == /\ MAX_TICK_EXPONENT \in Nat
                          /\ MAX_SECONDS \in Nat
-----------------------------------------------------------------------------
(* Ranges                                                                  *)

ByteRange(start, length) == [start |-> start, length |-> length]

End(r) == r.start + r.length

IsWithin(r, length) == End(r) <= length

Covers(container, child) == /\ child.start >= container.start
                            /\ End(child) <= End(container)

\* The positions an arena span stands for.
Entries(span) == span.start + 1 .. End(span)

\* What the arena holds from a position of the builder on.
SpanFrom(start, arena) == ByteRange(start, Len(arena) - start)
-----------------------------------------------------------------------------
(* Timestamps                                                              *)

Denominator(resolution) == resolution.base ^ resolution.exponent

TicksPerSecond(resolution) ==
    IF resolution.exponent > MAX_TICK_EXPONENT THEN None ELSE Denominator(resolution)

\* CaptureTimestamp::new
Timestamp(seconds, fraction, resolution) ==
    LET ticks == TicksPerSecond(resolution)
    IN  IF ticks # None /\ fraction >= ticks THEN None
        ELSE [seconds |-> seconds, fraction |-> fraction, resolution |-> resolution]

\* Exact: each fraction is multiplied by the denominator of the other.
Earlier(s, t) ==
    \/ s.seconds < t.seconds
    \/ /\ s.seconds = t.seconds
       /\ s.fraction * Denominator(t.resolution) < t.fraction * Denominator(s.resolution)

Timed(packets) == {i \in DOMAIN packets : packets[i].timestamp # None}

\* The first of the packets with the earliest time, and with the latest.
IsEarliest(packets, i) ==
    \A j \in Timed(packets) : /\ ~Earlier(packets[j].timestamp, packets[i].timestamp)
                              /\ j < i => Earlier(packets[i].timestamp, packets[j].timestamp)

IsLatest(packets, i) ==
    \A j \in Timed(packets) : /\ ~Earlier(packets[i].timestamp, packets[j].timestamp)
                              /\ j < i => Earlier(packets[j].timestamp, packets[i].timestamp)

Earliest(packets) ==
    IF Timed(packets) = {} THEN None
    ELSE packets[CHOOSE i \in Timed(packets) : IsEarliest(packets, i)].timestamp

Latest(packets) ==
    IF Timed(packets) = {} THEN None
    ELSE packets[CHOOSE i \in Timed(packets) : IsLatest(packets, i)].timestamp
-----------------------------------------------------------------------------
(* The entries of the arenas, and the dataset                              *)

Optional(S) == S \cup {None}

\* The codes of the importer's own diagnostics are texts as those of a decoder are.
ImporterCodes == {"TRUNCATED_RECORD", "INVALID_CAPTURE_HEADER", "INVALID_TIMESTAMP",
                  "INCONSISTENT_LENGTH", "UNSUPPORTED_BLOCK"}

Texts == STRING \cup ImporterCodes

Ranges == [start : Int, length : Int]

\* A second has a positive number of ticks.
Resolutions == {r \in [base : {2, 10}, exponent : Nat] : Denominator(r) \in Nat \ {0}}

CaptureTimestamp == [seconds : Int, fraction : Nat, resolution : Resolutions]

SectionMetadata == [byte_range : Ranges, interfaces : Ranges]

InterfaceMetadata ==
    [section : Nat, section_index : Int, byte_range : Ranges, snap : Nat, offset : Int,
     resolution : Resolutions, name : Optional(Nat)]

PacketRecord ==
    [section : Nat, interface : Nat, timestamp : Optional(CaptureTimestamp),
     captured_length : Nat, original_length : Nat, data : Ranges,
     layers : Ranges, diagnostics : Ranges]

LayerFact == [protocol : Nat, byte_range : Ranges, root : Optional(Nat)]

DecodedField ==
    [name : Nat, bytes : Optional(Ranges), text : Optional(Nat), byte_range : Ranges,
     children : Ranges]

DiagnosticRecord == [code : Texts, scope : Optional(Nat), byte_range : Ranges, message : Nat]

CaptureDataset ==
    [byte_length : Nat, packet_count : Nat, started_at : Optional(CaptureTimestamp),
     ended_at : Optional(CaptureTimestamp), sections : Seq(SectionMetadata),
     interfaces : Seq(InterfaceMetadata), packets : Seq(PacketRecord), layers : Seq(LayerFact),
     fields : Seq(DecodedField), field_children : Seq(Nat), diagnostics : Seq(DiagnosticRecord),
     strings : Seq(Texts)]

\* The absent value is none of the values it stands beside.
ASSUME NoneAssumption ==
    /\ None \notin Nat
    /\ None \notin Texts
    /\ None \notin Ranges
    /\ None \notin CaptureTimestamp
    /\ None \notin CaptureDataset

-----------------------------------------------------------------------------
(* CaptureDataset::validate                                                *)

HasString(d, id) == id \in DOMAIN d.strings

ArenaRangeFits(span, arena) == End(span) <= Len(arena)

\* Every entry of an arena belongs to exactly one span of its owners.
OwnedOnce(owned, spans) ==
    \A e \in owned : Cardinality({k \in DOMAIN spans : e \in Entries(spans[k])}) = 1

ValidMetadata(d) == /\ d.packet_count = Len(d.packets)
                    /\ d.started_at = Earliest(d.packets)
                    /\ d.ended_at = Latest(d.packets)

ValidSections(d) ==
    /\ \A i \in DOMAIN d.sections :
          LET section == d.sections[i]
          IN  /\ IsWithin(section.byte_range, d.byte_length)
              /\ i > 1 => section.byte_range.start >= End(d.sections[i - 1].byte_range)
              /\ ArenaRangeFits(section.interfaces, d.interfaces)
              /\ \A e \in Entries(section.interfaces) :
                    /\ d.interfaces[e].section = i
                    /\ d.interfaces[e].section_index = e - section.interfaces.start
    /\ OwnedOnce(DOMAIN d.interfaces, [i \in DOMAIN d.sections |-> d.sections[i].interfaces])

ValidInterfaces(d) ==
    \A i \in DOMAIN d.interfaces :
        LET interface == d.interfaces[i]
        IN  /\ interface.section \in DOMAIN d.sections
            /\ Covers(d.sections[interface.section].byte_range, interface.byte_range)
            /\ interface.name # None => HasString(d, interface.name)

ValidPackets(d) ==
    /\ \A i \in DOMAIN d.packets :
          LET p == d.packets[i]
          IN  /\ p.section \in DOMAIN d.sections
              /\ p.interface \in DOMAIN d.interfaces
              /\ d.interfaces[p.interface].section = p.section
              /\ p.timestamp # None =>
                    p.timestamp.resolution = d.interfaces[p.interface].resolution
              /\ p.data.length = p.captured_length
              /\ IsWithin(p.data, d.byte_length)
              /\ Covers(d.sections[p.section].byte_range, p.data)
              /\ ArenaRangeFits(p.layers, d.layers)
              /\ ArenaRangeFits(p.diagnostics, d.diagnostics)
              /\ \A l \in Entries(p.layers) : Covers(p.data, d.layers[l].byte_range)
              /\ \A g \in Entries(p.diagnostics) :
                    /\ d.diagnostics[g].scope = i
                    /\ d.diagnostics[g].byte_range # None =>
                          Covers(p.data, d.diagnostics[g].byte_range)
    /\ OwnedOnce(DOMAIN d.layers, [i \in DOMAIN d.packets |-> d.packets[i].layers])
    /\ OwnedOnce({g \in DOMAIN d.diagnostics : d.diagnostics[g].scope # None},
                 [i \in DOMAIN d.packets |-> d.packets[i].diagnostics])

\* How many children spans name a field, and how many layers have it as their root.
Parents(d, f) == Cardinality({c \in DOMAIN d.field_children : d.field_children[c] = f})
Roots(d, f) == Cardinality({l \in DOMAIN d.layers : d.layers[l].root = f})

ValidFields(d) ==
    /\ \A i \in DOMAIN d.fields :
          LET field == d.fields[i]
          IN  /\ IsWithin(field.byte_range, d.byte_length)
              /\ ArenaRangeFits(field.children, d.field_children)
              /\ \A c \in Entries(field.children) :
                    LET child == d.field_children[c]
                    IN  /\ child > i
                        /\ child \in DOMAIN d.fields
                        /\ Covers(field.byte_range, d.fields[child].byte_range)
              /\ HasString(d, field.name)
              /\ field.text # None => HasString(d, field.text)
              /\ field.bytes # None => Covers(field.byte_range, field.bytes)
              /\ Parents(d, i) + Roots(d, i) = 1
    /\ OwnedOnce(DOMAIN d.field_children, [i \in DOMAIN d.fields |-> d.fields[i].children])
    /\ \A l \in DOMAIN d.layers :
          LET layer == d.layers[l]
          IN  layer.root # None =>
                 /\ layer.root \in DOMAIN d.fields
                 /\ Covers(layer.byte_range, d.fields[layer.root].byte_range)

ValidLayersAndDiagnostics(d) ==
    /\ \A l \in DOMAIN d.layers : /\ HasString(d, d.layers[l].protocol)
                                  /\ IsWithin(d.layers[l].byte_range, d.byte_length)
    /\ \A g \in DOMAIN d.diagnostics :
          LET diagnostic == d.diagnostics[g]
          IN  /\ HasString(d, diagnostic.message)
              /\ diagnostic.byte_range # None =>
                    IsWithin(diagnostic.byte_range, d.byte_length)
              /\ diagnostic.scope # None => diagnostic.scope \in DOMAIN d.packets

Validate(d) == /\ ValidMetadata(d)
               /\ ValidSections(d)
               /\ ValidInterfaces(d)
               /\ ValidPackets(d)
               /\ ValidFields(d)
               /\ ValidLayersAndDiagnostics(d)
=============================================================================
