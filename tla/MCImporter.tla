----------------------------- MODULE MCImporter -----------------------------
(***************************************************************************)
(* The captures the importer is checked on.                                *)
(***************************************************************************)
EXTENDS ImportedCapture

Option(code, length, value) == [code |-> code, length |-> length, value |-> value]
OptionBytes(options) ==
    FoldLeft(LAMBDA total, o : total + 4 + Padded(o.length), 0, options)

\* A well-framed block of a fixed size, of its payload and of its options.
Ng(kind, fixed, captured, options) ==
    LET declared == fixed + Padded(captured) + OptionBytes(options)
    IN  [kind |-> kind, declared |-> declared, trailing |-> declared, captured |-> captured,
         options |-> options, readable |-> TRUE, calls |-> <<>>]

SHB(section_length) ==
    Ng("SHB", 28, 0, <<>>) @@ [magic |-> TRUE, major |-> 1, minor |-> 0, section_length |-> section_length]
IDB(snap, options) == Ng("IDB", 20, 0, options) @@ [snap |-> snap]
EPB(interface, captured, original, ticks, calls) ==
    [calls |-> calls] @@ Ng("EPB", 32, captured, <<>>)
        @@ [interface |-> interface, original |-> original, ticks |-> ticks]
SPB(original, data, calls) == [calls |-> calls] @@ Ng("SPB", 16, data, <<>>) @@ [original |-> original]

Header(snap) == [kind |-> "Header", snap |-> snap, valid |-> TRUE, readable |-> TRUE]
Record(captured, original, seconds, fraction, calls) ==
    [kind |-> "Record", captured |-> captured, original |-> original, seconds |-> seconds,
     fraction |-> fraction, readable |-> TRUE, calls |-> calls]

Length(modified, blocks) ==
    FoldLeft(LAMBDA total, b : total + CASE b.kind = "Header" -> 24
                                         [] b.kind = "Record" -> b.captured + IF modified THEN 24 ELSE 16
                                         [] OTHER -> b.declared, 0, blocks)

Generous == [CaptureBytes |-> 2000, BlockBytes |-> 100, ItemsPerBlock |-> 3, ItemsPerStep |-> 4,
             Packets |-> 6, Sections |-> 3, Interfaces |-> 4, Diagnostics |-> 8, StringBytes |-> 16,
             Layers |-> 12, LayersPerPacket |-> 2, Fields |-> 24, FieldsPerPacket |-> 5,
             FieldChildren |-> 20, FieldChildrenPerPacket |-> 4]

Pcap(blocks, cut) ==
    [format |-> "Pcap", modified |-> FALSE, resolution |-> [base |-> 10, exponent |-> 1],
     blocks |-> blocks, length |-> Length(FALSE, blocks) - cut, limits |-> Generous]
PcapNg(blocks, cut) ==
    [format |-> "PcapNg", blocks |-> blocks, length |-> Length(FALSE, blocks) - cut, limits |-> Generous]

Field(name, start, length) ==
    [op |-> "field", name |-> name, start |-> start, length |-> length,
     bytes |-> None, text |-> None]
Bytes(name, start, length) ==
    [op |-> "field", name |-> name, start |-> start, length |-> length,
     bytes |-> ByteRange(start, length), text |-> None]
Children(parent, children) == [op |-> "children", parent |-> parent, children |-> children]
Layer(protocol, start, length, root) ==
    [op |-> "layer", protocol |-> protocol, start |-> start, length |-> length, root |-> root]
Report(code, start, length) == [op |-> "diagnostic", code |-> code, start |-> start, length |-> length]

\* Decoders of a packet of eight bytes.
Wide == <<Field("ip", 0, 8), Bytes("src", 0, 4), Field("dst", 4, 4), Field("gap", 4, 0),
          Children(1, <<2, 3, 4>>), Layer("ip", 0, 8, 1), Report("MALFORMED_PROTOCOL", 4, 4)>>
Deep == <<Field("ip", 0, 8), Field("src", 2, 4), Field("net", 2, 4), Children(2, <<3>>), Children(1, <<2>>),
          Layer("ip", 0, 8, 1), Field("tcp", 4, 4), Layer("tcp", 4, 4, 4)>>
Flat == <<Layer("data", 0, 8, None)>>
\* Decoders that break the rules of the sink.
Orphan == <<Field("ip", 0, 8), Field("src", 0, 4), Layer("ip", 0, 8, 1)>>
Shared == <<Field("ip", 0, 8), Field("src", 0, 4), Children(1, <<2>>), Layer("ip", 0, 4, 2)>>
Twice == <<Field("ip", 0, 8), Field("src", 0, 8), Field("net", 0, 4), Children(1, <<2, 3>>),
           Children(2, <<3>>), Layer("ip", 0, 8, 1)>>
Outside == <<Field("ip", 4, 8)>>
Stray == <<Bytes("ip", 0, 4), Report("MALFORMED_PROTOCOL", 6, 4)>>
Crowd == <<Layer("a", 0, 8, None), Layer("b", 0, 8, None), Layer("c", 0, 8, None)>>

Decimal(exponent) == Option("tsresol", 1, [base |-> 10, exponent |-> exponent])

CleanCaptures == {
    Pcap(<<Header(8), Record(8, 8, 5, 3, Wide), Record(8, 4, 4, 12, Deep), Record(8, 8, 7, 9, Flat)>>, 0),
    Pcap(<<Header(4), Record(8, 8, 5, 3, Deep), Record(8, 8, 5, 3, Wide)>>, 3),
    [Pcap(<<Header(8), Record(8, 8, 5, 3, Flat), Record(8, 8, 5, 2, Flat)>>, 0)
        EXCEPT !.modified = TRUE, !.length = 24 + 32 + 20],
    PcapNg(<<SHB(-1), SPB(8, 8, Flat), IDB(0, <<Option("tsresol", 2, None), Option("name", 4, "eth0")>>),
             EPB(0, 8, 8, 5, Wide), SPB(8, 8, Deep), EPB(1, 8, 8, 9, Flat), Ng("Unknown", 12, 4, <<>>),
             SHB(-1), IDB(4, <<Decimal(1)>>), EPB(0, 8, 8, 31, Deep)>>, 0),
    PcapNg(<<SHB(64), IDB(0, <<Decimal(1)>>), EPB(0, 8, 4, 25, Wide), SHB(-1), IDB(0, <<Decimal(2)>>),
             EPB(0, 8, 8, 240, Flat), EPB(0, 8, 8, 250, Flat), EPB(0, 8, 8, 251, Flat)>>, 8),
    PcapNg(<<SHB(28), IDB(0, <<Decimal(3), Option("tsoffset", 8, 7)>>), EPB(0, 8, 8, 250, Wide)>>, 0),
    PcapNg(<<SHB(40), IDB(0, <<Decimal(1)>>), EPB(0, 8, 8, 25, Wide)>>, 0),
    PcapNg(<<SHB(88), IDB(0, <<Decimal(1), Option("tsoffset", 8, 99)>>), EPB(0, 8, 8, 25, Wide)>>, 0),
    PcapNg(<<SHB(-1), IDB(0, <<Decimal(3)>>), EPB(0, 8, 8, 250, Wide), EPB(0, 8, 8, 25, Deep)>>, 30),
    PcapNg(<<SHB(-1), IDB(6, <<Option("name", 2, None), Option("name", 4, "lo")>>), SPB(8, 6, Flat)>>, 0),
    PcapNg(<<SHB(-1), IDB(0, <<Decimal(1), Decimal(2), Option("other", 0, None)>>),
             IDB(0, <<Decimal(1), Option("other", 3, None)>>),
             Ng("NRB", 12, 0, <<Option("A", 4, None), Option("EndOfNames", 0, None)>>),
             Ng("ISB", 24, 0, <<Option("other", 0, None)>>), Ng("DSB", 20, 5, <<>>),
             Ng("PIB", 16, 0, <<Option("other", 0, None), Option("other", 0, None),
                                Option("other", 0, None), Option("other", 0, None)>>)>>, 0),
    PcapNg(<<SHB(-1), [IDB(0, <<>>) EXCEPT !.trailing = 24]>>, 0),
    PcapNg(<<SHB(-1), Ng("NRB", 12, 0, <<Option("A", 4, None)>>)>>, 0),
    PcapNg(<<SHB(-1), [IDB(0, <<>>) EXCEPT !.readable = FALSE]>>, 0),
    PcapNg(<<SHB(-1), [SHB(-1) EXCEPT !.magic = FALSE]>>, 0),
    PcapNg(<<SHB(-1), [SHB(-1) EXCEPT !.minor = 1]>>, 0),
    PcapNg(<<SHB(-1), [IDB(0, <<>>) EXCEPT !.declared = 18]>>, 0),
    PcapNg(<<SHB(-1), SHB(-1), SHB(-1), SHB(-1)>>, 0),
    PcapNg(<<SHB(-1), IDB(0, <<>>), [SPB(8, 12, Flat) EXCEPT !.calls = <<>>]>>, 0),
    PcapNg(<<SHB(-1)>>, 20),
    PcapNg(<<[SHB(-1) EXCEPT !.major = 2]>>, 0),
    Pcap(<<Header(8), Record(0, 0, 5, 3, <<>>), Record(0, 0, 5, 3, <<>>)>>, 0),
    PcapNg(<<SHB(-1), [IDB(0, <<>>) EXCEPT !.declared = 8], Ng("Unknown", 12, 40, <<>>)>>, 0),
    Pcap(<<[Header(8) EXCEPT !.valid = FALSE]>>, 0),
    Pcap(<<Header(8)>>, 1),
    [Pcap(<<Header(8)>>, 0) EXCEPT !.limits.CaptureBytes = 20],
    [Pcap(<<Header(8), Record(80, 80, 0, 0, <<>>)>>, 0) EXCEPT !.limits.BlockBytes = 32],
    [Pcap(<<Header(8), Record(8, 8, 5, 3, Flat), Record(8, 8, 5, 3, Flat)>>, 0) EXCEPT !.limits.Packets = 1],
    [Pcap(<<Header(8), Record(8, 8, 5, 3, Wide), Record(8, 8, 5, 3, Deep)>>, 0)
        EXCEPT !.limits.Fields = 6],
    Pcap(<<Header(8), Record(8, 8, 5, 3, Wide), Record(8, 4, 5, 3, Orphan)>>, 0),
    Pcap(<<Header(8), Record(8, 8, 5, 3, Wide), Record(8, 4, 5, 3, Shared)>>, 0),
    Pcap(<<Header(8), Record(8, 8, 5, 3, Wide), Record(8, 4, 5, 3, Twice)>>, 0),
    Pcap(<<Header(8), Record(8, 8, 5, 3, Wide), Record(8, 4, 5, 3, Outside)>>, 0),
    Pcap(<<Header(8), Record(8, 8, 5, 3, Wide), Record(8, 4, 5, 3, Stray)>>, 0),
    Pcap(<<Header(8), Record(8, 8, 5, 3, Wide), Record(8, 4, 5, 3, Crowd)>>, 0)
    }

\* A packet that needs two diagnostics where there is room for one.
CrampedCaptures == {
    [Pcap(<<Header(8), Record(8, 4, 4, 12, Flat)>>, 0) EXCEPT !.limits.Diagnostics = 1] }

StepBudgets == [records : {1, 2, 100}, bytes : {30, 60, 1000}] \cup {[records |-> 0, bytes |-> 1000]}
=============================================================================
