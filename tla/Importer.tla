------------------------------ MODULE Importer ------------------------------
(***************************************************************************)
(* The incremental capture importer (CaptureImporter and DatasetBuilder in *)
(* packet-core/src/import.rs): a caller steps it with a budget of records  *)
(* and bytes until it is ready, then finishes it into a validated dataset. *)
(*                                                                         *)
(* A capture is the sequence of the records or blocks its bytes frame.  A  *)
(* block carries what the code reads of it; lengths and offsets are bytes, *)
(* as in the file.  A step that fails keeps what it had done before it     *)
(* failed and may be retried, with a decoder that may fare better.         *)
(***************************************************************************)
EXTENDS PacketSink

CONSTANTS Captures,   \* the files: format, blocks, length and limits of each
          Budgets     \* the budgets of a step: records, bytes

VARIABLES file,       \* the file and the limits it is imported with
          importer,   \* the importer with its builder, or None
          answer,     \* what the last call returned
          dataset     \* the dataset of a finished importer, or None

vars == <<file, importer, answer, dataset>>

Limits == file.limits
Legacy == file.format = "Pcap"

\* The kinds of limit, each a counter of what is admitted.
LimitKinds == {"CaptureBytes", "BlockBytes", "ItemsPerBlock", "ItemsPerStep", "Packets",
               "Sections", "Interfaces", "Diagnostics", "StringBytes", "Layers",
               "LayersPerPacket", "Fields", "FieldsPerPacket", "FieldChildren",
               "FieldChildrenPerPacket"}

\* validate_limits
ASSUME LimitsAssumption ==
    \A c \in Captures : LET l == c.limits IN
        /\ l \in [LimitKinds -> Nat]
        /\ l.BlockBytes >= 32
        /\ l.ItemsPerBlock > 0
        /\ l.ItemsPerStep >= l.ItemsPerBlock
        /\ \A kind \in {"Packets", "Sections", "Interfaces", "Diagnostics", "LayersPerPacket",
                        "FieldsPerPacket", "FieldChildrenPerPacket", "StringBytes"} : l[kind] > 0
        /\ l.Layers >= l.LayersPerPacket
        /\ l.Fields >= l.FieldsPerPacket
        /\ l.FieldChildren >= l.FieldChildrenPerPacket
-----------------------------------------------------------------------------
(* Framing                                                                 *)

Padded(n) == 4 * ((n + 3) \div 4)

IsOption(o) ==
    /\ o.code \in STRING
    /\ o.length \in Nat
    /\ o.code = "tsresol" /\ o.length = 1 => o.value \in Resolutions
    /\ o.code = "tsoffset" /\ o.length = 8 => o.value \in Int
    /\ o.code = "name" => o.value \in Optional(Texts)

IsSequence(s) == s \in Seq(Range(s))

HasCalls(block) == IsSequence(block.calls) /\ \A call \in Range(block.calls) : IsCall(call)

\* A record of a PCAP file, or its header; a block of a PCAPNG file.
IsRecord(block) ==
    \/ block.kind = "Header" /\ block.snap \in Nat
    \/ /\ block.kind = "Record"
       /\ block.captured \in Nat /\ block.original \in Nat
       /\ block.seconds \in Int /\ block.fraction \in Nat
       /\ HasCalls(block)

IsBlock(block) ==
    /\ block.kind \notin {"Header", "Record"}
    /\ block.declared \in Nat /\ block.captured \in Nat
    /\ IsSequence(block.options) /\ \A o \in Range(block.options) : IsOption(o)
    /\ block.kind = "SHB" => block.section_length \in Int
    /\ block.kind = "IDB" => block.snap \in Nat
    /\ block.kind = "EPB" => block.interface \in Nat /\ block.ticks \in Nat
    /\ block.kind \in {"EPB", "SPB"} => block.original \in Nat /\ HasCalls(block)

RecordHeader(c) == IF c.modified THEN 24 ELSE 16

\* The bytes a record or block claims for itself.
DeclaredIn(c, block) == CASE block.kind = "Header" -> 24
                          [] block.kind = "Record" -> RecordHeader(c) + block.captured
                          [] OTHER -> block.declared

\* Where the i-th begins.
OffsetIn(c, i) ==
    LET offset[n \in 1 .. Len(c.blocks) + 1] ==
            IF n = 1 THEN 0 ELSE offset[n - 1] + DeclaredIn(c, c.blocks[n - 1])
    IN  offset[i]

\* A section header without the byte-order magic, or a length no block has.
BadLength(block) == \/ block.kind = "SHB" /\ ~block.magic
                    \/ block.declared < 12
                    \/ block.declared % 4 # 0

\* What the bytes of a file frame. A PCAP file has a header before its records, and a
\* PCAPNG file is recognized by the section it starts with. What follows the last record
\* or block is too short to be another, or is not framed because its length is not one.
ASSUME FilesAssumption ==
    \A c \in Captures :
        LET count == Len(c.blocks)
            rest == c.length - OffsetIn(c, count + 1)
        IN  /\ c.length \in Nat
            /\ IsSequence(c.blocks) /\ c.blocks # <<>>
            /\ c.format = "Pcap" =>
                  /\ c.modified \in BOOLEAN /\ c.resolution \in Resolutions
                  /\ \A i \in 1 .. count : /\ IsRecord(c.blocks[i])
                                           /\ c.blocks[i].kind = "Header" <=> i = 1
                  /\ rest < RecordHeader(c)
            /\ c.format # "Pcap" =>
                  /\ \A i \in 1 .. count : IsBlock(c.blocks[i])
                  /\ c.blocks[1].kind = "SHB"
                  /\ rest < 12 \/ BadLength(c.blocks[count])

ASSUME BudgetsAssumption == Budgets \subseteq [records : Nat, bytes : Nat]

\* The resolution of an interface that names none (10^6 ticks).
DefaultResolution == [base |-> 10, exponent |-> 6]
ASSUME ResolutionAssumption == DefaultResolution \in Resolutions

LegacyHeaderLength == RecordHeader(file)

Upcoming(m) == file.blocks[m.at]
Left(m) == file.length - m.consumed

Declared(block) == DeclaredIn(file, block)

\* Too few bytes are left to know how long the next record is.
NoLengthHint(m) == Left(m) < CASE ~Legacy -> 12
                               [] Legacy /\ m.initialized -> LegacyHeaderLength
                               [] OTHER -> 24

BadLengthHint(m) == ~Legacy /\ BadLength(Upcoming(m))

\* The header of a legacy file has no ceiling.
Oversized(m) == /\ Declared(Upcoming(m)) > Limits.BlockBytes
                /\ ~(Legacy /\ ~m.initialized)

\* A section that declares its length ends with a block.
RespectsSection(m) ==
    \/ Legacy
    \/ m.current = None
    \/ m.current.declared_end = None
    \/ /\ Upcoming(m).kind = "SHB"
       /\ m.consumed = m.current.declared_end
    \/ /\ Upcoming(m).kind # "SHB"
       /\ m.consumed + Declared(Upcoming(m)) <= m.current.declared_end

SectionBoundaryMatches(m, end) ==
    \/ m.current = None
    \/ m.current.declared_end \in {None, end}

Framed(block) == /\ block.declared >= 12
                 /\ block.declared % 4 = 0
                 /\ block.trailing = block.declared

ValidSection(block) == \/ block.section_length = -1
                       \/ block.section_length >= 0 /\ block.section_length % 4 = 0

ValidVersion(block) == block.major = 1 /\ block.minor \in {0, 2}

\* Where the options of a block start: after its fixed part and its padded payload.
FixedPart == [SHB |-> 24, IDB |-> 16, EPB |-> 28, NRB |-> 8, ISB |-> 20, DSB |-> 16, PIB |-> 12]
OptionsStart(block) == FixedPart[block.kind] + Padded(block.captured)

\* One option or name record: its header, the ceiling, then its padded value.
ScanItem(scan, item, end) ==
    LET header == scan.cursor + 4
        next == header + Padded(item.length)
    IN  IF scan.out # "Continue" \/ scan.cursor >= end THEN scan
        ELSE IF header > end THEN [scan EXCEPT !.out = "InvalidHeader"]
        ELSE IF scan.items >= Limits.ItemsPerBlock THEN [scan EXCEPT !.out = "ItemsPerBlock"]
        ELSE [cursor |-> next, items |-> scan.items + 1,
              out |-> IF next > end \/ (item.code = "EndOfNames" /\ item.length # 0)
                      THEN "InvalidHeader" ELSE "Continue"]

\* What prevalidation lets pcap-parser decode, before it allocates for it.
Prevalidate(block) ==
    LET end == block.declared - 4
        start == [cursor |-> OptionsStart(block), items |-> 0, out |-> "Continue"]
        endless == block.kind = "NRB" /\ \A i \in DOMAIN block.options :
                                            block.options[i].code # "EndOfNames"
        scanned[n \in 0 .. Len(block.options)] ==
            IF n = 0 THEN start ELSE ScanItem(scanned[n - 1], block.options[n], end)
        scan == scanned[Len(block.options)]
        refused == [items |-> 0, out |-> "InvalidHeader"]
    IN  IF ~Framed(block) THEN refused
        ELSE IF block.kind \notin DOMAIN FixedPart THEN [items |-> 0, out |-> "Continue"]
        ELSE IF start.cursor > end \/ (block.kind = "SHB" /\ ~ValidSection(block)) THEN refused
        ELSE IF scan.out = "Continue" /\ endless THEN refused
        ELSE [items |-> scan.items, out |-> scan.out]
-----------------------------------------------------------------------------
(* DatasetBuilder                                                          *)

BlockRange(m) == ByteRange(m.consumed, Declared(Upcoming(m)))

CloseSectionAt(m, end) ==
    IF m.current = None THEN m
    ELSE [m EXCEPT !.sections[m.current.index] =
                        [byte_range |-> ByteRange(m.current.start, end - m.current.start),
                         interfaces |-> SpanFrom(m.current.interface_start, m.interfaces)],
                   !.current = None]

\* The header of a legacy file: one section over the whole file, one interface.
ProcessLegacyHeader(m) ==
    Continue([m EXCEPT
        !.sections = <<[byte_range |-> ByteRange(0, file.length), interfaces |-> ByteRange(0, 1)]>>,
        !.interfaces = <<[section |-> 1, section_index |-> 1, byte_range |-> ByteRange(0, 24),
                          snap |-> Upcoming(m).snap, offset |-> 0, name |-> None,
                          resolution |-> file.resolution]>>,
        !.initialized = TRUE])

ProcessSectionHeader(m) ==
    LET block == Upcoming(m)
        closed == CloseSectionAt(m, m.consumed)
        interfaces == Len(m.interfaces)
        open == [index |-> Len(m.sections) + 1, start |-> m.consumed, interface_start |-> interfaces,
                 declared_end |-> IF block.section_length < 0 THEN None
                                  ELSE m.consumed + block.declared + block.section_length]
    IN  IF ~ValidVersion(block) \/ ~ValidSection(block) \/ ~SectionBoundaryMatches(m, m.consumed)
        THEN Fails(m, "StopMalformed")
        ELSE IF ~Reserve(m, m.sections, 1, "Sections").holds THEN Fails(closed, "Sections")
        ELSE Continue([closed EXCEPT
                 !.sections = Append(@, [byte_range |-> ByteRange(m.consumed, 0),
                                         interfaces |-> ByteRange(interfaces, 0)]),
                 !.current = open])

\* The first option of a code decides, also when it is malformed; of the names the
\* first that is one.
OptionsOf(block, code) == {i \in DOMAIN block.options : block.options[i].code = code}

Least(S) == CHOOSE i \in S : \A j \in S : i <= j

InterfaceOptions(block) ==
    LET first(code, width, default) ==
            LET found == OptionsOf(block, code)
                option == block.options[Least(found)]
            IN  CASE found = {} -> [value |-> default, malformed |-> FALSE]
                  [] OTHER -> IF option.length = width
                              THEN [value |-> option.value, malformed |-> FALSE]
                              ELSE [value |-> default, malformed |-> TRUE]
        names == OptionsOf(block, "name")
        named == {i \in names : block.options[i].value # None}
        name == IF named = {} THEN None ELSE block.options[Least(named)].value
        resolution == first("tsresol", 1, DefaultResolution)
        offset == first("tsoffset", 8, 0)
    IN  [resolution |-> resolution.value, offset |-> offset.value, name |-> name,
         malformed |-> \/ resolution.malformed
                       \/ offset.malformed
                       \/ names # {} /\ block.options[Least(names)].value = None]

\* r: the builder once the diagnostic of malformed options is written, or could not be.
PushInterface(r, block, bytes, options) ==
    IF r.out # "Continue" THEN r
    ELSE Continue([r.b EXCEPT !.interfaces =
             Append(@, [section |-> r.b.current.index,
                        section_index |-> Len(r.b.interfaces) + 1 - r.b.current.interface_start,
                        byte_range |-> bytes, snap |-> block.snap,
                        offset |-> options.offset, resolution |-> options.resolution,
                        name |-> IF options.name = None THEN None
                                 ELSE StringId(r.b, options.name)])])

OpenInterface(m, options) ==
    LET named == IF options.name = None THEN m ELSE Intern(m, options.name)
        refusal == FirstRefusal(<<
            Condition(m.current # None, "StopMalformed"),
            Reserve(m, m.interfaces, 1, "Interfaces"),
            Condition(options.name # None => InternRoom(m, options.name).holds, "StringBytes")>>)
    IN  IF refusal # "Continue" THEN Fails(m, refusal)
        ELSE PushInterface(IF options.malformed
                           THEN AddDiagnostic(named, "INVALID_TIMESTAMP", None, BlockRange(m))
                           ELSE Continue(named),
                           Upcoming(m), BlockRange(m), options)

ProcessInterface(m) == OpenInterface(m, InterfaceOptions(Upcoming(m)))

PushPacket(m, packet) ==
    LET t == packet.timestamp
        earliest == m.started_at = None \/ (t # None /\ Earlier(t, m.started_at))
        latest == m.ended_at = None \/ (t # None /\ Earlier(m.ended_at, t))
    IN  [m EXCEPT !.packets = Append(@, packet),
                  !.started_at = IF t # None /\ earliest THEN t ELSE @,
                  !.ended_at = IF t # None /\ latest THEN t ELSE @]

\* The diagnostics of the record itself, then the decoder's calls, then the packet.
Note(r, code, packet, evidence) ==
    IF r.out # "Continue" THEN r ELSE AddDiagnostic(r.b, code, packet, evidence)

Decode(r, packet, data, calls) ==
    IF r.out # "Continue" THEN r ELSE DecodePacket(r.b, packet, data, calls)

Commit(r, m, p, start) ==
    IF r.out # "Continue" THEN r
    ELSE Continue(PushPacket(r.b,
             [section |-> p.section, interface |-> p.interface, timestamp |-> p.timestamp,
              captured_length |-> p.data.length, original_length |-> p.original, data |-> p.data,
              layers |-> SpanFrom(Len(m.layers), r.b.layers),
              diagnostics |-> SpanFrom(start, r.b.diagnostics)]))

\* What the three kinds of packet records share. An attempt that failed has left the
\* diagnostics of the record behind, and they are not written again.
Retain(m, p, notes, fails) ==
    LET id == Len(m.packets) + 1
        start == DiagnosticStart(m, id)
        retrying == start # Len(m.diagnostics)
        calls == Upcoming(m).calls \o (IF fails THEN <<[op |-> "fail"]>> ELSE <<>>)
        noted[n \in 0 .. Len(notes)] ==
            IF n = 0 THEN Continue(m) ELSE Note(noted[n - 1], notes[n], id, p.data)
    IN  IF ~Reserve(m, m.packets, 1, "Packets").holds THEN Fails(m, "Packets")
        ELSE Commit(Decode(noted[IF retrying THEN 0 ELSE Len(notes)], id, p.data, calls), m, p, start)

Notes(inconsistent, timestamp) ==
    (IF inconsistent THEN <<"INCONSISTENT_LENGTH">> ELSE <<>>)
        \o (IF timestamp = None THEN <<"INVALID_TIMESTAMP">> ELSE <<>>)

ProcessLegacyPacket(m, fails) ==
    LET block == Upcoming(m)
        timestamp == Timestamp(block.seconds, block.fraction, m.interfaces[1].resolution)
        inconsistent == \/ block.captured > m.interfaces[1].snap
                        \/ block.captured > block.original
    IN  Retain(m, [section |-> 1, interface |-> 1, timestamp |-> timestamp, original |-> block.original,
                   data |-> ByteRange(m.consumed + LegacyHeaderLength, block.captured)],
               Notes(inconsistent, timestamp), fails)

\* decode_pcapng_timestamp: an unrepresentable resolution keeps all ticks as the fraction.
PcapngTimestamp(ticks, interface) ==
    LET second == TicksPerSecond(interface.resolution)
        whole == IF second = None THEN 0 ELSE ticks \div second
        fraction == IF second = None THEN ticks ELSE ticks % second
    IN  IF whole + interface.offset > MAX_SECONDS THEN None
        ELSE Timestamp(whole + interface.offset, fraction, interface.resolution)

\* Mutant: a packet without an interface is skipped without a word.
SkipSilently(m) == Continue(m)

MissingInterface(m) == AddDiagnostic(m, "INCONSISTENT_LENGTH", None, BlockRange(m))

ProcessEnhancedPacket(m, fails) ==
    LET block == Upcoming(m)
        index == m.current.interface_start + block.interface + 1
        interface == m.interfaces[index]
        timestamp == PcapngTimestamp(block.ticks, interface)
        inconsistent == \/ interface.snap # 0 /\ block.captured > interface.snap
                        \/ block.captured > block.original
    IN  IF m.current = None THEN Fails(m, "StopMalformed")
        ELSE IF index \notin DOMAIN m.interfaces THEN MissingInterface(m)
        ELSE IF \/ interface.section # m.current.index
                \/ block.declared < 32 + Padded(block.captured) THEN Fails(m, "StopMalformed")
        ELSE Retain(m, [section |-> interface.section, interface |-> index,
                        timestamp |-> timestamp, original |-> block.original,
                        data |-> ByteRange(m.consumed + 28, block.captured)],
                    Notes(inconsistent, timestamp), fails)

\* A simple packet has no time, and the length of its data is implied.
ProcessSimplePacket(m, fails) ==
    LET block == Upcoming(m)
        index == m.current.interface_start + 1
        interface == m.interfaces[index]
        captured == IF interface.snap = 0 \/ block.original < interface.snap THEN block.original
                    ELSE interface.snap
    IN  IF m.current = None THEN Fails(m, "StopMalformed")
        ELSE IF index \notin DOMAIN m.interfaces THEN MissingInterface(m)
        ELSE IF \/ interface.section # m.current.index
                \/ Padded(captured) # block.declared - 16 THEN Fails(m, "StopMalformed")
        ELSE Retain(m, [section |-> interface.section, interface |-> index, timestamp |-> None,
                        original |-> block.original,
                        data |-> ByteRange(m.consumed + 12, captured)], <<>>, fails)

Process(m, fails) ==
    LET kind == Upcoming(m).kind
    IN  CASE kind = "Header" -> ProcessLegacyHeader(m)
          [] kind = "Record" -> ProcessLegacyPacket(m, fails)
          [] kind = "SHB" -> ProcessSectionHeader(m)
          [] kind = "IDB" -> ProcessInterface(m)
          [] kind = "EPB" -> ProcessEnhancedPacket(m, fails)
          [] kind = "SPB" -> ProcessSimplePacket(m, fails)
          [] OTHER -> AddDiagnostic(m, "UNSUPPORTED_BLOCK", None, BlockRange(m))
-----------------------------------------------------------------------------
(* CaptureImporter::step                                                   *)

Close(r, end) == IF r.out # "Continue" THEN r
                 ELSE Continue(CloseSectionAt([r.b EXCEPT !.complete = TRUE], end))

\* The reader stops for good; if even the diagnostic fails, a later step tries again.
Stop(m, code, evidence, end) ==
    Close(AddDiagnostic(m, code, None, evidence), end)

StopTruncated(m) ==
    Stop(m, "TRUNCATED_RECORD", ByteRange(m.consumed, Left(m)), file.length)

StopMalformed(m, parsed) ==
    LET evidence == IF parsed < Left(m) THEN parsed ELSE Left(m)
    IN  Stop(m, "INVALID_CAPTURE_HEADER", ByteRange(m.consumed, evidence), m.consumed)

\* The reader is at the end of the file, or of what is left of it.
AtEndOfFile(m) ==
    CASE ~SectionBoundaryMatches(m, file.length) -> StopMalformed(m, 0)
      [] SectionBoundaryMatches(m, file.length) /\ Left(m) > 0 -> StopTruncated(m)
      [] OTHER -> Continue(CloseSectionAt([m EXCEPT !.complete = TRUE], file.length))

\* A call in progress: the importer, what the call has spent and how it ended, if it has.
Return(s, kind) == [s EXCEPT !.kind = kind]
Ready(s, r) == [s EXCEPT !.m = r.b, !.kind = IF r.out = "Continue" THEN "Ready" ELSE r.out]

Advance(s, r, items) ==
    LET length == Declared(Upcoming(s.m))
        after == [m |-> [r.b EXCEPT !.at = @ + 1, !.consumed = @ + length, !.records = @ + 1],
                  records |-> s.records + 1, bytes |-> s.bytes + length, items |-> s.items + items,
                  kind |-> IF s.items + items >= Limits.ItemsPerStep THEN "Progress" ELSE "Going"]
    IN  CASE r.out = "Continue" -> after
          [] r.out = "StopMalformed" -> Ready(s, StopMalformed(r.b, length))
          [] OTHER -> [s EXCEPT !.m = r.b, !.kind = r.out]

\* Mutant: what the call has consumed is not taken from its budget.
WholeBudget(s, budget) == budget.bytes

RemainingBudget(s, budget) == budget.bytes - s.bytes

\* One turn of the loop: the early returns in their order, then one block.
Turn(s, budget, fails) ==
    LET m == s.m
        length == Declared(Upcoming(m))
        scan == IF Legacy THEN [items |-> 0, out |-> "Continue"] ELSE Prevalidate(Upcoming(m))
    IN  IF s.records >= budget.records THEN Return(s, "Progress")
        ELSE IF NoLengthHint(m) THEN Ready(s, AtEndOfFile(m))
        ELSE IF BadLengthHint(m) THEN Ready(s, StopMalformed(m, 12))
        ELSE IF Oversized(m) THEN Return(s, "BlockBytes")
        ELSE IF ~RespectsSection(m) THEN Ready(s, StopMalformed(m, 12))
        ELSE IF length > Left(m) THEN Ready(s, StopTruncated(m))
        ELSE IF length > RemainingBudget(s, budget)
             THEN Return(s, IF s.records = 0 THEN "NeedsBudget" ELSE "Progress")
        ELSE IF scan.out = "InvalidHeader" THEN Ready(s, StopMalformed(m, length))
        ELSE IF scan.out # "Continue" THEN Return(s, scan.out)
        ELSE IF s.items + scan.items > Limits.ItemsPerStep THEN Return(s, "Progress")
        ELSE IF ~Upcoming(m).readable THEN Ready(s, StopMalformed(m, 0))
        ELSE Advance(s, Process(m, fails), scan.items)

RunStep(m, budget, fails) ==
    LET start == [m |-> m, records |-> 0, bytes |-> 0, items |-> 0, kind |-> "Going"]
        after[n \in 0 .. Len(file.blocks) + 1] ==
            IF n = 0 THEN start
            ELSE LET s == after[n - 1]
                 IN  IF s.kind # "Going" THEN s ELSE Turn(s, budget, fails)
    IN  IF budget.records = 0 \/ budget.bytes = 0 THEN Return(start, "InvalidStepBudget")
        ELSE IF m.complete THEN Return(start, "Ready")
        ELSE after[Len(file.blocks) + 1]
-----------------------------------------------------------------------------
(* The calls of the importer's owner                                       *)

\* new_internal: the limit on the file and the preflight of its first header.
Preflight ==
    LET first == file.blocks[1]
        scan == Prevalidate(first)
    IN  IF file.length > Limits.CaptureBytes THEN "CaptureBytes"
        ELSE IF Legacy THEN IF file.length < 24 THEN "TruncatedInput"
                            ELSE IF first.valid THEN "Created" ELSE "InvalidHeader"
        ELSE IF file.length < 12 THEN "TruncatedInput"
        ELSE IF ~first.magic THEN "InvalidHeader"
        ELSE IF first.declared > Limits.BlockBytes THEN "BlockBytes"
        ELSE IF first.declared > file.length THEN "TruncatedInput"
        ELSE IF scan.out # "Continue" THEN scan.out
        ELSE IF ValidVersion(first) THEN "Created" ELSE "InvalidHeader"

NewImporter == [at |-> 1, consumed |-> 0, records |-> 0, complete |-> FALSE, limits |-> Limits,
                initialized |-> FALSE, current |-> None, started_at |-> None, ended_at |-> None,
                sections |-> <<>>, interfaces |-> <<>>, packets |-> <<>>, layers |-> <<>>,
                fields |-> <<>>, field_children |-> <<>>, diagnostics |-> <<>>, strings |-> <<>>]

Answer(kind) == [kind |-> kind, budget |-> None, minimum |-> 0]

\* The dataset a builder is finished into.
DatasetOf(m) ==
    LET closed == CloseSectionAt(m, file.length)
    IN  [byte_length |-> file.length, packet_count |-> Len(m.packets),
         started_at |-> m.started_at, ended_at |-> m.ended_at,
         sections |-> closed.sections, interfaces |-> m.interfaces, packets |-> m.packets,
         layers |-> m.layers, fields |-> m.fields, field_children |-> m.field_children,
         diagnostics |-> m.diagnostics, strings |-> m.strings]

Init == /\ file \in Captures
        /\ importer = None
        /\ answer = Answer("None")
        /\ dataset = None

New == /\ answer.kind = "None"
       /\ importer' = IF Preflight = "Created" THEN NewImporter ELSE None
       /\ answer' = Answer(Preflight)
       /\ UNCHANGED <<file, dataset>>

StepAnswer(s, budget) ==
    [kind |-> s.kind, budget |-> budget,
     minimum |-> IF s.kind = "NeedsBudget" THEN Declared(Upcoming(s.m)) ELSE 0]

\* fails: the decoder reports an error for the first packet it is given in this call.
Step(budget, fails) ==
    LET s == RunStep(importer, budget, fails)
    IN  /\ importer # None
        /\ importer' = s.m
        /\ answer' = StepAnswer(s, budget)
        /\ UNCHANGED <<file, dataset>>

Finish == /\ importer # None
          /\ importer' = None
          /\ LET finished == DatasetOf(importer)
             IN  IF ~importer.complete
                 THEN answer' = Answer("NotReady") /\ UNCHANGED dataset
                 ELSE IF Validate(finished)
                 THEN answer' = Answer("Finished") /\ dataset' = finished
                 ELSE answer' = Answer("ModelError") /\ UNCHANGED dataset
          /\ UNCHANGED file

Cancel == /\ importer # None
          /\ importer' = None
          /\ answer' = Answer("Cancelled")
          /\ UNCHANGED <<file, dataset>>

Next == \/ New
        \/ \E budget \in Budgets, fails \in BOOLEAN : Step(budget, fails)
        \/ Finish
        \/ Cancel

Spec == Init /\ [][Next]_vars
-----------------------------------------------------------------------------
(* Properties                                                              *)

Offset(i) == OffsetIn(file, i)

OpenSections ==
    [index : Nat, start : Nat, interface_start : Nat, declared_end : Optional(Nat)]

Builders ==
    [at : Nat, consumed : Nat, records : Nat, complete : BOOLEAN, limits : [LimitKinds -> Nat],
     initialized : BOOLEAN, current : Optional(OpenSections),
     started_at : Optional(CaptureTimestamp), ended_at : Optional(CaptureTimestamp),
     sections : Seq(SectionMetadata), interfaces : Seq(InterfaceMetadata),
     packets : Seq(PacketRecord), layers : Seq(LayerFact), fields : Seq(DecodedField),
     field_children : Seq(Nat), diagnostics : Seq(DiagnosticRecord), strings : Seq(Texts)]

ASSUME NoImporterAssumption == None \notin OpenSections /\ None \notin Builders

\* The arenas of a builder stay under their ceilings.
WithinLimits(b) ==
    /\ Len(b.packets) <= b.limits["Packets"]
    /\ Len(b.sections) <= b.limits["Sections"]
    /\ Len(b.interfaces) <= b.limits["Interfaces"]
    /\ Len(b.diagnostics) <= b.limits["Diagnostics"]
    /\ Len(b.layers) <= b.limits["Layers"]
    /\ Len(b.fields) <= b.limits["Fields"]
    /\ Len(b.field_children) <= b.limits["FieldChildren"]
    /\ Len(b.strings) <= b.limits["StringBytes"]

\* The builder's arenas stay under their ceilings and the importer's counters agree
\* with what it has consumed; only a finished importer leaves a dataset.
TypeOK ==
    /\ file \in Captures
    /\ importer # None =>
          /\ importer \in Builders
          /\ importer.at \in 1 .. Len(file.blocks) + 1
          /\ importer.records = importer.at - 1
          /\ importer.consumed = Offset(importer.at)
          /\ importer.limits = Limits
          /\ WithinLimits(importer)
    /\ dataset # None => dataset \in CaptureDataset
    /\ dataset # None <=> answer.kind = "Finished"

\* An importer that is ready can always be finished: whatever the file, wherever it
\* was damaged, however often a step failed and was retried, what the builder holds
\* passes the validation of the canonical model.
FinishSucceeds ==
    importer # None /\ importer.complete => Validate(DatasetOf(importer))

\* The importer that has read the same file in full steps that never fail: further
\* steps change nothing.
Undisturbed ==
    LET whole == [records |-> 1000, bytes |-> file.length + 1]
        read[n \in 0 .. Len(file.blocks) + 1] ==
            IF n = 0 THEN NewImporter ELSE RunStep(read[n - 1], whole, FALSE).m
    IN  read[CHOOSE n \in 0 .. Len(file.blocks) + 1 : read[n].complete]

\* What an import yields does not depend on the budgets of its steps, nor on the
\* decodes that failed and were rolled back on the way.
StepsLeaveNoTrace ==
    importer # None /\ importer.complete => importer = Undisturbed

\* Each record before the reader has left exactly one thing in the builder, at its own
\* bytes: a section, an interface, a packet, or a diagnostic that says why not. What
\* a ready importer has not read, a diagnostic covers from its first byte.
Products(m, i) ==
    LET block == file.blocks[i]
        bytes == ByteRange(Offset(i), Declared(block))
        said(codes) == {g \in DOMAIN m.diagnostics : /\ m.diagnostics[g].scope = None
                                                     /\ m.diagnostics[g].byte_range = bytes
                                                     /\ m.diagnostics[g].code \in codes}
    IN  CASE block.kind = "SHB" ->
                {n \in DOMAIN m.sections : m.sections[n].byte_range.start = bytes.start}
          [] block.kind \in {"Header", "IDB"} ->
                {n \in DOMAIN m.interfaces : m.interfaces[n].byte_range = bytes}
          [] block.kind \in {"Record", "EPB", "SPB"} ->
                {n \in DOMAIN m.packets : /\ Covers(bytes, m.packets[n].data)
                                           /\ m.packets[n].data.start > bytes.start}
                    \cup said({"INCONSISTENT_LENGTH"})
          [] OTHER -> said({"UNSUPPORTED_BLOCK"})

NothingIsSkippedSilently ==
    importer # None =>
        /\ \A i \in 1 .. importer.at - 1 : Cardinality(Products(importer, i)) = 1
        /\ importer.complete /\ Left(importer) > 0 =>
              \E g \in DOMAIN importer.diagnostics :
                  /\ importer.diagnostics[g].scope = None
                  /\ importer.diagnostics[g].byte_range.start = importer.consumed
                  /\ importer.diagnostics[g].code \in {"TRUNCATED_RECORD", "INVALID_CAPTURE_HEADER"}

\* A step stays within its budget; one that reports progress has made some; and one
\* that is given the budget the last one asked for does not ask again.
StepsAdvance ==
    [][importer # None /\ importer' # None =>
          LET spent == importer'.consumed - importer.consumed
          IN  /\ spent <= answer'.budget.bytes
              /\ importer'.records - importer.records <= answer'.budget.records
              /\ answer'.kind = "Progress" => spent > 0
              /\ answer'.kind = "NeedsBudget" => /\ spent = 0
                                                /\ answer'.minimum > answer'.budget.bytes
              /\ /\ answer.kind = "NeedsBudget"
                 /\ answer'.budget.bytes >= answer.minimum
                 /\ answer'.budget.records > 0
                 => answer'.kind # "NeedsBudget"]_vars

\* tests/import.rs: a time that cannot be represented is diagnosed.
UnrepresentableTimesAreDiagnosed ==
    importer # None =>
        \A i \in DOMAIN importer.packets :
            LET p == importer.packets[i]
            IN  /\ p.timestamp = None
                /\ \E n \in 1 .. importer.at - 1 :
                      /\ file.blocks[n].kind \in {"Record", "EPB"}
                      /\ Covers(ByteRange(Offset(n), Declared(file.blocks[n])), p.data)
                => \E g \in Entries(p.diagnostics) :
                      importer.diagnostics[g].code = "INVALID_TIMESTAMP"
=============================================================================
