--------------------------- MODULE ImporterProofs ---------------------------
(***************************************************************************)
(* What the importer holds after every call, for files of every content,   *)
(* limits and budgets of every size, and steps that fail and are retried.  *)
(*                                                                         *)
(* The argument follows the calls.  A builder is Sound when its arenas     *)
(* refer to one another as the validation of the model demands, but for    *)
(* the section that is open and the packet that is pending.  A call of the *)
(* sink is Answered, a decode Decoded or rolled back, a record Processed   *)
(* or refused, the reader Stopped where the capture ends, and a step       *)
(* Running within its budget; each leaves the builder Sound.               *)
(***************************************************************************)
EXTENDS Importer, FiniteSetTheorems, SequenceTheorems, WellFoundedInduction, TLAPS

-----------------------------------------------------------------------------
\* What a builder holds, while its last section may still be open.

SectionEnd(m, s) == IF m.current # None /\ s = m.current.index THEN m.consumed
                    ELSE End(m.sections[s].byte_range)

InterfaceStart(m, s) == IF m.current # None /\ s = m.current.index THEN m.current.interface_start
                        ELSE m.sections[s].interfaces.start

InterfaceEnd(m, s) == IF m.current # None /\ s = m.current.index THEN Len(m.interfaces)
                      ELSE End(m.sections[s].interfaces)

CurrentSection(m) ==
    m.current # None =>
        /\ ~Legacy /\ ~m.complete
        /\ m.current.index = Len(m.sections)
        /\ m.current.index \in DOMAIN m.sections
        /\ m.sections[m.current.index].byte_range.start = m.current.start
        /\ m.current.start <= m.consumed
        /\ m.current.interface_start <= Len(m.interfaces)

Sections(m) ==
    \A s \in DOMAIN m.sections :
        /\ SectionEnd(m, s) <= file.length
        /\ s > 1 => m.sections[s].byte_range.start >= End(m.sections[s - 1].byte_range)
        /\ ~Legacy /\ ~m.complete => SectionEnd(m, s) <= m.consumed
        /\ InterfaceStart(m, s) >= 0 /\ InterfaceEnd(m, s) <= Len(m.interfaces)

Interfaces(m) ==
    \A e \in DOMAIN m.interfaces :
        LET interface == m.interfaces[e]
            section == interface.section
        IN  /\ section \in DOMAIN m.sections
            /\ \A s \in DOMAIN m.sections :
                  e \in InterfaceStart(m, s) + 1 .. InterfaceEnd(m, s) <=> s = section
            /\ interface.section_index = e - InterfaceStart(m, section)
            /\ interface.byte_range.start >= m.sections[section].byte_range.start
            /\ End(interface.byte_range) <= SectionEnd(m, section)
            /\ interface.name # None => HasString(m, interface.name)

PacketWhole(m, p) ==
    /\ p.section \in DOMAIN m.sections
    /\ p.interface \in DOMAIN m.interfaces
    /\ m.interfaces[p.interface].section = p.section
    /\ p.timestamp # None => p.timestamp.resolution = m.interfaces[p.interface].resolution
    /\ p.data.length = p.captured_length
    /\ p.data.start >= m.sections[p.section].byte_range.start
    /\ End(p.data) <= SectionEnd(m, p.section)

PacketLayers(m) ==
    /\ \A i \in DOMAIN m.packets :
          LET p == m.packets[i]
          IN  /\ p.layers.start >= 0
              /\ End(p.layers) <= Len(m.layers)
              /\ \A l \in Entries(p.layers) : Covers(p.data, m.layers[l].byte_range)
    /\ \A l \in DOMAIN m.layers : \E i \in DOMAIN m.packets : \A j \in DOMAIN m.packets :
          l \in Entries(m.packets[j].layers) <=> j = i

PacketDiagnostics(m) ==
    \A i \in DOMAIN m.packets :
        LET p == m.packets[i]
        IN  /\ p.diagnostics.start >= 0
            /\ End(p.diagnostics) <= Len(m.diagnostics)
            /\ \A g \in DOMAIN m.diagnostics :
                  /\ g \in Entries(p.diagnostics) <=> m.diagnostics[g].scope = i
                  /\ m.diagnostics[g].scope = i => Covers(p.data, m.diagnostics[g].byte_range)

Diagnostics(m) ==
    \A g \in DOMAIN m.diagnostics :
        LET diagnostic == m.diagnostics[g]
        IN  /\ HasString(m, diagnostic.message)
            /\ IsWithin(diagnostic.byte_range, file.length)
            /\ diagnostic.scope # None => diagnostic.scope \in 1 .. Len(m.packets) + 1

Layers(m) ==
    \A l \in DOMAIN m.layers :
        LET layer == m.layers[l]
        IN  /\ HasString(m, layer.protocol)
            /\ IsWithin(layer.byte_range, file.length)
            /\ layer.root # None =>
                  /\ layer.root \in DOMAIN m.fields
                  /\ Covers(layer.byte_range, m.fields[layer.root].byte_range)

Fields(m) ==
    \A i \in DOMAIN m.fields :
        LET field == m.fields[i]
        IN  /\ IsWithin(field.byte_range, file.length)
            /\ field.children.start >= 0
            /\ End(field.children) <= Len(m.field_children)
            /\ \A c \in Entries(field.children) :
                  /\ m.field_children[c] > i
                  /\ m.field_children[c] \in DOMAIN m.fields
                  /\ Covers(field.byte_range, m.fields[m.field_children[c]].byte_range)
            /\ HasString(m, field.name)
            /\ field.text # None => HasString(m, field.text)
            /\ field.bytes # None => Covers(field.byte_range, field.bytes)
            /\ Parents(m, i) + Roots(m, i) = 1

FieldChildren(m) ==
    \A c \in DOMAIN m.field_children :
        /\ m.field_children[c] \in DOMAIN m.fields
        /\ \E f \in DOMAIN m.fields : \A j \in DOMAIN m.fields :
              c \in Entries(m.fields[j].children) <=> j = f

TimesOf(packets, earliest, latest) ==
    IF Timed(packets) = {} THEN earliest = None /\ latest = None
    ELSE /\ \E i \in Timed(packets) : IsEarliest(packets, i) /\ earliest = packets[i].timestamp
         /\ \E i \in Timed(packets) : IsLatest(packets, i) /\ latest = packets[i].timestamp

Times(m) == TimesOf(m.packets, m.started_at, m.ended_at)

\* Sections, their interfaces and the packets in them.
Skeleton(m) ==
    /\ CurrentSection(m)
    /\ Sections(m)
    /\ Interfaces(m)
    /\ \A i \in DOMAIN m.packets : PacketWhole(m, m.packets[i])

\* What the packets carry.
Trees(m) ==
    /\ PacketLayers(m)
    /\ PacketDiagnostics(m)
    /\ Diagnostics(m)
    /\ Layers(m)
    /\ Fields(m)
    /\ FieldChildren(m)
    /\ Times(m)

Whole(m) == Skeleton(m) /\ Trees(m)

-----------------------------------------------------------------------------
\* Where the importer is.

Position(m) ==
    /\ m.at \in 1 .. Len(file.blocks) + 1
    /\ m.records = m.at - 1
    /\ m.consumed = Offset(m.at)
    /\ m.consumed <= file.length
    /\ m.limits = Limits
    /\ m.complete => m.current = None
    /\ Legacy => /\ m.initialized <=> m.at > 1
                 /\ m.at = 1 => m.sections = <<>> /\ m.interfaces = <<>>
                 /\ m.at > 1 => /\ Len(m.sections) = 1 /\ Len(m.interfaces) = 1
                                /\ m.sections[1].byte_range = ByteRange(0, file.length)
    /\ ~Legacy => \A i \in 1 .. m.at - 1 : ~BadLength(file.blocks[i])

\* A packet record that will be retained, once nothing fails any more.
IndexOf(m) == m.current.interface_start + 1
                  + (IF Upcoming(m).kind = "EPB" THEN Upcoming(m).interface ELSE 0)

DataOf(m) ==
    LET block == Upcoming(m)
        snap == m.interfaces[IndexOf(m)].snap
    IN  CASE block.kind = "Record" -> ByteRange(m.consumed + LegacyHeaderLength, block.captured)
          [] block.kind = "EPB" -> ByteRange(m.consumed + 28, block.captured)
          [] block.kind = "SPB" ->
                ByteRange(m.consumed + 12, IF snap = 0 \/ block.original < snap THEN block.original
                                           ELSE snap)

Retains(m) ==
    LET block == Upcoming(m)
    IN  /\ block.kind \in {"Record", "EPB", "SPB"}
        /\ block.kind # "Record" =>
              /\ m.current # None
              /\ IndexOf(m) \in DOMAIN m.interfaces
              /\ m.interfaces[IndexOf(m)].section = m.current.index
        /\ block.kind = "EPB" => block.declared >= 32 + Padded(block.captured)
        /\ block.kind = "SPB" => Padded(DataOf(m).length) = block.declared - 16

Readable(m) ==
    /\ m.at <= Len(file.blocks)
    /\ ~NoLengthHint(m) /\ ~BadLengthHint(m) /\ ~Oversized(m) /\ RespectsSection(m)
    /\ Declared(Upcoming(m)) <= Left(m)
    /\ Legacy \/ Prevalidate(Upcoming(m)).out = "Continue"
    /\ Upcoming(m).readable

Pending(m) == {g \in DOMAIN m.diagnostics : m.diagnostics[g].scope = Len(m.packets) + 1}

Held(m) ==
    Pending(m) # {} =>
        /\ Readable(m) /\ Retains(m) /\ ~m.complete
        /\ \A g \in Pending(m) : /\ Covers(DataOf(m), m.diagnostics[g].byte_range)
                                 /\ g .. Len(m.diagnostics) \subseteq Pending(m)

\* What tells of the records before it.
Told(m) ==
    /\ \A i \in 1 .. m.at - 1 : \E x : Products(m, i) = {x}
    /\ ~Legacy => \A s \in DOMAIN m.sections : m.sections[s].byte_range.start < m.consumed
    /\ \A e \in DOMAIN m.interfaces : m.interfaces[e].byte_range.start < m.consumed
    /\ \A i \in DOMAIN m.packets : m.packets[i].data.start <= m.consumed
    /\ \A g \in DOMAIN m.diagnostics :
          m.diagnostics[g].scope = None /\ m.diagnostics[g].code \in {"INCONSISTENT_LENGTH", "UNSUPPORTED_BLOCK"}
          => m.diagnostics[g].byte_range.start < m.consumed
    /\ m.complete /\ Left(m) > 0 =>
          \E g \in DOMAIN m.diagnostics :
              /\ m.diagnostics[g].scope = None
              /\ m.diagnostics[g].byte_range.start = m.consumed
              /\ m.diagnostics[g].code \in {"TRUNCATED_RECORD", "INVALID_CAPTURE_HEADER"}

\* What a builder is after every call: the inductive invariant of the importer.
Sound(m) == /\ m \in Builders /\ WithinLimits(m)
            /\ Position(m) /\ Whole(m) /\ Held(m) /\ Told(m)

\* The invariant: a sound builder, the answers that went with it, and the dataset.
Inv ==
    /\ file \in Captures
    /\ importer # None => Sound(importer)
    /\ answer.kind = "None" => importer = None
    /\ answer.kind = "NeedsBudget" /\ importer # None => answer.minimum = Declared(Upcoming(importer))
    /\ dataset # None => dataset \in CaptureDataset
    /\ dataset # None <=> answer.kind = "Finished"
    /\ answer.kind = "Finished" => importer = None
-----------------------------------------------------------------------------
\* What is proved of every number is proved of the set of those it holds of, since no
\* number is the least of those outside.
LEMMA Induction ==
    ASSUME NEW T, 0 \in T, \A n \in Nat : n \in T => n + 1 \in T
    PROVE  Nat \subseteq T
<1> SUFFICES ASSUME Nat \ T # {} PROVE FALSE
  OBVIOUS
<1> DEFINE R == OpToRel(<, Nat)
<1> HIDE DEF R
<1>1. PICK n \in Nat \ T : \A m \in Nat \ T : <<m, n>> \notin R
  <2>1. IsWellFoundedOn(R, Nat)
    BY NatLessThanWellFounded DEF R
  <2>2. Nat \ T \subseteq Nat /\ Nat \ T # {}
    OBVIOUS
  <2>3. \E x \in Nat \ T : \A y \in Nat \ T : ~(<<y, x>> \in R)
    BY <2>1, <2>2, WFMin
  <2> QED BY <2>3
<1>2. n - 1 \in Nat /\ n - 1 < n /\ (n - 1) + 1 = n
  BY <1>1
<1>3. <<n - 1, n>> \in R
  <2>1. /\ <<n - 1, n>> \in Nat \X Nat
        /\ <<n - 1, n>>[1] < <<n - 1, n>>[2]
    BY <1>2
  <2> QED BY <2>1 DEF OpToRel, R
<1>4. n - 1 \in T
  BY <1>1, <1>2, <1>3
<1> QED BY <1>1, <1>2, <1>4

\* A set of numbers has a least one, and a greatest one when it is bounded.
LEMMA LeastExists ==
    ASSUME NEW S \in SUBSET Nat, S # {}
    PROVE  \E x \in S : \A y \in S : x <= y
<1> SUFFICES ASSUME \A x \in S : \E y \in S : y < x PROVE FALSE
  OBVIOUS
<1> DEFINE T == {n \in Nat : \A x \in S : n <= x}
<1>1. 0 \in T
  OBVIOUS
<1>2. ASSUME NEW n \in Nat, n \in T PROVE n + 1 \in T
  <2>1. \A x \in S : n < x
    BY <1>2
  <2> QED BY <2>1
<1>3. Nat \subseteq T
  <2> HIDE DEF T
  <2> QED BY <1>1, <1>2, Induction
<1>4. PICK x \in S : TRUE
  OBVIOUS
<1>5. x + 1 \in T
  BY <1>3
<1> QED BY <1>5

\* A bounded set of numbers has a greatest one.
LEMMA GreatestExists ==
    ASSUME NEW N \in Nat, NEW S \in SUBSET 0 .. N, S # {}
    PROVE  \E x \in S : \A y \in S : y <= x
<1> DEFINE U == {u \in Nat : \A x \in S : x <= u}
<1>1. N \in U
  OBVIOUS
<1>2. PICK u \in U : \A v \in U : u <= v
  <2>1. U \in SUBSET Nat /\ U # {}
    BY <1>1
  <2> HIDE DEF U
  <2> QED BY <2>1, LeastExists
<1>3. u \in S
  <2> SUFFICES ASSUME u \notin S PROVE FALSE
    OBVIOUS
  <2>1. \A x \in S : x < u
    BY <1>2
  <2>2. u - 1 \in U
    <3>1. u # 0
      <4>1. PICK x \in S : TRUE
        OBVIOUS
      <4> QED BY <2>1, <4>1
    <3>2. u - 1 \in Nat
      BY <3>1
    <3> QED BY <2>1, <3>2
  <2> QED BY <1>2, <2>2
<1> QED BY <1>2, <1>3

-----------------------------------------------------------------------------
\* Sequences that have grown, and builders of which only the arenas of decoding have.

Grows(s, t) == Len(s) <= Len(t) /\ \A i \in 1 .. Len(s) : t[i] = s[i]

Steady(b, c) ==
    /\ c.at = b.at /\ c.consumed = b.consumed /\ c.records = b.records /\ c.complete = b.complete
    /\ c.limits = b.limits /\ c.initialized = b.initialized /\ c.current = b.current
    /\ c.started_at = b.started_at /\ c.ended_at = b.ended_at /\ c.sections = b.sections
    /\ c.interfaces = b.interfaces /\ c.packets = b.packets

\* What is appended comes last and changes nothing before it.
LEMMA GrowsAppended ==
    ASSUME NEW S, NEW s \in Seq(S), NEW x \in S
    PROVE  /\ Append(s, x) \in Seq(S) /\ Len(Append(s, x)) = Len(s) + 1
           /\ Grows(s, Append(s, x)) /\ Append(s, x)[Len(s) + 1] = x
           /\ \A i \in 1 .. Len(s) : Append(s, x)[i] = s[i]
  BY DEF Grows

\* intern: a string that fits has an id afterwards, and only the strings have changed.
LEMMA Interned ==
    ASSUME NEW b \in Builders, NEW v \in Texts
    PROVE  LET c == Intern(b, v)
           IN  /\ c \in Builders /\ Steady(b, c)
               /\ c.layers = b.layers /\ c.fields = b.fields
               /\ c.field_children = b.field_children /\ c.diagnostics = b.diagnostics
               /\ Grows(b.strings, c.strings)
               /\ Len(b.strings) <= b.limits["StringBytes"] => Len(c.strings) <= c.limits["StringBytes"]
               /\ InternRoom(b, v).holds => StringId(c, v) \in DOMAIN c.strings
<1> DEFINE c == Intern(b, v)
<1>0. b.strings \in Seq(Texts)
  BY DEF Builders
<1>1. CASE Contains(b.strings, v) \/ ~InternRoom(b, v).holds
  <2>1. c = b
    BY <1>1 DEF Intern
  <2>2. InternRoom(b, v).holds => \E id \in DOMAIN c.strings : c.strings[id] = v
    BY <1>0, <1>1, <2>1 DEF Contains
  <2>3. InternRoom(b, v).holds => StringId(c, v) \in DOMAIN c.strings
    BY <2>2 DEF StringId
  <2> QED BY <2>1, <2>3 DEF Steady, Grows
<1>2. CASE ~(Contains(b.strings, v) \/ ~InternRoom(b, v).holds)
  <2>1. c = [b EXCEPT !.strings = Append(@, v)]
    BY <1>2 DEF Intern
  <2>2. c.strings = Append(b.strings, v)
    BY <2>1 DEF Builders
  <2>3. /\ Append(b.strings, v) \in Seq(Texts) /\ Len(Append(b.strings, v)) = Len(b.strings) + 1
        /\ Grows(b.strings, Append(b.strings, v)) /\ Append(b.strings, v)[Len(b.strings) + 1] = v
    BY <1>0, GrowsAppended
  <2>4. c \in Builders
    BY <2>1, <2>3 DEF Builders
  <2>5. Steady(b, c) /\ c.layers = b.layers /\ c.fields = b.fields
               /\ c.field_children = b.field_children /\ c.diagnostics = b.diagnostics
    BY <2>1 DEF Builders, Steady
  <2>6. Len(b.strings) + 1 \in DOMAIN c.strings
    BY <1>0, <2>2, <2>3
  <2>7. StringId(c, v) \in DOMAIN c.strings
    BY <2>2, <2>3, <2>6 DEF StringId
  <2>8. Len(b.strings) < b.limits["StringBytes"]
    BY <1>2 DEF InternRoom, Condition
  <2>9. b.limits["StringBytes"] \in Nat /\ c.limits = b.limits
    BY <2>5 DEF Steady, Builders, LimitKinds
  <2> QED BY <1>0, <2>2, <2>3, <2>4, <2>5, <2>7, <2>8, <2>9
<1> QED BY <1>1, <1>2

\* The errors of a sink, and of the decoder that calls it.
SinkErrors == {"StringBytes", "ByteRange", "FieldsPerPacket", "Fields", "FieldHierarchy",
               "FieldChildrenPerPacket", "FieldChildren", "LayersPerPacket", "Layers",
               "Diagnostics", "Decoder"}

Outcomes == {"Continue", "StopMalformed", "Packets", "Sections", "Interfaces"} \cup SinkErrors

Results == [b : Builders, out : Outcomes]

\* The first condition that does not hold gives the error, if there is one.
LEMMA RefusalIsFirst ==
    ASSUME NEW N \in Nat, NEW cs, DOMAIN cs = 1 .. N,
           \A i \in 1 .. N : cs[i].error # "Continue"
    PROVE  /\ FirstRefusal(cs) = "Continue" <=> \A i \in 1 .. N : cs[i].holds
           /\ FirstRefusal(cs) # "Continue" =>
                 \E i \in 1 .. N : /\ FirstRefusal(cs) = cs[i].error
                                   /\ ~cs[i].holds
                                   /\ \A j \in 1 .. i - 1 : cs[j].holds
<1> DEFINE failing == {i \in DOMAIN cs : ~cs[i].holds}
           first == CHOOSE i \in failing : \A j \in failing : i <= j
<1>1. CASE failing = {}
  <2>1. FirstRefusal(cs) = "Continue"
    BY <1>1 DEF FirstRefusal
  <2> QED BY <1>1, <2>1
<1>2. CASE failing # {}
  <2>1. \E i \in failing : \A j \in failing : i <= j
    <3>1. failing \in SUBSET Nat
      OBVIOUS
    <3> HIDE DEF failing
    <3> QED BY <1>2, <3>1, LeastExists
  <2>2. first \in failing /\ \A j \in failing : first <= j
    BY <2>1
  <2>3. FirstRefusal(cs) = cs[first].error
    BY <1>2 DEF FirstRefusal
  <2> HIDE DEF first
  <2>4. \A j \in 1 .. first - 1 : cs[j].holds
    BY <2>2
  <2> QED BY <2>2, <2>3, <2>4
<1> QED BY <1>1, <1>2

\* A diagnostic is written with its message, or nothing is.
Noted(b, code, scope, evidence, r) ==
    /\ r \in Results
    /\ r.out = "Continue" =>
          /\ Steady(b, r.b)
          /\ r.b.layers = b.layers /\ r.b.fields = b.fields
          /\ r.b.field_children = b.field_children
          /\ Grows(b.strings, r.b.strings)
          /\ Len(b.strings) <= b.limits["StringBytes"] =>
                Len(r.b.strings) <= b.limits["StringBytes"]
          /\ Len(r.b.diagnostics) <= b.limits["Diagnostics"]
          /\ \E d \in DiagnosticRecord :
                /\ r.b.diagnostics = Append(b.diagnostics, d)
                /\ d.code = code /\ d.scope = scope /\ d.byte_range = evidence
                /\ HasString(r.b, d.message)
    /\ r.out # "Continue" => r.b = b /\ r.out \in {"Diagnostics", "StringBytes"}

\* add_diagnostic: the diagnostic comes last, or the builder is what it was but for a
\* message.
LEMMA DiagnosticAdded ==
    ASSUME NEW b \in Builders, NEW code \in Texts, NEW scope \in Optional(Nat),
           NEW evidence \in Ranges
    PROVE  Noted(b, code, scope, evidence, AddDiagnostic(b, code, scope, evidence))
<1> DEFINE r == AddDiagnostic(b, code, scope, evidence)
           c == Intern(b, code)
           d == [code |-> code, scope |-> scope, byte_range |-> evidence, message |-> StringId(c, code)]
<1>1. CASE ~Reserve(b, b.diagnostics, 1, "Diagnostics").holds
  <2>1. r = Fails(b, "Diagnostics")
    BY <1>1 DEF AddDiagnostic, Reserve, Condition
  <2> QED BY <2>1 DEF Fails, Results, Outcomes, SinkErrors, Noted
<1>2. CASE Reserve(b, b.diagnostics, 1, "Diagnostics").holds /\ ~InternRoom(b, code).holds
  <2>1. r = Fails(b, "StringBytes")
    BY <1>2 DEF AddDiagnostic
  <2> QED BY <2>1 DEF Fails, Results, Outcomes, SinkErrors, Noted
<1>3. CASE Reserve(b, b.diagnostics, 1, "Diagnostics").holds /\ InternRoom(b, code).holds
  <2>1. r = Continue([c EXCEPT !.diagnostics = Append(@, d)])
    BY <1>3 DEF AddDiagnostic
  <2>2. /\ c \in Builders /\ Steady(b, c)
        /\ c.layers = b.layers /\ c.fields = b.fields
        /\ c.field_children = b.field_children /\ c.diagnostics = b.diagnostics
        /\ Grows(b.strings, c.strings)
        /\ Len(b.strings) <= b.limits["StringBytes"] => Len(c.strings) <= c.limits["StringBytes"]
        /\ StringId(c, code) \in DOMAIN c.strings
    BY <1>3, Interned
  <2> HIDE DEF c
  <2>3. c.strings \in Seq(Texts) /\ c.diagnostics \in Seq(DiagnosticRecord)
    BY <2>2 DEF Builders
  <2>4. StringId(c, code) \in Nat
    BY <2>2, <2>3
  <2>5. d \in DiagnosticRecord
    BY <2>4 DEF DiagnosticRecord
  <2>6. d.code = code /\ d.scope = scope /\ d.byte_range = evidence /\ d.message = StringId(c, code)
    OBVIOUS
  <2> HIDE DEF d
  <2>7. Append(c.diagnostics, d) \in Seq(DiagnosticRecord)
    BY <2>3, <2>5
  <2> DEFINE e == [c EXCEPT !.diagnostics = Append(@, d)]
  <2>8. e \in Builders
    BY <2>2, <2>7 DEF Builders
  <2>9. /\ Steady(b, e) /\ e.strings = c.strings /\ e.diagnostics = Append(c.diagnostics, d)
        /\ e.layers = b.layers /\ e.fields = b.fields /\ e.field_children = b.field_children
    BY <2>2 DEF Builders, Steady
  <2> HIDE DEF e
  <2>10. r.b = e /\ r.out = "Continue" /\ r \in Results
    BY <2>1, <2>8 DEF Continue, Results, Outcomes, e
  <2>11. Len(e.diagnostics) <= b.limits["Diagnostics"]
    <3>1. Len(b.diagnostics) + 1 <= b.limits["Diagnostics"]
      BY <1>3 DEF Reserve, Condition
    <3> QED BY <2>2, <2>3, <2>9, <3>1
  <2>12. HasString(e, d.message)
    BY <2>2, <2>6, <2>9 DEF HasString
  <2>13. c.limits = b.limits
    BY <2>2 DEF Steady
  <2> HIDE DEF r
  <2> QED BY <2>2, <2>5, <2>6, <2>9, <2>10, <2>11, <2>12, <2>13 DEF Noted, r
<1> QED BY <1>1, <1>2, <1>3

-----------------------------------------------------------------------------
\* One packet is being decoded: a is the builder the decoder was given, b what its calls
\* have made of it.

Added(s, t) == Len(s) + 1 .. Len(t)

Kept(a, b) ==
    /\ Steady(a, b)
    /\ Grows(a.layers, b.layers) /\ Grows(a.fields, b.fields)
    /\ Grows(a.field_children, b.field_children) /\ Grows(a.diagnostics, b.diagnostics)
    /\ Grows(a.strings, b.strings)

Ceilings(b) ==
    /\ Len(b.layers) <= b.limits["Layers"] /\ Len(b.fields) <= b.limits["Fields"]
    /\ Len(b.field_children) <= b.limits["FieldChildren"]
    /\ Len(b.diagnostics) <= b.limits["Diagnostics"]
    /\ Len(b.strings) <= b.limits["StringBytes"]

NewField(a, b, data, f) ==
    LET field == b.fields[f]
    IN  /\ Covers(data, field.byte_range)
        /\ field.bytes # None => Covers(field.byte_range, field.bytes)
        /\ HasString(b, field.name)
        /\ field.text # None => HasString(b, field.text)
        /\ field.children.start >= 0 /\ End(field.children) <= Len(b.field_children)
        /\ \A c \in Entries(field.children) :
              /\ c > Len(a.field_children)
              /\ b.field_children[c] > f
              /\ b.field_children[c] \in Added(a.fields, b.fields)
              /\ Covers(field.byte_range, b.fields[b.field_children[c]].byte_range)

OneOwner(a, b, c) ==
    \E f \in Added(a.fields, b.fields) : \A j \in Added(a.fields, b.fields) :
        c \in Entries(b.fields[j].children) <=> j = f

NewLayer(a, b, data, l) ==
    LET layer == b.layers[l]
    IN  /\ HasString(b, layer.protocol)
        /\ Covers(data, layer.byte_range)
        /\ layer.root # None => /\ layer.root \in Added(a.fields, b.fields)
                                /\ Covers(layer.byte_range, b.fields[layer.root].byte_range)

NewDiagnostic(b, packet, data, g) ==
    LET diagnostic == b.diagnostics[g]
    IN  /\ HasString(b, diagnostic.message)
        /\ diagnostic.scope = packet
        /\ Covers(data, diagnostic.byte_range)

\* b: a builder in the midst of a decode that began with a.
Decoding(a, b, packet, data) ==
    /\ Kept(a, b) /\ Ceilings(b)
    /\ \A f \in Added(a.fields, b.fields) : NewField(a, b, data, f)
    /\ \A c \in Added(a.field_children, b.field_children) : OneOwner(a, b, c)
    /\ \A l \in Added(a.layers, b.layers) : NewLayer(a, b, data, l)
    /\ \A g \in Added(a.diagnostics, b.diagnostics) : NewDiagnostic(b, packet, data, g)

Sinks == [packet : Nat, data : Ranges, layers : Nat, fields : Nat, field_children : Nat,
          diagnostics : Nat, strings : Nat]

\* k: the sink of a decode that begins with a.
Begun(a, k) ==
    /\ k \in Sinks
    /\ k.layers = Len(a.layers) /\ k.fields = Len(a.fields)
    /\ k.field_children = Len(a.field_children) /\ k.diagnostics = Len(a.diagnostics)
    /\ k.strings = Len(a.strings)

\* The arenas of a builder are sequences of their entries, and their ceilings are numbers.
LEMMA ArenasTyped ==
    ASSUME NEW b \in Builders
    PROVE  /\ b.sections \in Seq(SectionMetadata) /\ b.interfaces \in Seq(InterfaceMetadata)
           /\ b.packets \in Seq(PacketRecord) /\ b.layers \in Seq(LayerFact)
           /\ b.fields \in Seq(DecodedField) /\ b.field_children \in Seq(Nat)
           /\ b.diagnostics \in Seq(DiagnosticRecord) /\ b.strings \in Seq(Texts)
           /\ Len(b.sections) \in Nat /\ Len(b.interfaces) \in Nat /\ Len(b.packets) \in Nat
           /\ Len(b.layers) \in Nat /\ Len(b.fields) \in Nat /\ Len(b.field_children) \in Nat
           /\ Len(b.diagnostics) \in Nat /\ Len(b.strings) \in Nat
           /\ \A kind \in LimitKinds : b.limits[kind] \in Nat
<1>1. /\ b.sections \in Seq(SectionMetadata) /\ b.interfaces \in Seq(InterfaceMetadata)
      /\ b.packets \in Seq(PacketRecord) /\ b.layers \in Seq(LayerFact)
      /\ b.fields \in Seq(DecodedField) /\ b.field_children \in Seq(Nat)
      /\ b.diagnostics \in Seq(DiagnosticRecord) /\ b.strings \in Seq(Texts)
      /\ b.limits \in [LimitKinds -> Nat]
  BY DEF Builders
<1> QED BY <1>1, SMTT(30)

\* A sequence that grows twice has grown.
LEMMA GrowsAgain ==
    ASSUME NEW S, NEW r \in Seq(S), NEW s \in Seq(S), NEW t \in Seq(S), Grows(r, s), Grows(s, t)
    PROVE  Grows(r, t)
  BY DEF Grows

\* Interning keeps what a decode must not touch.
LEMMA KeptWithStrings ==
    ASSUME NEW a \in Builders, NEW b \in Builders, NEW c \in Builders, Kept(a, b), Steady(b, c),
           c.layers = b.layers, c.fields = b.fields, c.field_children = b.field_children,
           c.diagnostics = b.diagnostics, Grows(b.strings, c.strings)
    PROVE  Kept(a, c)
<1>1. Grows(a.strings, c.strings)
  BY ArenasTyped, GrowsAgain DEF Kept
<1>2. Steady(a, c)
  BY DEF Kept, Steady
<1> QED BY <1>1, <1>2 DEF Kept

\* What was decoded keeps its strings when there are more.
LEMMA DecodingWithStrings ==
    ASSUME NEW a \in Builders, NEW b \in Builders, NEW c \in Builders, NEW packet, NEW data,
           Decoding(a, b, packet, data), Steady(b, c),
           c.layers = b.layers, c.fields = b.fields, c.field_children = b.field_children,
           c.diagnostics = b.diagnostics, Grows(b.strings, c.strings),
           Len(c.strings) <= c.limits["StringBytes"]
    PROVE  Decoding(a, c, packet, data)
<1>1. Kept(a, c)
  BY KeptWithStrings DEF Decoding
<1>2. Ceilings(c)
  BY DEF Decoding, Ceilings, Steady
<1>3. \A id : HasString(b, id) => HasString(c, id)
  BY ArenasTyped DEF HasString, Grows
<1>4. \A f \in Added(a.fields, c.fields) : NewField(a, c, data, f)
  BY <1>3 DEF Decoding, NewField
<1>5. \A i \in Added(a.field_children, c.field_children) : OneOwner(a, c, i)
  BY DEF Decoding, OneOwner
<1>6. \A l \in Added(a.layers, c.layers) : NewLayer(a, c, data, l)
  BY <1>3 DEF Decoding, NewLayer
<1>7. \A g \in Added(a.diagnostics, c.diagnostics) : NewDiagnostic(c, packet, data, g)
  BY <1>3 DEF Decoding, NewDiagnostic
<1> QED BY <1>1, <1>2, <1>4, <1>5, <1>6, <1>7 DEF Decoding

\* What a call of a decoder on its sink may do.
Answered(a, packet, data, r) ==
    /\ r \in Results
    /\ Kept(a, r.b)
    /\ r.out = "Continue" => Decoding(a, r.b, packet, data)
    /\ r.out # "Continue" => r.out \in SinkErrors

\* The types of a call of add_field.
LEMMA FieldCall ==
    ASSUME NEW call, IsCall(call), call.op = "field"
    PROVE  /\ call.name \in Texts /\ call.text \in Optional(Texts)
           /\ call.start \in Nat /\ call.length \in Nat /\ call.bytes \in Optional(Ranges)
  BY DEF IsCall

\* A field within the packet, with strings of the builder and no children yet, may come
\* last in a decode.
LEMMA FieldAppended ==
    ASSUME NEW a \in Builders, NEW c \in Builders, NEW packet, NEW data,
           Decoding(a, c, packet, data), NEW field \in DecodedField,
           Covers(data, field.byte_range),
           field.bytes # None => Covers(field.byte_range, field.bytes),
           HasString(c, field.name),
           field.text # None => HasString(c, field.text),
           field.children = ByteRange(0, 0),
           Len(c.fields) + 1 <= c.limits["Fields"]
    PROVE  LET d == [c EXCEPT !.fields = Append(@, field)]
           IN  d \in Builders /\ Decoding(a, d, packet, data)
<1> DEFINE d == [c EXCEPT !.fields = Append(@, field)]
<1>1. c.fields \in Seq(DecodedField) /\ a.fields \in Seq(DecodedField)
  BY ArenasTyped
<1>2. /\ Append(c.fields, field) \in Seq(DecodedField)
      /\ Len(Append(c.fields, field)) = Len(c.fields) + 1
      /\ Grows(c.fields, Append(c.fields, field))
      /\ Append(c.fields, field)[Len(c.fields) + 1] = field
      /\ \A i \in 1 .. Len(c.fields) : Append(c.fields, field)[i] = c.fields[i]
  BY <1>1, GrowsAppended
<1>3. d \in Builders
  BY <1>2 DEF Builders
<1>4. /\ Steady(c, d) /\ d.fields = Append(c.fields, field)
      /\ d.layers = c.layers /\ d.field_children = c.field_children
      /\ d.diagnostics = c.diagnostics /\ d.strings = c.strings
  BY DEF Builders, Steady
<1> HIDE DEF d
<1>5. Kept(a, d)
  <2>1. Grows(a.fields, d.fields)
    BY <1>1, <1>2, <1>4, GrowsAgain DEF Decoding, Kept
  <2>2. Steady(a, d)
    BY <1>4 DEF Decoding, Kept, Steady
  <2> QED BY <1>4, <2>1, <2>2 DEF Decoding, Kept
<1>6. Ceilings(d)
  BY <1>1, <1>2, <1>4 DEF Decoding, Ceilings, Steady
<1>7. /\ Added(a.fields, d.fields) = Added(a.fields, c.fields) \cup {Len(c.fields) + 1}
      /\ \A f \in Added(a.fields, c.fields) : d.fields[f] = c.fields[f] /\ f # Len(c.fields) + 1
      /\ d.fields[Len(c.fields) + 1] = field
  BY <1>1, <1>2, <1>4 DEF Added, Decoding, Kept, Grows
<1>8. Entries(field.children) = {}
  BY DEF Entries, End, ByteRange
<1>9. ASSUME NEW f \in Added(a.fields, d.fields) PROVE NewField(a, d, data, f)
  <2>1. CASE f = Len(c.fields) + 1
    <3>1. field.children.start = 0 /\ End(field.children) = 0
      BY DEF ByteRange, End
    <3>2. Len(d.field_children) \in Nat
      BY <1>3, ArenasTyped
    <3> QED BY <1>4, <1>7, <1>8, <2>1, <3>1, <3>2 DEF NewField, HasString
  <2>2. CASE f \in Added(a.fields, c.fields)
    BY <1>4, <1>7, <2>2 DEF Decoding, NewField, HasString
  <2> QED BY <1>7, <2>1, <2>2
<1>10. ASSUME NEW i \in Added(a.field_children, d.field_children) PROVE OneOwner(a, d, i)
  <2>1. PICK f \in Added(a.fields, c.fields) : \A j \in Added(a.fields, c.fields) :
            i \in Entries(c.fields[j].children) <=> j = f
    BY <1>4 DEF Decoding, OneOwner
  <2> QED BY <1>7, <1>8, <2>1 DEF OneOwner
<1>11. ASSUME NEW l \in Added(a.layers, d.layers) PROVE NewLayer(a, d, data, l)
  <2>1. NewLayer(a, c, data, l)
    BY <1>4 DEF Decoding
  <2> QED BY <1>4, <1>7, <2>1 DEF NewLayer, HasString
<1>12. ASSUME NEW g \in Added(a.diagnostics, d.diagnostics) PROVE NewDiagnostic(d, packet, data, g)
  BY <1>4 DEF Decoding, NewDiagnostic, HasString
<1> QED BY <1>3, <1>5, <1>6, <1>9, <1>10, <1>11, <1>12 DEF Decoding, d

\* PacketDecodeSink::add_field answers with a field that belongs to the decode, or refuses.
LEMMA AddFieldAnswered ==
    ASSUME NEW a \in Builders, NEW b \in Builders, NEW k, Begun(a, k),
           Decoding(a, b, k.packet, k.data), NEW call, IsCall(call), call.op = "field"
    PROVE  Answered(a, k.packet, k.data, AddField(b, k, call))
<1> DEFINE evidence == Evidence(k, call)
           bytes == IF call.bytes = None THEN None
                    ELSE ByteRange(k.data.start + call.bytes.start, call.bytes.length)
           named == Intern(b, call.name)
           c == IF call.text = None THEN named ELSE Intern(named, call.text)
           cs == <<
            InternRoom(b, call.name),
            Condition(call.text # None => InternRoom(named, call.text).holds, "StringBytes"),
            Condition(Covers(k.data, evidence) /\ (bytes # None => Covers(evidence, bytes)), "ByteRange"),
            PerPacket(b, b.fields, k.fields, 1, "FieldsPerPacket"),
            Reserve(b, b.fields, 1, "Fields")>>
           field == [name |-> StringId(c, call.name), bytes |-> bytes,
                     text |-> IF call.text = None THEN None ELSE StringId(c, call.text),
                     byte_range |-> evidence, children |-> ByteRange(0, 0)]
           r == AddField(b, k, call)
<1>1. /\ call.name \in Texts /\ call.text \in Optional(Texts)
      /\ call.start \in Nat /\ call.length \in Nat /\ call.bytes \in Optional(Ranges)
  BY FieldCall
<1>2. k.data \in Ranges /\ k.fields = Len(a.fields)
  BY DEF Begun, Sinks
<1>3. /\ named \in Builders /\ Steady(b, named)
      /\ named.layers = b.layers /\ named.fields = b.fields
      /\ named.field_children = b.field_children /\ named.diagnostics = b.diagnostics
      /\ Grows(b.strings, named.strings)
      /\ Len(named.strings) <= named.limits["StringBytes"]
      /\ InternRoom(b, call.name).holds => StringId(named, call.name) \in DOMAIN named.strings
  BY <1>1, Interned DEF Decoding, Ceilings
<1>4. /\ c \in Builders /\ Steady(named, c)
      /\ c.layers = named.layers /\ c.fields = named.fields
      /\ c.field_children = named.field_children /\ c.diagnostics = named.diagnostics
      /\ Grows(named.strings, c.strings)
      /\ Len(c.strings) <= c.limits["StringBytes"]
      /\ call.text # None /\ InternRoom(named, call.text).holds =>
            StringId(c, call.text) \in DOMAIN c.strings
  <2>1. CASE call.text = None
    BY <1>3, <2>1 DEF Steady, Grows
  <2>2. CASE call.text # None
    <3>1. call.text \in Texts
      BY <1>1, <2>2 DEF Optional
    <3> HIDE DEF named
    <3> QED BY <1>3, <2>2, <3>1, Interned
  <2> QED BY <2>1, <2>2
<1>5. InternRoom(b, call.name).holds => StringId(c, call.name) \in DOMAIN c.strings
  <2> SUFFICES ASSUME InternRoom(b, call.name).holds PROVE StringId(c, call.name) \in DOMAIN c.strings
    OBVIOUS
  <2>1. Contains(b.strings, call.name) \/ Len(b.strings) < b.limits["StringBytes"]
    BY DEF InternRoom, Condition
  <2>2. \E id \in DOMAIN named.strings : named.strings[id] = call.name
    <3>1. CASE Contains(b.strings, call.name)
      BY <1>3, <3>1, ArenasTyped DEF Contains, Grows
    <3>2. CASE ~Contains(b.strings, call.name)
      <4>1. named.strings = Append(b.strings, call.name)
        BY <3>2 DEF Intern, Builders
      <4>2. b.strings \in Seq(Texts)
        BY ArenasTyped
      <4> QED BY <1>1, <4>1, <4>2
    <3> QED BY <3>1, <3>2
  <2> HIDE DEF named, c
  <2>3. named.strings \in Seq(Texts) /\ c.strings \in Seq(Texts)
    BY <1>3, <1>4, ArenasTyped
  <2>4. \E id \in DOMAIN c.strings : c.strings[id] = call.name
    BY <1>4, <2>2, <2>3 DEF Grows
  <2> QED BY <2>4 DEF StringId
<1> HIDE DEF named, c
<1>6. /\ Steady(b, c) /\ c.layers = b.layers /\ c.fields = b.fields
      /\ c.field_children = b.field_children /\ c.diagnostics = b.diagnostics
      /\ Grows(b.strings, c.strings)
  <2>1. Grows(b.strings, c.strings)
    BY <1>3, <1>4, ArenasTyped, GrowsAgain
  <2> QED BY <1>3, <1>4, <2>1 DEF Steady
<1>7. Decoding(a, c, k.packet, k.data)
  BY <1>4, <1>6, DecodingWithStrings
<1>8. /\ DOMAIN cs = 1 .. 5
      /\ cs[1].error = "StringBytes" /\ cs[2].error = "StringBytes" /\ cs[3].error = "ByteRange"
      /\ cs[4].error = "FieldsPerPacket" /\ cs[5].error = "Fields"
  BY DEF InternRoom, Condition, PerPacket, Reserve
<1>9. r = IF FirstRefusal(cs) # "Continue" THEN Fails(c, FirstRefusal(cs))
          ELSE Continue([c EXCEPT !.fields = Append(@, field)])
  BY DEF AddField, named, c
<1>10. /\ cs[1].holds <=> InternRoom(b, call.name).holds
       /\ cs[2].holds <=> (call.text # None => InternRoom(named, call.text).holds)
       /\ cs[3].holds <=> (Covers(k.data, evidence) /\ (bytes # None => Covers(evidence, bytes)))
       /\ cs[5].holds <=> Len(b.fields) + 1 <= b.limits["Fields"]
  BY DEF Condition, Reserve
<1> HIDE DEF cs, r
<1>11. CASE FirstRefusal(cs) # "Continue"
  <2>1. FirstRefusal(cs) \in SinkErrors
    <3>1. \A i \in 1 .. 5 : cs[i].error \in SinkErrors /\ cs[i].error # "Continue"
      BY <1>8 DEF SinkErrors
    <3>2. \E i \in 1 .. 5 : FirstRefusal(cs) = cs[i].error
      BY <1>8, <1>11, <3>1, RefusalIsFirst
    <3> QED BY <3>1, <3>2
  <2>2. r = Fails(c, FirstRefusal(cs))
    BY <1>9, <1>11
  <2>3. r \in Results /\ r.b = c /\ r.out = FirstRefusal(cs)
    BY <1>4, <2>1, <2>2 DEF Fails, Results, Outcomes
  <2> QED BY <1>7, <1>11, <2>1, <2>3 DEF Answered, Decoding, r
<1>12. CASE FirstRefusal(cs) = "Continue"
  <2>1. \A i \in 1 .. 5 : cs[i].holds
    <3>1. \A i \in 1 .. 5 : cs[i].error # "Continue"
      BY <1>8
    <3> QED BY <1>8, <1>12, <3>1, RefusalIsFirst
  <2>2. /\ InternRoom(b, call.name).holds
        /\ call.text # None => InternRoom(named, call.text).holds
        /\ Covers(k.data, evidence) /\ (bytes # None => Covers(evidence, bytes))
        /\ Len(b.fields) + 1 <= b.limits["Fields"]
    BY <1>10, <2>1
  <2>3. evidence \in Ranges /\ bytes \in Optional(Ranges) /\ ByteRange(0, 0) \in Ranges
    BY <1>1, <1>2 DEF Evidence, ByteRange, Ranges, Optional
  <2> HIDE DEF evidence, bytes
  <2>4. StringId(c, call.name) \in DOMAIN c.strings
    BY <1>5, <2>2
  <2>5. call.text # None => StringId(c, call.text) \in DOMAIN c.strings
    BY <1>4, <2>2
  <2>6. c.strings \in Seq(Texts)
    BY <1>4, ArenasTyped
  <2>7. field \in DecodedField
    <3>1. StringId(c, call.name) \in Nat /\ (call.text # None => StringId(c, call.text) \in Nat)
      BY <2>4, <2>5, <2>6
    <3> QED BY <2>3, <3>1 DEF DecodedField, Optional
  <2>8. /\ field.byte_range = evidence /\ field.bytes = bytes /\ field.children = ByteRange(0, 0)
        /\ HasString(c, field.name)
        /\ field.text # None => HasString(c, field.text)
    BY <2>4, <2>5 DEF HasString
  <2> HIDE DEF field
  <2>9. Len(c.fields) + 1 <= c.limits["Fields"]
    BY <1>6, <2>2 DEF Steady
  <2> DEFINE d == [c EXCEPT !.fields = Append(@, field)]
  <2>10. d \in Builders /\ Decoding(a, d, k.packet, k.data)
    BY <1>4, <1>7, <2>2, <2>7, <2>8, <2>9, FieldAppended
  <2>11. r = Continue(d)
    BY <1>9, <1>12
  <2> HIDE DEF d
  <2>12. r \in Results /\ r.b = d /\ r.out = "Continue"
    BY <2>10, <2>11 DEF Continue, Results, Outcomes
  <2> QED BY <2>10, <2>12 DEF Answered, Decoding, r
<1> QED BY <1>11, <1>12

\* New fields within a new parent that has no children yet become its children.
LEMMA ChildrenAppended ==
    ASSUME NEW a \in Builders, NEW b \in Builders, NEW packet, NEW data,
           Decoding(a, b, packet, data), NEW parent \in Added(a.fields, b.fields),
           b.fields[parent].children.length = 0,
           NEW children \in Seq(Nat),
           \A i \in 1 .. Len(children) :
              /\ children[i] \in Added(a.fields, b.fields) /\ children[i] > parent
              /\ Covers(b.fields[parent].byte_range, b.fields[children[i]].byte_range),
           Len(b.field_children) + Len(children) <= b.limits["FieldChildren"]
    PROVE  LET d == [b EXCEPT !.field_children = @ \o children,
                              !.fields[parent].children =
                                  ByteRange(Len(b.field_children), Len(children))]
           IN  d \in Builders /\ Decoding(a, d, packet, data)
<1> DEFINE span == ByteRange(Len(b.field_children), Len(children))
           joined == b.field_children \o children
           owner == [b.fields[parent] EXCEPT !.children = span]
           d == [b EXCEPT !.field_children = @ \o children, !.fields[parent].children = span]
<1>1. /\ b.fields \in Seq(DecodedField) /\ a.fields \in Seq(DecodedField)
      /\ b.field_children \in Seq(Nat) /\ a.field_children \in Seq(Nat)
      /\ Len(children) \in Nat
  BY ArenasTyped
<1>2. /\ joined \in Seq(Nat) /\ Len(joined) = Len(b.field_children) + Len(children)
      /\ \A i \in 1 .. Len(b.field_children) : joined[i] = b.field_children[i]
      /\ \A i \in 1 .. Len(children) : joined[Len(b.field_children) + i] = children[i]
  BY <1>1
<1>3. parent \in DOMAIN b.fields /\ parent \in Nat /\ parent > Len(a.fields)
  BY <1>1 DEF Added
<1>4. span \in Ranges /\ span.start = Len(b.field_children) /\ span.length = Len(children)
  BY <1>1 DEF ByteRange, Ranges
<1> HIDE DEF span, joined
<1>5. owner \in DecodedField /\ owner.children = span /\ owner.byte_range = b.fields[parent].byte_range
      /\ owner.name = b.fields[parent].name /\ owner.text = b.fields[parent].text
      /\ owner.bytes = b.fields[parent].bytes
  <2>1. b.fields[parent] \in DecodedField
    BY <1>1, <1>3
  <2> QED BY <1>4, <2>1 DEF DecodedField
<1>6. /\ Steady(b, d) /\ d.fields = [b.fields EXCEPT ![parent] = owner]
      /\ d.field_children = joined /\ d.layers = b.layers
      /\ d.diagnostics = b.diagnostics /\ d.strings = b.strings
  BY <1>3 DEF Builders, Steady, joined
<1> HIDE DEF owner
<1>7. d.fields \in Seq(DecodedField) /\ Len(d.fields) = Len(b.fields)
      /\ d.fields[parent] = owner
      /\ \A f \in 1 .. Len(b.fields) : f # parent => d.fields[f] = b.fields[f]
  <2>1. parent \in 1 .. Len(b.fields)
    BY <1>1, <1>3
  <2>2. d.fields = [b.fields EXCEPT ![parent] = owner]
    BY <1>6
  <2> HIDE DEF d
  <2> QED BY <1>1, <1>5, <2>1, <2>2, ExceptSeq
<1>8. d \in Builders
  <2>1. d = [b EXCEPT !.field_children = joined, !.fields = d.fields]
    BY <1>6 DEF Builders, joined, owner
  <2> HIDE DEF d
  <2> QED BY <1>2, <1>7, <2>1 DEF Builders
<1> HIDE DEF d
<1>9. Kept(a, d)
  <2>1. Grows(a.fields, d.fields)
    <3>1. Len(a.fields) <= Len(b.fields) /\ \A i \in 1 .. Len(a.fields) : b.fields[i] = a.fields[i]
      BY DEF Decoding, Kept, Grows
    <3>2. \A i \in 1 .. Len(a.fields) : i \in 1 .. Len(b.fields) /\ i # parent
      BY <1>1, <1>3, <3>1
    <3> QED BY <1>7, <3>1, <3>2 DEF Grows
  <2>2. Grows(a.field_children, d.field_children)
    <3>1. /\ Len(a.field_children) <= Len(b.field_children)
          /\ \A i \in 1 .. Len(a.field_children) : b.field_children[i] = a.field_children[i]
      BY DEF Decoding, Kept, Grows
    <3>2. Len(a.field_children) \in Nat /\ Len(b.field_children) \in Nat
      BY <1>1
    <3>3. \A i \in 1 .. Len(a.field_children) : i \in 1 .. Len(b.field_children)
      BY <3>1, <3>2
    <3>4. Len(a.field_children) <= Len(joined)
      BY <1>1, <1>2, <3>1, <3>2
    <3> QED BY <1>2, <1>6, <3>1, <3>3, <3>4 DEF Grows
  <2>3. Steady(a, d)
    BY <1>6 DEF Decoding, Kept, Steady
  <2> QED BY <1>6, <2>1, <2>2, <2>3 DEF Decoding, Kept
<1>10. Ceilings(d)
  BY <1>2, <1>6, <1>7 DEF Decoding, Ceilings, Steady
<1>11. \A f \in 1 .. Len(b.fields) : d.fields[f].byte_range = b.fields[f].byte_range
  BY <1>5, <1>7
<1>12. Added(a.fields, d.fields) = Added(a.fields, b.fields)
       /\ Added(a.fields, d.fields) \subseteq 1 .. Len(b.fields)
  BY <1>1, <1>7 DEF Added
<1>13. ASSUME NEW f \in Added(a.fields, d.fields) PROVE NewField(a, d, data, f)
  <2>0. NewField(a, b, data, f)
    BY <1>12 DEF Decoding
  <2>1. CASE f # parent
    <3>1. d.fields[f] = b.fields[f] /\ d.fields[f] \in DecodedField
      BY <1>1, <1>7, <1>12, <2>1
    <3> DEFINE own == d.fields[f].children
    <3>0. /\ own.start >= 0 /\ End(own) <= Len(b.field_children)
          /\ own.start \in Int /\ End(own) \in Int /\ Len(b.field_children) \in Nat
      <4>1. own \in Ranges
        BY <3>1 DEF DecodedField
      <4>2. own.start >= 0 /\ End(own) <= Len(b.field_children)
        BY <2>0, <3>1 DEF NewField
      <4> QED BY <1>1, <4>1, <4>2 DEF End, Ranges
    <3>2. \A c \in Entries(d.fields[f].children) :
              /\ c \in 1 .. Len(b.field_children) /\ d.field_children[c] = b.field_children[c]
      <4>1. \A c \in Entries(own) : c \in 1 .. Len(b.field_children)
        BY <3>0 DEF Entries
      <4> QED BY <1>2, <1>6, <4>1
    <3>3. End(d.fields[f].children) <= Len(d.field_children)
      <4>1. Len(d.field_children) = Len(b.field_children) + Len(children) /\ Len(children) \in Nat
        BY <1>1, <1>2, <1>6
      <4> QED BY <3>0, <4>1
    <3>4. \A c \in Entries(d.fields[f].children) :
              /\ c > Len(a.field_children)
              /\ d.field_children[c] > f
              /\ d.field_children[c] \in Added(a.fields, d.fields)
              /\ Covers(d.fields[f].byte_range, d.fields[d.field_children[c]].byte_range)
      BY <1>11, <1>12, <2>0, <3>1, <3>2 DEF NewField
    <3> QED BY <1>6, <2>0, <3>1, <3>3, <3>4 DEF NewField, HasString
  <2>2. CASE f = parent
    <3>1. \A c \in Entries(span) : \E i \in 1 .. Len(children) :
              /\ c = Len(b.field_children) + i /\ joined[c] = children[i]
      <4> SUFFICES ASSUME NEW c \in Entries(span)
                   PROVE  \E i \in 1 .. Len(children) :
                             /\ c = Len(b.field_children) + i /\ joined[c] = children[i]
        OBVIOUS
      <4>1. c \in Len(b.field_children) + 1 .. Len(b.field_children) + Len(children)
        BY <1>4 DEF Entries, End
      <4>2. c - Len(b.field_children) \in 1 .. Len(children)
            /\ c = Len(b.field_children) + (c - Len(b.field_children))
        BY <1>1, <4>1
      <4> QED BY <1>2, <4>2
    <3>2. Len(a.field_children) <= Len(b.field_children)
      BY DEF Decoding, Kept, Grows
    <3>3. \A c \in Entries(span) :
              /\ c > Len(a.field_children)
              /\ joined[c] > f
              /\ joined[c] \in Added(a.fields, d.fields)
              /\ Covers(owner.byte_range, d.fields[joined[c]].byte_range)
      <4> SUFFICES ASSUME NEW c \in Entries(span)
                   PROVE  /\ c > Len(a.field_children)
                          /\ joined[c] > f
                          /\ joined[c] \in Added(a.fields, d.fields)
                          /\ Covers(owner.byte_range, d.fields[joined[c]].byte_range)
        OBVIOUS
      <4>1. PICK i \in 1 .. Len(children) : c = Len(b.field_children) + i /\ joined[c] = children[i]
        BY <3>1
      <4>2. c > Len(a.field_children)
        BY <1>1, <3>2, <4>1
      <4>3. children[i] \in Added(a.fields, d.fields) /\ children[i] > parent
            /\ Covers(b.fields[parent].byte_range, b.fields[children[i]].byte_range)
        BY <1>12
      <4>4. d.fields[children[i]].byte_range = b.fields[children[i]].byte_range
        BY <1>11, <1>12, <4>3
      <4> QED BY <1>5, <2>2, <4>1, <4>2, <4>3, <4>4
    <3>4. span.start >= 0 /\ End(span) <= Len(joined)
      BY <1>1, <1>2, <1>4 DEF End
    <3>5. d.fields[f] = owner
      BY <1>7, <2>2
    <3> QED BY <1>5, <1>6, <2>0, <2>2, <3>3, <3>4, <3>5 DEF NewField, HasString
  <2> QED BY <2>1, <2>2
<1>14. ASSUME NEW i \in Added(a.field_children, d.field_children) PROVE OneOwner(a, d, i)
  <2>0. /\ i \in Nat /\ i > Len(a.field_children) /\ i <= Len(b.field_children) + Len(children)
        /\ \A j \in Added(a.fields, b.fields) : b.fields[j].children \in Ranges
        /\ \A j \in Added(a.fields, b.fields) : End(b.fields[j].children) <= Len(b.field_children)
    <3>1. /\ i \in Nat /\ i > Len(a.field_children) /\ i <= Len(b.field_children) + Len(children)
      <4>1. /\ Len(d.field_children) = Len(b.field_children) + Len(children)
            /\ Len(a.field_children) \in Nat /\ Len(b.field_children) \in Nat
            /\ Len(children) \in Nat
        BY <1>1, <1>2, <1>6
      <4> QED BY <4>1 DEF Added
    <3>2. \A j \in Added(a.fields, b.fields) : b.fields[j] \in DecodedField
      BY <1>1, <1>12
    <3>3. \A j \in Added(a.fields, b.fields) : b.fields[j].children \in Ranges
      BY <3>2 DEF DecodedField
    <3> QED BY <3>1, <3>3 DEF Decoding, NewField
  <2>1. CASE i <= Len(b.field_children)
    <3>1. OneOwner(a, b, i)
      <4>1. i \in Added(a.field_children, b.field_children)
        BY <1>1, <2>0, <2>1 DEF Added
      <4> QED BY <4>1 DEF Decoding
    <3>2. PICK f \in Added(a.fields, b.fields) : \A j \in Added(a.fields, b.fields) :
              i \in Entries(b.fields[j].children) <=> j = f
      BY <3>1 DEF OneOwner
    <3>3. Entries(b.fields[parent].children) = {}
      <4>1. b.fields[parent].children \in Ranges
        BY <2>0
      <4>2. \A r \in Ranges : r.length = 0 => Entries(r) = {}
        BY DEF Entries, End, Ranges
      <4> QED BY <4>1, <4>2
    <3>4. i \notin Entries(span)
      BY <1>1, <1>4, <2>0, <2>1 DEF Entries
    <3>5. f # parent
      BY <3>2, <3>3
    <3>6. \A j \in Added(a.fields, d.fields) : i \in Entries(d.fields[j].children) <=> j = f
      BY <1>5, <1>7, <1>12, <3>2, <3>4, <3>5
    <3> QED BY <1>12, <3>6 DEF OneOwner
  <2>2. CASE i > Len(b.field_children)
    <3>1. i \in Entries(span)
      BY <1>1, <1>4, <2>0, <2>2 DEF Entries, End
    <3>2. \A j \in Added(a.fields, b.fields) : i \notin Entries(b.fields[j].children)
      <4>1. \A r \in Ranges : End(r) <= Len(b.field_children) => i \notin Entries(r)
        BY <1>1, <2>0, <2>2 DEF Entries, End, Ranges
      <4> QED BY <2>0, <4>1
    <3>3. \A j \in Added(a.fields, d.fields) : i \in Entries(d.fields[j].children) <=> j = parent
      BY <1>5, <1>7, <1>12, <3>1, <3>2
    <3> QED BY <1>12, <3>3 DEF OneOwner
  <2> QED BY <1>1, <2>0, <2>1, <2>2
<1>15. ASSUME NEW l \in Added(a.layers, d.layers) PROVE NewLayer(a, d, data, l)
  <2>1. NewLayer(a, b, data, l)
    BY <1>6 DEF Decoding
  <2> QED BY <1>6, <1>11, <1>12, <2>1 DEF NewLayer, HasString
<1>16. ASSUME NEW g \in Added(a.diagnostics, d.diagnostics) PROVE NewDiagnostic(d, packet, data, g)
  BY <1>6 DEF Decoding, NewDiagnostic, HasString
<1> QED BY <1>8, <1>9, <1>10, <1>13, <1>14, <1>15, <1>16 DEF Decoding, d, span

\* PacketDecodeSink::set_field_children gives a field the children it accepts, or refuses.
LEMMA SetFieldChildrenAnswered ==
    ASSUME NEW a \in Builders, NEW b \in Builders, NEW k, Begun(a, k),
           Decoding(a, b, k.packet, k.data), NEW call, IsCall(call), call.op = "children"
    PROVE  Answered(a, k.packet, k.data, SetFieldChildren(b, k, call))
<1> DEFINE parent == k.fields + call.parent
           children == [i \in DOMAIN call.children |-> k.fields + call.children[i]]
           childless == LocalField(b, k, parent) /\ b.fields[parent].children.length = 0
           cs == <<
            Condition(childless, "FieldHierarchy"),
            PerPacket(b, b.field_children, k.field_children, Len(children), "FieldChildrenPerPacket"),
            Reserve(b, b.field_children, Len(children), "FieldChildren"),
            Condition(childless => AcceptableChildren(b, k, parent, children), "FieldHierarchy")>>
           r == SetFieldChildren(b, k, call)
           d == [b EXCEPT !.field_children = @ \o children,
                          !.fields[parent].children = ByteRange(Len(b.field_children), Len(children))]
<1>1. call.parent \in Nat /\ call.children \in Seq(Nat)
  BY DEF IsCall
<1>2. k.fields = Len(a.fields) /\ k.fields \in Nat /\ Len(b.fields) \in Nat
  BY ArenasTyped DEF Begun
<1>3. children \in Seq(Nat)
  <2>1. \A i \in 1 .. Len(call.children) : k.fields + call.children[i] \in Nat
    BY <1>1, <1>2
  <2>2. DOMAIN call.children = 1 .. Len(call.children) /\ Len(call.children) \in Nat
    BY <1>1
  <2> QED BY <2>1, <2>2
<1>4. DOMAIN children = 1 .. Len(children)
  BY <1>3
<1>5. parent \in Nat
  BY <1>1, <1>2
<1> HIDE DEF children, parent
<1>6. /\ DOMAIN cs = 1 .. 4
      /\ cs[1].error = "FieldHierarchy" /\ cs[2].error = "FieldChildrenPerPacket"
      /\ cs[3].error = "FieldChildren" /\ cs[4].error = "FieldHierarchy"
  BY DEF Condition, PerPacket, Reserve
<1>7. r = IF FirstRefusal(cs) # "Continue" THEN Fails(b, FirstRefusal(cs)) ELSE Continue(d)
  BY DEF SetFieldChildren, parent, children
<1>8. /\ cs[1].holds <=> childless
      /\ cs[3].holds <=> Len(b.field_children) + Len(children) <= b.limits["FieldChildren"]
      /\ cs[4].holds <=> (childless => AcceptableChildren(b, k, parent, children))
  BY DEF Condition, Reserve
<1> HIDE DEF cs, d
<1>9. CASE FirstRefusal(cs) # "Continue"
  <2>1. FirstRefusal(cs) \in SinkErrors
    <3>1. \A i \in 1 .. 4 : cs[i].error \in SinkErrors /\ cs[i].error # "Continue"
      BY <1>6 DEF SinkErrors
    <3>2. \E i \in 1 .. 4 : FirstRefusal(cs) = cs[i].error
      BY <1>6, <1>9, <3>1, RefusalIsFirst
    <3> QED BY <3>1, <3>2
  <2>2. r = Fails(b, FirstRefusal(cs))
    BY <1>7, <1>9
  <2>3. r \in Results /\ r.b = b /\ r.out = FirstRefusal(cs)
    BY <2>1, <2>2 DEF Fails, Results, Outcomes
  <2> HIDE DEF r
  <2> QED BY <1>9, <2>1, <2>3 DEF Answered, Decoding, r
<1>10. CASE FirstRefusal(cs) = "Continue"
  <2>1. \A i \in 1 .. 4 : cs[i].holds
    <3>1. \A i \in 1 .. 4 : cs[i].error # "Continue"
      BY <1>6
    <3> QED BY <1>6, <1>10, <3>1, RefusalIsFirst
  <2>2. /\ LocalField(b, k, parent) /\ b.fields[parent].children.length = 0
        /\ Len(b.field_children) + Len(children) <= b.limits["FieldChildren"]
        /\ AcceptableChildren(b, k, parent, children)
    BY <1>8, <2>1
  <2>3. \A f \in Nat : LocalField(b, k, f) => f \in Added(a.fields, b.fields)
    BY <1>2 DEF LocalField, Added
  <2>4. parent \in Added(a.fields, b.fields)
    BY <1>5, <2>2, <2>3
  <2>5. \A i \in 1 .. Len(children) :
            /\ children[i] \in Added(a.fields, b.fields) /\ children[i] > parent
            /\ Covers(b.fields[parent].byte_range, b.fields[children[i]].byte_range)
    <3>1. \A i \in 1 .. Len(children) : children[i] \in Nat
      BY <1>3
    <3> QED BY <1>4, <2>2, <2>3, <3>1 DEF AcceptableChildren
  <2>6. d \in Builders /\ Decoding(a, d, k.packet, k.data)
    BY <1>3, <2>2, <2>4, <2>5, ChildrenAppended DEF d
  <2>7. r = Continue(d)
    BY <1>7, <1>10
  <2>8. r \in Results /\ r.b = d /\ r.out = "Continue"
    BY <2>6, <2>7 DEF Continue, Results, Outcomes
  <2> HIDE DEF r
  <2> QED BY <2>6, <2>8 DEF Answered, Decoding, r
<1> QED BY <1>9, <1>10

\* A layer within the packet with a new field for its root may come last in a decode.
LEMMA LayerAppended ==
    ASSUME NEW a \in Builders, NEW c \in Builders, NEW packet, NEW data,
           Decoding(a, c, packet, data), NEW layer \in LayerFact,
           HasString(c, layer.protocol), Covers(data, layer.byte_range),
           layer.root # None => /\ layer.root \in Added(a.fields, c.fields)
                                /\ Covers(layer.byte_range, c.fields[layer.root].byte_range),
           Len(c.layers) + 1 <= c.limits["Layers"]
    PROVE  LET d == [c EXCEPT !.layers = Append(@, layer)]
           IN  d \in Builders /\ Decoding(a, d, packet, data)
<1> DEFINE d == [c EXCEPT !.layers = Append(@, layer)]
<1>1. c.layers \in Seq(LayerFact) /\ a.layers \in Seq(LayerFact)
  BY ArenasTyped
<1>2. /\ Append(c.layers, layer) \in Seq(LayerFact)
      /\ Len(Append(c.layers, layer)) = Len(c.layers) + 1
      /\ Grows(c.layers, Append(c.layers, layer))
      /\ Append(c.layers, layer)[Len(c.layers) + 1] = layer
      /\ \A i \in 1 .. Len(c.layers) : Append(c.layers, layer)[i] = c.layers[i]
  BY <1>1, GrowsAppended
<1>3. d \in Builders
  BY <1>2 DEF Builders
<1>4. /\ Steady(c, d) /\ d.layers = Append(c.layers, layer)
      /\ d.fields = c.fields /\ d.field_children = c.field_children
      /\ d.diagnostics = c.diagnostics /\ d.strings = c.strings
  BY DEF Builders, Steady
<1> HIDE DEF d
<1>5. Kept(a, d)
  <2>1. Grows(a.layers, d.layers)
    BY <1>1, <1>2, <1>4, GrowsAgain DEF Decoding, Kept
  <2>2. Steady(a, d)
    BY <1>4 DEF Decoding, Kept, Steady
  <2> QED BY <1>4, <2>1, <2>2 DEF Decoding, Kept
<1>6. Ceilings(d)
  BY <1>1, <1>2, <1>4 DEF Decoding, Ceilings, Steady
<1>7. /\ Added(a.layers, d.layers) = Added(a.layers, c.layers) \cup {Len(c.layers) + 1}
      /\ \A l \in Added(a.layers, c.layers) : d.layers[l] = c.layers[l]
      /\ d.layers[Len(c.layers) + 1] = layer
  BY <1>1, <1>2, <1>4 DEF Added, Decoding, Kept, Grows
<1>8. ASSUME NEW f \in Added(a.fields, d.fields) PROVE NewField(a, d, data, f)
  BY <1>4 DEF Decoding, NewField, HasString
<1>9. ASSUME NEW i \in Added(a.field_children, d.field_children) PROVE OneOwner(a, d, i)
  BY <1>4 DEF Decoding, OneOwner
<1>10. ASSUME NEW l \in Added(a.layers, d.layers) PROVE NewLayer(a, d, data, l)
  <2>1. CASE l = Len(c.layers) + 1
    BY <1>4, <1>7, <2>1 DEF NewLayer, HasString
  <2>2. CASE l \in Added(a.layers, c.layers)
    BY <1>4, <1>7, <2>2 DEF Decoding, NewLayer, HasString
  <2> QED BY <1>7, <2>1, <2>2
<1>11. ASSUME NEW g \in Added(a.diagnostics, d.diagnostics) PROVE NewDiagnostic(d, packet, data, g)
  BY <1>4 DEF Decoding, NewDiagnostic, HasString
<1> QED BY <1>3, <1>5, <1>6, <1>8, <1>9, <1>10, <1>11 DEF Decoding, d

\* PacketDecodeSink::add_layer answers with a layer that belongs to the decode, or refuses.
LEMMA AddLayerAnswered ==
    ASSUME NEW a \in Builders, NEW b \in Builders, NEW k, Begun(a, k),
           Decoding(a, b, k.packet, k.data), NEW call, IsCall(call), call.op = "layer"
    PROVE  Answered(a, k.packet, k.data, AddLayer(b, k, call))
<1> DEFINE evidence == Evidence(k, call)
           root == IF call.root = None THEN None ELSE k.fields + call.root
           c == Intern(b, call.protocol)
           cs == <<
            InternRoom(b, call.protocol),
            Condition(Covers(k.data, evidence), "ByteRange"),
            Condition(root # None => /\ LocalField(b, k, root)
                                     /\ Covers(evidence, b.fields[root].byte_range)
                                     /\ root \notin AssignedChildren(b, k) \cup AssignedRoots(b, k),
                      "FieldHierarchy"),
            PerPacket(b, b.layers, k.layers, 1, "LayersPerPacket"),
            Reserve(b, b.layers, 1, "Layers")>>
           layer == [protocol |-> StringId(c, call.protocol), byte_range |-> evidence, root |-> root]
           d == [c EXCEPT !.layers = Append(@, layer)]
           r == AddLayer(b, k, call)
<1>1. /\ call.protocol \in Texts /\ call.root \in Optional(Nat)
      /\ call.start \in Nat /\ call.length \in Nat
  BY DEF IsCall
<1>2. /\ k.data \in Ranges /\ k.fields = Len(a.fields) /\ k.fields \in Nat /\ Len(b.fields) \in Nat
  BY ArenasTyped DEF Begun, Sinks
<1>3. /\ c \in Builders /\ Steady(b, c)
      /\ c.layers = b.layers /\ c.fields = b.fields
      /\ c.field_children = b.field_children /\ c.diagnostics = b.diagnostics
      /\ Grows(b.strings, c.strings)
      /\ Len(c.strings) <= c.limits["StringBytes"]
      /\ InternRoom(b, call.protocol).holds => StringId(c, call.protocol) \in DOMAIN c.strings
  BY <1>1, Interned DEF Decoding, Ceilings
<1>4. evidence \in Ranges /\ root \in Optional(Nat)
  BY <1>1, <1>2 DEF Evidence, ByteRange, Ranges, Optional
<1> HIDE DEF c, evidence, root
<1>5. Decoding(a, c, k.packet, k.data)
  BY <1>3, DecodingWithStrings
<1>6. /\ DOMAIN cs = 1 .. 5
      /\ cs[1].error = "StringBytes" /\ cs[2].error = "ByteRange" /\ cs[3].error = "FieldHierarchy"
      /\ cs[4].error = "LayersPerPacket" /\ cs[5].error = "Layers"
  BY DEF InternRoom, Condition, PerPacket, Reserve
<1>7. r = IF FirstRefusal(cs) # "Continue" THEN Fails(c, FirstRefusal(cs)) ELSE Continue(d)
  BY DEF AddLayer, c, evidence, root
<1>8. /\ cs[1].holds <=> InternRoom(b, call.protocol).holds
      /\ cs[2].holds <=> Covers(k.data, evidence)
      /\ cs[3].holds <=> (root # None => /\ LocalField(b, k, root)
                                         /\ Covers(evidence, b.fields[root].byte_range)
                                         /\ root \notin AssignedChildren(b, k) \cup AssignedRoots(b, k))
      /\ cs[5].holds <=> Len(b.layers) + 1 <= b.limits["Layers"]
  BY DEF Condition, Reserve
<1>9. layer.protocol = StringId(c, call.protocol) /\ layer.byte_range = evidence /\ layer.root = root
  OBVIOUS
<1> HIDE DEF cs, d
<1>10. CASE FirstRefusal(cs) # "Continue"
  <2>1. FirstRefusal(cs) \in SinkErrors
    <3>1. \A i \in 1 .. 5 : cs[i].error \in SinkErrors /\ cs[i].error # "Continue"
      BY <1>6 DEF SinkErrors
    <3>2. \E i \in 1 .. 5 : FirstRefusal(cs) = cs[i].error
      BY <1>6, <1>10, <3>1, RefusalIsFirst
    <3> QED BY <3>1, <3>2
  <2>2. r = Fails(c, FirstRefusal(cs))
    BY <1>7, <1>10
  <2>3. r \in Results /\ r.b = c /\ r.out = FirstRefusal(cs)
    BY <1>3, <2>1, <2>2 DEF Fails, Results, Outcomes
  <2> HIDE DEF r
  <2> QED BY <1>5, <1>10, <2>1, <2>3 DEF Answered, Decoding, r
<1>11. CASE FirstRefusal(cs) = "Continue"
  <2>1. \A i \in 1 .. 5 : cs[i].holds
    <3>1. \A i \in 1 .. 5 : cs[i].error # "Continue"
      BY <1>6
    <3> QED BY <1>6, <1>11, <3>1, RefusalIsFirst
  <2>2. /\ InternRoom(b, call.protocol).holds
        /\ Covers(k.data, evidence)
        /\ root # None => LocalField(b, k, root) /\ Covers(evidence, b.fields[root].byte_range)
        /\ Len(b.layers) + 1 <= b.limits["Layers"]
    BY <1>8, <2>1
  <2>3. StringId(c, call.protocol) \in DOMAIN c.strings /\ StringId(c, call.protocol) \in Nat
    <3>1. c.strings \in Seq(Texts)
      BY <1>3, ArenasTyped
    <3> QED BY <1>3, <2>2, <3>1
  <2>4. layer \in LayerFact
    BY <1>4, <2>3 DEF LayerFact
  <2>5. root # None => root \in Added(a.fields, c.fields)
    BY <1>2, <1>3, <1>4, <2>2 DEF LocalField, Added, Optional
  <2> HIDE DEF layer
  <2>6. HasString(c, layer.protocol)
    BY <1>9, <2>3 DEF HasString
  <2>7. Len(c.layers) + 1 <= c.limits["Layers"]
    BY <1>3, <2>2 DEF Steady
  <2>8. d \in Builders /\ Decoding(a, d, k.packet, k.data)
    BY <1>3, <1>5, <1>9, <2>2, <2>4, <2>5, <2>6, <2>7, LayerAppended DEF d
  <2>9. r = Continue(d)
    BY <1>7, <1>11
  <2>10. r \in Results /\ r.b = d /\ r.out = "Continue"
    BY <2>8, <2>9 DEF Continue, Results, Outcomes
  <2> HIDE DEF r
  <2> QED BY <2>8, <2>10 DEF Answered, Decoding, r
<1> QED BY <1>10, <1>11

\* PacketDecodeSink::add_diagnostic answers with a diagnostic of the packet, or refuses.
LEMMA AddPacketDiagnosticAnswered ==
    ASSUME NEW a \in Builders, NEW b \in Builders, NEW k, Begun(a, k),
           Decoding(a, b, k.packet, k.data), NEW call, IsCall(call), call.op = "diagnostic"
    PROVE  Answered(a, k.packet, k.data, AddPacketDiagnostic(b, k, call))
<1> DEFINE evidence == Evidence(k, call)
           c == Intern(b, call.code)
           s == AddDiagnostic(c, call.code, k.packet, evidence)
           r == AddPacketDiagnostic(b, k, call)
<1>1. call.code \in Texts /\ call.start \in Nat /\ call.length \in Nat
  BY DEF IsCall
<1>2. k.data \in Ranges /\ k.packet \in Optional(Nat)
  BY DEF Begun, Sinks, Optional
<1>3. /\ c \in Builders /\ Steady(b, c)
      /\ c.layers = b.layers /\ c.fields = b.fields
      /\ c.field_children = b.field_children /\ c.diagnostics = b.diagnostics
      /\ Grows(b.strings, c.strings)
      /\ Len(c.strings) <= c.limits["StringBytes"]
  BY <1>1, Interned DEF Decoding, Ceilings
<1>4. evidence \in Ranges
  BY <1>1, <1>2 DEF Evidence, ByteRange, Ranges
<1> HIDE DEF c, evidence
<1>5. Decoding(a, c, k.packet, k.data)
  BY <1>3, DecodingWithStrings
<1>6. CASE ~InternRoom(b, call.code).holds
  <2>1. r = Fails(b, "StringBytes")
    BY <1>6 DEF AddPacketDiagnostic
  <2>2. r \in Results /\ r.b = b /\ r.out = "StringBytes" /\ "StringBytes" \in SinkErrors
    BY <2>1 DEF Fails, Results, Outcomes, SinkErrors
  <2> HIDE DEF r
  <2> QED BY <2>2 DEF Answered, Decoding, r
<1>7. CASE InternRoom(b, call.code).holds /\ ~Covers(k.data, evidence)
  <2>1. r = Fails(c, "ByteRange")
    BY <1>7 DEF AddPacketDiagnostic, c, evidence
  <2>2. r \in Results /\ r.b = c /\ r.out = "ByteRange" /\ "ByteRange" \in SinkErrors
    BY <1>3, <2>1 DEF Fails, Results, Outcomes, SinkErrors
  <2> HIDE DEF r
  <2> QED BY <1>5, <2>2 DEF Answered, Decoding, r
<1>8. CASE InternRoom(b, call.code).holds /\ Covers(k.data, evidence)
  <2>1. r = s
    BY <1>8 DEF AddPacketDiagnostic, c, evidence
  <2>2. Noted(c, call.code, k.packet, evidence, s)
    BY <1>1, <1>2, <1>3, <1>4, DiagnosticAdded
  <2> HIDE DEF s
  <2>3. CASE s.out # "Continue"
    BY <1>5, <2>1, <2>2, <2>3 DEF Noted, Answered, Decoding, SinkErrors
  <2>4. CASE s.out = "Continue"
    <3>1. PICK d \in DiagnosticRecord :
                    /\ s.b.diagnostics = Append(c.diagnostics, d)
                    /\ d.code = call.code /\ d.scope = k.packet /\ d.byte_range = evidence
                    /\ HasString(s.b, d.message)
      BY <2>2, <2>4 DEF Noted
    <3> DEFINE e == s.b
    <3>2. e \in Builders
      BY <2>2 DEF Noted, Results
    <3>3. /\ Steady(c, e) /\ e.layers = c.layers /\ e.fields = c.fields
          /\ e.field_children = c.field_children /\ Grows(c.strings, e.strings)
          /\ e.diagnostics = Append(c.diagnostics, d)
          /\ HasString(e, d.message)
          /\ Len(e.strings) <= e.limits["StringBytes"]
          /\ Len(e.diagnostics) <= e.limits["Diagnostics"]
      BY <1>3, <2>2, <2>4, <3>1 DEF Noted, Steady
    <3> HIDE DEF e
    <3>4. /\ c.diagnostics \in Seq(DiagnosticRecord) /\ a.diagnostics \in Seq(DiagnosticRecord)
          /\ c.strings \in Seq(Texts) /\ e.strings \in Seq(Texts) /\ a.strings \in Seq(Texts)
          /\ e.diagnostics \in Seq(DiagnosticRecord)
      BY <1>3, <3>2, ArenasTyped
    <3>5. /\ Len(e.diagnostics) = Len(c.diagnostics) + 1
          /\ Grows(c.diagnostics, e.diagnostics)
          /\ e.diagnostics[Len(c.diagnostics) + 1] = d
          /\ \A i \in 1 .. Len(c.diagnostics) : e.diagnostics[i] = c.diagnostics[i]
      BY <3>3, <3>4, GrowsAppended
    <3>6. Kept(a, e)
      <4>1. Grows(a.diagnostics, e.diagnostics) /\ Grows(a.strings, e.strings)
        BY <1>5, <3>3, <3>4, <3>5, GrowsAgain DEF Decoding, Kept
      <4>2. Steady(a, e)
        BY <1>5, <3>3 DEF Decoding, Kept, Steady
      <4> QED BY <1>5, <3>3, <4>1, <4>2 DEF Decoding, Kept
    <3>7. Ceilings(e)
      BY <1>5, <3>3 DEF Decoding, Ceilings, Steady
    <3>8. \A id : HasString(c, id) => HasString(e, id)
      BY <3>3, <3>4 DEF HasString, Grows
    <3>9. \A f \in Added(a.fields, e.fields) : NewField(a, e, k.data, f)
      BY <1>5, <3>3, <3>8 DEF Decoding, NewField
    <3>10. \A i \in Added(a.field_children, e.field_children) : OneOwner(a, e, i)
      BY <1>5, <3>3 DEF Decoding, OneOwner
    <3>11. \A l \in Added(a.layers, e.layers) : NewLayer(a, e, k.data, l)
      BY <1>5, <3>3, <3>8 DEF Decoding, NewLayer
    <3>12. Added(a.diagnostics, e.diagnostics) =
              Added(a.diagnostics, c.diagnostics) \cup {Len(c.diagnostics) + 1}
           /\ Added(a.diagnostics, c.diagnostics) \subseteq 1 .. Len(c.diagnostics)
      <4>1. Len(a.diagnostics) <= Len(c.diagnostics)
        BY <1>5 DEF Decoding, Kept, Grows
      <4> QED BY <3>4, <3>5, <4>1 DEF Added
    <3>13. \A g \in Added(a.diagnostics, e.diagnostics) : NewDiagnostic(e, k.packet, k.data, g)
      BY <1>5, <1>8, <3>1, <3>3, <3>5, <3>8, <3>12 DEF Decoding, NewDiagnostic
    <3>14. Decoding(a, e, k.packet, k.data)
      BY <3>6, <3>7, <3>9, <3>10, <3>11, <3>13 DEF Decoding
    <3> QED BY <2>1, <2>2, <2>4, <3>6, <3>14 DEF Noted, Answered, e
  <2> QED BY <2>3, <2>4
<1> QED BY <1>6, <1>7, <1>8

\* Whatever a decoder calls, the sink answers.
LEMMA SinkCallAnswered ==
    ASSUME NEW a \in Builders, NEW b \in Builders, NEW k, Begun(a, k),
           Decoding(a, b, k.packet, k.data), NEW call, IsCall(call)
    PROVE  Answered(a, k.packet, k.data, SinkCall(b, k, call))
<1>1. CASE call.op = "field"
  BY <1>1, AddFieldAnswered DEF SinkCall
<1>2. CASE call.op = "children"
  BY <1>2, SetFieldChildrenAnswered DEF SinkCall
<1>3. CASE call.op = "layer"
  BY <1>3, AddLayerAnswered DEF SinkCall
<1>4. CASE call.op = "diagnostic"
  BY <1>4, AddPacketDiagnosticAnswered DEF SinkCall
<1>5. CASE call.op = "fail"
  <2>1. SinkCall(b, k, call) = Fails(b, "Decoder")
    BY <1>5 DEF SinkCall
  <2>2. Fails(b, "Decoder") \in Results /\ "Decoder" \in SinkErrors
        /\ Fails(b, "Decoder").b = b /\ Fails(b, "Decoder").out = "Decoder"
    BY DEF Fails, Results, Outcomes, SinkErrors
  <2> QED BY <2>1, <2>2 DEF Answered, Decoding
<1>6. call.op \in {"field", "children", "layer", "diagnostic", "fail"}
  BY DEF IsCall
<1> QED BY <1>1, <1>2, <1>3, <1>4, <1>5, <1>6

-----------------------------------------------------------------------------
\* A decode: all of its calls, or none.

SinkOf(b, packet, data) ==
    [packet |-> packet, data |-> data, layers |-> Len(b.layers),
     fields |-> Len(b.fields), field_children |-> Len(b.field_children),
     diagnostics |-> Len(b.diagnostics), strings |-> Len(b.strings)]

IsDecoder(decoder) == IsSequence(decoder) /\ \A call \in Range(decoder) : IsCall(call)

\* The builder after each of the first n calls.
IsDecode(f, b, k, decoder, n) ==
    f = [i \in 0 .. n |-> IF i = 0 THEN Continue(b) ELSE Proceed(f[i - 1], k, decoder[i])]

\* A decoder is a sequence of calls.
LEMMA DecoderTyped ==
    ASSUME NEW decoder, IsDecoder(decoder)
    PROVE  /\ Len(decoder) \in Nat /\ DOMAIN decoder = 1 .. Len(decoder)
           /\ \A i \in 1 .. Len(decoder) : IsCall(decoder[i])
  BY DEF IsDecoder, IsSequence, Range

\* A decode is a function of the number of calls made: there is one for any number.
LEMMA DecodesExist ==
    ASSUME NEW b, NEW k, NEW decoder, NEW N \in Nat
    PROVE  \E f : IsDecode(f, b, k, decoder, N)
<1> DEFINE T == {n \in Nat : \E f : IsDecode(f, b, k, decoder, n)}
<1>1. 0 \in T
  <2>1. IsDecode([i \in 0 .. 0 |-> Continue(b)], b, k, decoder, 0)
    BY DEF IsDecode
  <2> QED BY <2>1
<1>2. ASSUME NEW n \in Nat, n \in T PROVE n + 1 \in T
  <2>1. PICK f : IsDecode(f, b, k, decoder, n)
    BY <1>2
  <2> DEFINE g == [i \in 0 .. n + 1 |-> IF i = n + 1 THEN Proceed(f[n], k, decoder[n + 1]) ELSE f[i]]
  <2>2. \A i \in 0 .. n : f[i] = IF i = 0 THEN Continue(b) ELSE Proceed(f[i - 1], k, decoder[i])
    BY <2>1 DEF IsDecode
  <2>3. ASSUME NEW i \in 0 .. n + 1
        PROVE  g[i] = IF i = 0 THEN Continue(b) ELSE Proceed(g[i - 1], k, decoder[i])
    <3>1. CASE i = n + 1
      BY <3>1
    <3>2. CASE i # n + 1
      <4>1. i \in 0 .. n /\ (i # 0 => i - 1 \in 0 .. n /\ i - 1 # n + 1)
        BY <3>2
      <4>2. g[i] = f[i] /\ (i # 0 => g[i - 1] = f[i - 1])
        BY <3>2, <4>1
      <4> QED BY <2>2, <4>1, <4>2
    <3> QED BY <3>1, <3>2
  <2>4. IsDecode(g, b, k, decoder, n + 1)
    BY <2>3 DEF IsDecode
  <2> QED BY <2>4
<1>3. Nat \subseteq T
  <2> HIDE DEF T
  <2> QED BY <1>1, <1>2, Induction
<1> QED BY <1>3

\* After all the calls of a decoder, in any order and however wrong, the decode is sound or
\* has failed.
LEMMA CallsAnswered ==
    ASSUME NEW b \in Builders, NEW k, Begun(b, k), Ceilings(b), NEW decoder, IsDecoder(decoder),
           NEW f, IsDecode(f, b, k, decoder, Len(decoder))
    PROVE  Answered(b, k.packet, k.data, f[Len(decoder)])
<1> DEFINE T == {n \in Nat : n <= Len(decoder) => Answered(b, k.packet, k.data, f[n])}
<1>1. /\ Len(decoder) \in Nat /\ \A i \in 1 .. Len(decoder) : IsCall(decoder[i])
  BY DecoderTyped
<1>2. \A i \in 0 .. Len(decoder) :
          f[i] = IF i = 0 THEN Continue(b) ELSE Proceed(f[i - 1], k, decoder[i])
  BY DEF IsDecode
<1>3. 0 \in T
  <2>1. f[0] = Continue(b)
    BY <1>1, <1>2
  <2>2. Continue(b) \in Results /\ Continue(b).b = b /\ Continue(b).out = "Continue"
    BY DEF Continue, Results, Outcomes
  <2>3. Kept(b, b)
    BY ArenasTyped DEF Kept, Steady, Grows
  <2>4. Decoding(b, b, k.packet, k.data)
    <3>1. \A s \in Seq(Nat) : TRUE
      OBVIOUS
    <3>2. /\ Added(b.fields, b.fields) = {} /\ Added(b.field_children, b.field_children) = {}
          /\ Added(b.layers, b.layers) = {} /\ Added(b.diagnostics, b.diagnostics) = {}
      BY ArenasTyped DEF Added
    <3> QED BY <2>3, <3>2 DEF Decoding
  <2> QED BY <2>1, <2>2, <2>3, <2>4 DEF Answered
<1>4. ASSUME NEW n \in Nat, n \in T PROVE n + 1 \in T
  <2> SUFFICES ASSUME n + 1 <= Len(decoder) PROVE Answered(b, k.packet, k.data, f[n + 1])
    OBVIOUS
  <2>1. Answered(b, k.packet, k.data, f[n]) /\ f[n + 1] = Proceed(f[n], k, decoder[n + 1])
        /\ IsCall(decoder[n + 1])
    BY <1>1, <1>2, <1>4
  <2>2. CASE f[n].out # "Continue"
    BY <2>1, <2>2 DEF Proceed
  <2>3. CASE f[n].out = "Continue"
    <3>1. Decoding(b, f[n].b, k.packet, k.data) /\ f[n].b \in Builders
      BY <2>1, <2>3 DEF Answered, Results
    <3>2. Answered(b, k.packet, k.data, SinkCall(f[n].b, k, decoder[n + 1]))
      BY <2>1, <3>1, SinkCallAnswered
    <3> QED BY <2>1, <2>3, <3>2 DEF Proceed
  <2> QED BY <2>2, <2>3
<1>5. Nat \subseteq T
  <2> HIDE DEF T
  <2> QED BY <1>3, <1>4, Induction
<1> QED BY <1>1, <1>5

\* A sequence cut back to its former length is what it was.
LEMMA CutBack ==
    ASSUME NEW S, NEW s \in Seq(S), NEW t \in Seq(S), Grows(s, t)
    PROVE  SubSeq(t, 1, Len(s)) = s
<1>1. Len(s) \in Nat /\ Len(s) <= Len(t) /\ \A i \in 1 .. Len(s) : t[i] = s[i]
  BY DEF Grows
<1>2. SubSeq(t, 1, Len(s)) = [i \in 1 .. Len(s) |-> t[i]]
  BY <1>1
<1> QED BY <1>1, <1>2

\* Two builders that agree in everything are one.
LEMMA SameBuilder ==
    ASSUME NEW a \in Builders, NEW b \in Builders, Steady(a, b),
           b.layers = a.layers, b.fields = a.fields, b.field_children = a.field_children,
           b.diagnostics = a.diagnostics, b.strings = a.strings
    PROVE  b = a
<1>1. ASSUME NEW x \in Builders
      PROVE  x = [at |-> x.at, consumed |-> x.consumed, records |-> x.records, complete
                 |-> x.complete, limits |-> x.limits, initialized |-> x.initialized,
                 current |-> x.current, started_at |-> x.started_at, ended_at |->
                 x.ended_at, sections |-> x.sections, interfaces |-> x.interfaces,
                 packets |-> x.packets, layers |-> x.layers, fields |-> x.fields,
                 field_children |-> x.field_children, diagnostics |-> x.diagnostics,
                 strings |-> x.strings]
  BY DEF Builders
<1> QED BY <1>1 DEF Steady

\* rollback_decode: the arenas cut back to where the sink began are those of before.
LEMMA RolledBack ==
    ASSUME NEW a \in Builders, NEW b \in Builders, NEW k, Begun(a, k), Kept(a, b)
    PROVE  RollbackDecode(b, k) = a
<1>1. /\ SubSeq(b.layers, 1, k.layers) = a.layers /\ SubSeq(b.fields, 1, k.fields) = a.fields
      /\ SubSeq(b.field_children, 1, k.field_children) = a.field_children
      /\ SubSeq(b.diagnostics, 1, k.diagnostics) = a.diagnostics
      /\ SubSeq(b.strings, 1, k.strings) = a.strings
  <2>0. /\ Grows(a.layers, b.layers) /\ Grows(a.fields, b.fields)
        /\ Grows(a.field_children, b.field_children) /\ Grows(a.diagnostics, b.diagnostics)
        /\ Grows(a.strings, b.strings)
    BY DEF Kept
  <2>5. /\ a.layers \in Seq(LayerFact) /\ b.layers \in Seq(LayerFact)
        /\ a.fields \in Seq(DecodedField) /\ b.fields \in Seq(DecodedField)
        /\ a.field_children \in Seq(Nat) /\ b.field_children \in Seq(Nat)
        /\ a.diagnostics \in Seq(DiagnosticRecord) /\ b.diagnostics \in Seq(DiagnosticRecord)
        /\ a.strings \in Seq(Texts) /\ b.strings \in Seq(Texts)
    BY ArenasTyped
  <2>1. /\ SubSeq(b.layers, 1, Len(a.layers)) = a.layers
        /\ SubSeq(b.fields, 1, Len(a.fields)) = a.fields
    BY <2>0, <2>5, CutBack, SMTT(30)
  <2>2. SubSeq(b.field_children, 1, Len(a.field_children)) = a.field_children
    BY <2>0, <2>5, CutBack
  <2>3. SubSeq(b.diagnostics, 1, Len(a.diagnostics)) = a.diagnostics
    BY <2>0, <2>5, CutBack
  <2>4. SubSeq(b.strings, 1, Len(a.strings)) = a.strings
    BY <2>0, <2>5, CutBack
  <2> QED BY <2>1, <2>2, <2>3, <2>4 DEF Begun
<1>2. RollbackDecode(b, k) =
        [b EXCEPT !.layers = a.layers, !.fields = a.fields, !.field_children = a.field_children,
                  !.diagnostics = a.diagnostics, !.strings = a.strings]
  BY <1>1 DEF RollbackDecode
<1> DEFINE c == [b EXCEPT !.layers = a.layers, !.fields = a.fields,
                          !.field_children = a.field_children,
                          !.diagnostics = a.diagnostics, !.strings = a.strings]
<1>3. /\ c \in Builders /\ Steady(b, c) /\ c.layers = a.layers /\ c.fields = a.fields
      /\ c.field_children = a.field_children /\ c.diagnostics = a.diagnostics
      /\ c.strings = a.strings
  BY DEF Builders, Steady
<1> HIDE DEF c
<1>4. Steady(a, c)
  BY <1>3 DEF Kept, Steady
<1>5. c = a
  BY <1>3, <1>4, SameBuilder
<1> QED BY <1>2, <1>5 DEF c

\* The fields of a decode that is complete.
EachOnce(a, b) ==
    \A f \in Added(a.fields, b.fields) :
        Cardinality({c \in Added(a.field_children, b.field_children) : b.field_children[c] = f})
        + Cardinality({l \in Added(a.layers, b.layers) : b.layers[l].root = f}) = 1

\* r: what a whole decode that began with a settles to.
Decoded(a, packet, data, r) ==
    /\ r \in Results
    /\ r.out = "Continue" => Decoding(a, r.b, packet, data) /\ EachOnce(a, r.b)
    /\ r.out # "Continue" => r.b = a /\ r.out \in SinkErrors

\* decode_packet: either every field of the packet has one owner, or nothing is left of the
\* decode but its diagnostics and error.
LEMMA DecodeSettles ==
    ASSUME NEW b \in Builders, Ceilings(b), NEW packet \in Nat, NEW data \in Ranges,
           NEW decoder, IsDecoder(decoder)
    PROVE  Decoded(b, packet, data, DecodePacket(b, packet, data, decoder))
<1> DEFINE k == SinkOf(b, packet, data)
           P(f) == f = [i \in 0 .. Len(decoder) |->
                           IF i = 0 THEN Continue(b) ELSE Proceed(f[i - 1], k, decoder[i])]
           decoded == CHOOSE f : P(f)
           r == decoded[Len(decoder)]
           d == DecodePacket(b, packet, data, decoder)
<1>1. d = Settle(r, k)
  BY DEF DecodePacket, SinkOf
<1>2. Begun(b, k) /\ k.packet = packet /\ k.data = data
  BY ArenasTyped DEF Begun, SinkOf, Sinks
<1>3. IsDecode(decoded, b, k, decoder, Len(decoder))
  <2>1. Len(decoder) \in Nat
    BY DecoderTyped
  <2> HIDE DEF k
  <2>2. \E f : P(f)
    <3>1. PICK f : IsDecode(f, b, k, decoder, Len(decoder))
      BY <2>1, DecodesExist
    <3>2. P(f)
      BY <3>1 DEF IsDecode
    <3> QED BY <3>2
  <2>3. P(decoded)
    BY <2>2
  <2> HIDE DEF decoded
  <2> QED BY <2>3 DEF IsDecode
<1> HIDE DEF k, decoded
<1>4. Answered(b, packet, data, r)
  BY <1>2, <1>3, CallsAnswered
<1>5. r.b \in Builders /\ Kept(b, r.b) /\ RollbackDecode(r.b, k) = b
  BY <1>2, <1>4, RolledBack DEF Answered, Results
<1> HIDE DEF r
<1>6. CASE r.out # "Continue"
  <2>1. d = Fails(b, r.out)
    BY <1>1, <1>5, <1>6 DEF Settle
  <2>2. d.b = b /\ d.out = r.out /\ d \in Results
    BY <1>4, <2>1 DEF Fails, Results, Answered
  <2> QED BY <1>4, <1>6, <2>2 DEF Answered, Decoded
<1>7. CASE r.out = "Continue" /\ ~ValidateComplete(r.b, k)
  <2>1. d = Fails(b, "FieldHierarchy")
    BY <1>1, <1>5, <1>7 DEF Settle
  <2>2. d.b = b /\ d.out = "FieldHierarchy" /\ d \in Results /\ "FieldHierarchy" \in SinkErrors
    BY <2>1 DEF Fails, Results, Outcomes, SinkErrors
  <2> QED BY <2>2 DEF Decoded
<1>8. CASE r.out = "Continue" /\ ValidateComplete(r.b, k)
  <2>1. d = r
    BY <1>1, <1>8 DEF Settle
  <2>2. EachOnce(b, r.b)
    BY <1>2, <1>8 DEF ValidateComplete, EachOnce, Added, Begun
  <2> QED BY <1>4, <1>8, <2>1, <2>2 DEF Answered, Decoded
<1> QED BY <1>6, <1>7, <1>8

-----------------------------------------------------------------------------
\* The times of a capture.

\* A second has at least one tick, so fractions can be compared by their products.
LEMMA TicksPositive ==
    ASSUME NEW t \in CaptureTimestamp
    PROVE  /\ t.seconds \in Int /\ t.fraction \in Nat
           /\ Denominator(t.resolution) \in Nat /\ Denominator(t.resolution) > 0
<1>1. t.seconds \in Int /\ t.fraction \in Nat /\ t.resolution \in Resolutions
  BY DEF CaptureTimestamp
<1> QED BY <1>1 DEF Resolutions

\* Fractions compared by multiplying across are ordered as fractions are.
LEMMA FractionsOrdered ==
    ASSUME NEW a \in Nat, NEW b \in Nat, NEW c \in Nat,
           NEW p \in Nat, NEW q \in Nat, NEW r \in Nat, p > 0, q > 0, r > 0
    PROVE  /\ a * q < b * p /\ b * r < c * q => a * r < c * p
           /\ a * q >= b * p /\ b * r >= c * q => a * r >= c * p
<1>1. \A x, y, k \in Nat : k > 0 => (x < y <=> x * k < y * k)
  OBVIOUS
<1>2. /\ a * q \in Nat /\ b * p \in Nat /\ b * r \in Nat /\ c * q \in Nat
      /\ a * r \in Nat /\ c * p \in Nat
  OBVIOUS
<1>3. /\ (a * q) * r = (a * r) * q /\ (b * p) * r = (b * r) * p /\ (c * q) * p = (c * p) * q
  OBVIOUS
<1>4. /\ a * q < b * p <=> (a * q) * r < (b * p) * r
      /\ b * r < c * q <=> (b * r) * p < (c * q) * p
      /\ a * r < c * p <=> (a * r) * q < (c * p) * q
  BY <1>1, <1>2
<1> DEFINE x == (a * q) * r
           y == (b * p) * r
           z == (c * q) * p
<1>5. x \in Nat /\ y \in Nat /\ z \in Nat
  BY <1>2
<1>6. /\ a * q < b * p <=> x < y
      /\ b * r < c * q <=> y < z
      /\ a * r < c * p <=> x < z
  BY <1>3, <1>4
<1> HIDE DEF x, y, z
<1> QED BY <1>2, <1>5, <1>6

\* cmp_instant is a strict order, whatever the resolutions of the times compared.
LEMMA TimesOrdered ==
    ASSUME NEW s \in CaptureTimestamp, NEW t \in CaptureTimestamp, NEW u \in CaptureTimestamp
    PROVE  /\ ~Earlier(t, t)
           /\ Earlier(s, t) /\ Earlier(t, u) => Earlier(s, u)
           /\ ~Earlier(s, t) /\ ~Earlier(t, u) => ~Earlier(s, u)
<1> DEFINE p == Denominator(s.resolution)
           q == Denominator(t.resolution)
           r == Denominator(u.resolution)
           a == s.fraction
           b == t.fraction
           c == u.fraction
<1>1. /\ s.seconds \in Int /\ t.seconds \in Int /\ u.seconds \in Int
      /\ a \in Nat /\ b \in Nat /\ c \in Nat /\ p \in Nat /\ q \in Nat /\ r \in Nat
      /\ p > 0 /\ q > 0 /\ r > 0
  BY TicksPositive
<1>2. /\ Earlier(s, t) <=> s.seconds < t.seconds \/ (s.seconds = t.seconds /\ a * q < b * p)
      /\ Earlier(t, u) <=> t.seconds < u.seconds \/ (t.seconds = u.seconds /\ b * r < c * q)
      /\ Earlier(s, u) <=> s.seconds < u.seconds \/ (s.seconds = u.seconds /\ a * r < c * p)
      /\ Earlier(t, t) <=> t.seconds < t.seconds \/ (t.seconds = t.seconds /\ b * q < b * q)
  BY DEF Earlier
<1> HIDE DEF p, q, r, a, b, c
<1>3. /\ a * q \in Nat /\ b * p \in Nat /\ b * r \in Nat /\ c * q \in Nat
      /\ a * r \in Nat /\ c * p \in Nat /\ b * q \in Nat
  BY <1>1
<1>4. /\ a * q < b * p /\ b * r < c * q => a * r < c * p
      /\ a * q >= b * p /\ b * r >= c * q => a * r >= c * p
  BY <1>1, FractionsOrdered
<1>5. ~Earlier(t, t)
  BY <1>1, <1>2, <1>3
<1>6. Earlier(s, t) /\ Earlier(t, u) => Earlier(s, u)
  BY <1>1, <1>2, <1>3, <1>4
<1>7. ~Earlier(s, t) /\ ~Earlier(t, u) => ~Earlier(s, u)
  BY <1>1, <1>2, <1>3, <1>4
<1> QED BY <1>5, <1>6, <1>7

\* A packet with a time has one of the type.
LEMMA TimedTyped ==
    ASSUME NEW packets \in Seq(PacketRecord), NEW i \in Timed(packets)
    PROVE  /\ i \in 1 .. Len(packets) /\ packets[i].timestamp # None
           /\ packets[i].timestamp \in CaptureTimestamp
<1>1. i \in 1 .. Len(packets) /\ packets[i].timestamp # None
  BY DEF Timed
<1>2. packets[i] \in PacketRecord
  BY <1>1
<1> QED BY <1>1, <1>2 DEF PacketRecord, Optional

\* Only one packet can be the first with the earliest time.
LEMMA TimesFound ==
    ASSUME NEW packets \in Seq(PacketRecord), NEW earliest, NEW latest,
           TimesOf(packets, earliest, latest)
    PROVE  earliest = Earliest(packets) /\ latest = Latest(packets)
<1>1. CASE Timed(packets) = {}
  BY <1>1 DEF TimesOf, Earliest, Latest
<1>2. CASE Timed(packets) # {}
  <2>0. \A k \in Timed(packets) : k \in Nat
    BY TimedTyped
  <2>1. PICK i \in Timed(packets) : IsEarliest(packets, i) /\ earliest = packets[i].timestamp
    BY <1>2 DEF TimesOf
  <2>2. PICK j \in Timed(packets) : IsLatest(packets, j) /\ latest = packets[j].timestamp
    BY <1>2 DEF TimesOf
  <2>3. \A k \in Timed(packets) : IsEarliest(packets, k) => k = i
    BY <2>0, <2>1 DEF IsEarliest
  <2>4. \A k \in Timed(packets) : IsLatest(packets, k) => k = j
    BY <2>0, <2>2 DEF IsLatest
  <2>5. (CHOOSE k \in Timed(packets) : IsEarliest(packets, k)) = i
    BY <2>1, <2>3
  <2>6. (CHOOSE k \in Timed(packets) : IsLatest(packets, k)) = j
    BY <2>2, <2>4
  <2>7. Earliest(packets) = packets[CHOOSE k \in Timed(packets) : IsEarliest(packets, k)].timestamp
    BY <1>2 DEF Earliest
  <2>8. Latest(packets) = packets[CHOOSE k \in Timed(packets) : IsLatest(packets, k)].timestamp
    BY <1>2 DEF Latest
  <2> QED BY <2>1, <2>2, <2>5, <2>6, <2>7, <2>8
<1> QED BY <1>1, <1>2

\* push_packet keeps the first of the earliest times and the first of the latest.
LEMMA TimesPushed ==
    ASSUME NEW packets \in Seq(PacketRecord), NEW p \in PacketRecord, NEW earliest, NEW latest,
           TimesOf(packets, earliest, latest)
    PROVE  LET t == p.timestamp
               first == IF t # None /\ (earliest = None \/ (t # None /\ Earlier(t, earliest)))
                        THEN t ELSE earliest
               last == IF t # None /\ (latest = None \/ (t # None /\ Earlier(latest, t)))
                       THEN t ELSE latest
           IN  /\ TimesOf(Append(packets, p), first, last)
               /\ first \in {t, earliest} /\ last \in {t, latest}
<1> DEFINE t == p.timestamp
           n == Len(packets) + 1
           pushed == Append(packets, p)
           first == IF t # None /\ (earliest = None \/ (t # None /\ Earlier(t, earliest)))
                    THEN t ELSE earliest
           last == IF t # None /\ (latest = None \/ (t # None /\ Earlier(latest, t)))
                   THEN t ELSE latest
<1>1. /\ pushed \in Seq(PacketRecord) /\ pushed[n] = p /\ DOMAIN pushed = 1 .. n
      /\ \A i \in 1 .. Len(packets) : pushed[i] = packets[i]
      /\ n \in Nat
  OBVIOUS
<1> HIDE DEF pushed
<1>2. \A i \in Timed(packets) : /\ i \in 1 .. Len(packets) /\ i < n /\ i \in Nat
                                /\ pushed[i].timestamp = packets[i].timestamp
                                /\ packets[i].timestamp \in CaptureTimestamp
                                /\ packets[i].timestamp # None
  BY <1>1, TimedTyped
<1>3. Timed(pushed) = IF t = None THEN Timed(packets) ELSE Timed(packets) \cup {n}
  <2>1. \A i \in 1 .. n : i = n \/ i \in 1 .. Len(packets)
    OBVIOUS
  <2>2. n \notin 1 .. Len(packets) /\ DOMAIN packets = 1 .. Len(packets)
    OBVIOUS
  <2> HIDE DEF n
  <2>3. \A i \in Timed(pushed) : i \in Timed(packets) \/ (i = n /\ t # None)
    BY <1>1, <2>1, <2>2 DEF Timed
  <2>4. \A i \in Timed(packets) : i \in 1 .. n /\ pushed[i].timestamp # None
    BY <1>1, <1>2, <2>2
  <2>5. n \in 1 .. n
    BY DEF n
  <2>6. /\ Timed(packets) \subseteq Timed(pushed)
        /\ t # None => n \in Timed(pushed)
        /\ t = None => n \notin Timed(pushed)
    BY <1>1, <2>4, <2>5 DEF Timed
  <2> QED BY <2>3, <2>6
<1>4. CASE t = None
  <2>1. \A i \in Timed(packets) : IsEarliest(packets, i) => IsEarliest(pushed, i)
    BY <1>2, <1>3, <1>4 DEF IsEarliest
  <2>2. \A i \in Timed(packets) : IsLatest(packets, i) => IsLatest(pushed, i)
    BY <1>2, <1>3, <1>4 DEF IsLatest
  <2>3. first = earliest /\ last = latest
    BY <1>4
  <2>4. TimesOf(pushed, earliest, latest)
    BY <1>2, <1>3, <1>4, <2>1, <2>2 DEF TimesOf
  <2> QED BY <2>3, <2>4 DEF pushed
<1>5. CASE t # None
  <2>0. t \in CaptureTimestamp /\ pushed[n].timestamp = t
    BY <1>1, <1>5 DEF PacketRecord, Optional
  <2>1. CASE Timed(packets) = {}
    <3>1. first = t /\ last = t
      BY <1>5, <2>1 DEF TimesOf
    <3>2. Timed(pushed) = {n}
      BY <1>3, <1>5, <2>1
    <3>3. ~Earlier(t, t)
      BY <2>0, TimesOrdered
    <3>4. IsEarliest(pushed, n) /\ IsLatest(pushed, n)
      BY <1>1, <2>0, <3>2, <3>3 DEF IsEarliest, IsLatest
    <3>5. TimesOf(pushed, t, t)
      BY <2>0, <3>2, <3>4 DEF TimesOf
    <3> QED BY <3>1, <3>5 DEF pushed
  <2>2. CASE Timed(packets) # {}
    <3>1. PICK i \in Timed(packets) : IsEarliest(packets, i) /\ earliest = packets[i].timestamp
      BY <2>2 DEF TimesOf
    <3>2. PICK j \in Timed(packets) : IsLatest(packets, j) /\ latest = packets[j].timestamp
      BY <2>2 DEF TimesOf
    <3>3. earliest \in CaptureTimestamp /\ latest \in CaptureTimestamp
          /\ earliest # None /\ latest # None
      BY <1>2, <3>1, <3>2
    <3>4. first = (IF Earlier(t, earliest) THEN t ELSE earliest)
          /\ last = (IF Earlier(latest, t) THEN t ELSE latest)
      BY <1>5, <3>3
    <3>5. ~Earlier(t, t)
      BY <2>0, TimesOrdered
    <3>6. Timed(pushed) = Timed(packets) \cup {n}
      BY <1>3, <1>5
    <3> HIDE DEF t, n, first, last
    <3>7. \E k \in Timed(pushed) : IsEarliest(pushed, k) /\ first = pushed[k].timestamp
      <4>1. CASE Earlier(t, earliest)
        <5>1. \A k \in Timed(packets) : ~Earlier(packets[k].timestamp, t)
                                         /\ Earlier(t, packets[k].timestamp)
          <6> SUFFICES ASSUME NEW k \in Timed(packets)
                       PROVE  ~Earlier(packets[k].timestamp, t) /\ Earlier(t, packets[k].timestamp)
            OBVIOUS
          <6>1. ~Earlier(packets[k].timestamp, earliest) /\ packets[k].timestamp \in CaptureTimestamp
            BY <1>2, <3>1 DEF IsEarliest
          <6> QED BY <2>0, <3>3, <4>1, <6>1, TimesOrdered
        <5>2. IsEarliest(pushed, n)
          BY <1>1, <1>2, <2>0, <3>5, <3>6, <5>1 DEF IsEarliest
        <5> QED BY <2>0, <3>4, <3>6, <4>1, <5>2
      <4>2. CASE ~Earlier(t, earliest)
        <5>1. IsEarliest(pushed, i)
          BY <1>1, <1>2, <2>0, <3>1, <3>6, <4>2 DEF IsEarliest
        <5> QED BY <1>2, <3>1, <3>4, <3>6, <4>2, <5>1
      <4> QED BY <4>1, <4>2
    <3>8. \E k \in Timed(pushed) : IsLatest(pushed, k) /\ last = pushed[k].timestamp
      <4>1. CASE Earlier(latest, t)
        <5>1. \A k \in Timed(packets) : ~Earlier(t, packets[k].timestamp)
                                         /\ Earlier(packets[k].timestamp, t)
          <6> SUFFICES ASSUME NEW k \in Timed(packets)
                       PROVE  ~Earlier(t, packets[k].timestamp) /\ Earlier(packets[k].timestamp, t)
            OBVIOUS
          <6>1. ~Earlier(latest, packets[k].timestamp) /\ packets[k].timestamp \in CaptureTimestamp
            BY <1>2, <3>2 DEF IsLatest
          <6> QED BY <2>0, <3>3, <4>1, <6>1, TimesOrdered
        <5>2. IsLatest(pushed, n)
          BY <1>1, <1>2, <2>0, <3>5, <3>6, <5>1 DEF IsLatest
        <5> QED BY <2>0, <3>4, <3>6, <4>1, <5>2
      <4>2. CASE ~Earlier(latest, t)
        <5>1. IsLatest(pushed, j)
          BY <1>1, <1>2, <2>0, <3>2, <3>6, <4>2 DEF IsLatest
        <5> QED BY <1>2, <3>2, <3>4, <3>6, <4>2, <5>1
      <4> QED BY <4>1, <4>2
    <3>9. Timed(pushed) # {}
      BY <3>6
    <3>10. TimesOf(pushed, first, last) /\ first \in {t, earliest} /\ last \in {t, latest}
      BY <3>4, <3>7, <3>8, <3>9 DEF TimesOf
    <3> QED BY <3>10 DEF pushed, first, last, t
  <2> QED BY <2>1, <2>2
<1> QED BY <1>4, <1>5

-----------------------------------------------------------------------------
\* What keeps a builder whole.

\* Diagnostics and strings have been added: of the capture, or of the packet to come.
Annotated(m, b) ==
    /\ b \in Builders /\ Ceilings(b) /\ Kept(m, b)
    /\ b.layers = m.layers /\ b.fields = m.fields /\ b.field_children = m.field_children
    /\ \A g \in Added(m.diagnostics, b.diagnostics) :
          /\ HasString(b, b.diagnostics[g].message)
          /\ IsWithin(b.diagnostics[g].byte_range, file.length)
          /\ b.diagnostics[g].scope \in {None, Len(m.packets) + 1}

\* An id of a string stays one while the strings grow.
LEMMA StringsKept ==
    ASSUME NEW m \in Builders, NEW b \in Builders, Grows(m.strings, b.strings), NEW id, HasString(m, id)
    PROVE  HasString(b, id)
  BY ArenasTyped DEF HasString, Grows

\* Strings and diagnostics leave sections, interfaces and packets alone.
LEMMA SkeletonAnnotated ==
    ASSUME NEW m \in Builders, NEW b \in Builders, Steady(m, b), Grows(m.strings, b.strings), Skeleton(m)
    PROVE  Skeleton(b)
<1>0. /\ b.consumed = m.consumed /\ b.complete = m.complete /\ b.current = m.current
      /\ b.sections = m.sections /\ b.interfaces = m.interfaces /\ b.packets = m.packets
  BY DEF Steady
<1>1. CurrentSection(b)
  BY <1>0 DEF Skeleton, CurrentSection
<1>2. \A s : /\ SectionEnd(b, s) = SectionEnd(m, s)
             /\ InterfaceStart(b, s) = InterfaceStart(m, s)
             /\ InterfaceEnd(b, s) = InterfaceEnd(m, s)
  BY <1>0 DEF SectionEnd, InterfaceStart, InterfaceEnd
<1>3. Sections(b)
  BY <1>0, <1>2 DEF Skeleton, Sections
<1>4. Interfaces(b)
  BY <1>0, <1>2, StringsKept DEF Skeleton, Interfaces
<1>5. \A i \in DOMAIN b.packets : PacketWhole(b, b.packets[i])
  BY <1>0, <1>2 DEF Skeleton, PacketWhole
<1> QED BY <1>1, <1>3, <1>4, <1>5 DEF Skeleton

\* Strings and diagnostics that are no packet's yet leave what the packets carry alone.
LEMMA TreesAnnotated ==
    ASSUME NEW m \in Builders, NEW b, Annotated(m, b), Trees(m)
    PROVE  Trees(b)
<1>0. /\ b \in Builders /\ b.packets = m.packets /\ b.layers = m.layers /\ b.fields = m.fields
      /\ b.field_children = m.field_children
      /\ b.started_at = m.started_at /\ b.ended_at = m.ended_at
  BY DEF Annotated, Kept, Steady
<1>1. \A id : HasString(m, id) => HasString(b, id)
  BY <1>0, StringsKept DEF Annotated, Kept
<1>2. PacketLayers(b)
  BY <1>0 DEF Trees, PacketLayers
<1>3. Layers(b)
  BY <1>0, <1>1 DEF Trees, Layers
<1>4. Fields(b)
  <2>1. \A i : Parents(b, i) = Parents(m, i) /\ Roots(b, i) = Roots(m, i)
    BY <1>0 DEF Parents, Roots
  <2> QED BY <1>0, <1>1, <2>1 DEF Trees, Fields
<1>5. FieldChildren(b)
  BY <1>0 DEF Trees, FieldChildren
<1>6. Times(b)
  BY <1>0 DEF Trees, Times
<1>7. \A g \in DOMAIN b.diagnostics :
          \/ g \in DOMAIN m.diagnostics /\ b.diagnostics[g] = m.diagnostics[g]
          \/ /\ g \in Added(m.diagnostics, b.diagnostics)
             /\ g > Len(m.diagnostics) /\ g \in Nat
  <2>1. /\ Len(m.diagnostics) \in Nat /\ Len(b.diagnostics) \in Nat
        /\ DOMAIN m.diagnostics = 1 .. Len(m.diagnostics)
        /\ DOMAIN b.diagnostics = 1 .. Len(b.diagnostics)
    BY <1>0, ArenasTyped
  <2>2. \A g \in 1 .. Len(m.diagnostics) : b.diagnostics[g] = m.diagnostics[g]
    BY DEF Annotated, Kept, Grows
  <2> QED BY <2>1, <2>2 DEF Added
<1>8. Len(m.packets) \in Nat /\ DOMAIN m.packets = 1 .. Len(m.packets)
  BY ArenasTyped
<1>9. Diagnostics(b)
  <2> SUFFICES ASSUME NEW g \in DOMAIN b.diagnostics
               PROVE  LET diagnostic == b.diagnostics[g]
                      IN  /\ HasString(b, diagnostic.message)
                          /\ IsWithin(diagnostic.byte_range, file.length)
                          /\ diagnostic.scope # None => diagnostic.scope \in 1 .. Len(b.packets) + 1
    BY DEF Diagnostics
  <2>1. CASE g \in DOMAIN m.diagnostics /\ b.diagnostics[g] = m.diagnostics[g]
    BY <1>0, <1>1, <2>1 DEF Trees, Diagnostics
  <2>2. CASE g \in Added(m.diagnostics, b.diagnostics)
    BY <1>0, <1>8, <2>2 DEF Annotated
  <2> QED BY <1>7, <2>1, <2>2
<1>10. PacketDiagnostics(b)
  <2>1. Len(m.diagnostics) \in Nat /\ Len(b.diagnostics) \in Nat /\ Len(m.diagnostics) <= Len(b.diagnostics)
    BY <1>0, ArenasTyped DEF Annotated, Kept, Grows
  <2> SUFFICES ASSUME NEW i \in 1 .. Len(m.packets)
               PROVE  LET p == m.packets[i]
                      IN  /\ p.diagnostics.start >= 0
                          /\ End(p.diagnostics) <= Len(b.diagnostics)
                          /\ \A g \in DOMAIN b.diagnostics :
                                /\ g \in Entries(p.diagnostics) <=> b.diagnostics[g].scope = i
                                /\ b.diagnostics[g].scope = i => Covers(p.data, b.diagnostics[g].byte_range)
    BY <1>0, <1>8 DEF PacketDiagnostics
  <2> DEFINE p == m.packets[i]
  <2>2. /\ p.diagnostics.start >= 0 /\ End(p.diagnostics) <= Len(m.diagnostics)
        /\ \A g \in DOMAIN m.diagnostics :
              /\ g \in Entries(p.diagnostics) <=> m.diagnostics[g].scope = i
              /\ m.diagnostics[g].scope = i => Covers(p.data, m.diagnostics[g].byte_range)
    BY <1>8 DEF Trees, PacketDiagnostics
  <2>3. p.diagnostics \in Ranges
    <3>1. p \in PacketRecord
      BY ArenasTyped
    <3> QED BY <3>1 DEF PacketRecord
  <2> HIDE DEF p
  <2>4. End(p.diagnostics) \in Int
    BY <2>3 DEF End, Ranges
  <2>5. ASSUME NEW g \in Added(m.diagnostics, b.diagnostics), g > Len(m.diagnostics), g \in Nat
        PROVE  g \notin Entries(p.diagnostics) /\ b.diagnostics[g].scope # i
    <3>1. g \notin Entries(p.diagnostics)
      BY <2>1, <2>2, <2>3, <2>4, <2>5 DEF Entries, Ranges
    <3>2. None # i
      BY NoneAssumption
    <3>3. b.diagnostics[g].scope \in {None, Len(m.packets) + 1}
      BY <2>5 DEF Annotated
    <3> QED BY <1>8, <3>1, <3>2, <3>3
  <2>6. \A g \in DOMAIN b.diagnostics :
            /\ g \in Entries(p.diagnostics) <=> b.diagnostics[g].scope = i
            /\ b.diagnostics[g].scope = i => Covers(p.data, b.diagnostics[g].byte_range)
    BY <1>7, <2>2, <2>5
  <2>7. End(p.diagnostics) <= Len(b.diagnostics)
    BY <2>1, <2>2, <2>4
  <2> QED BY <2>2, <2>6, <2>7 DEF p
<1> QED BY <1>2, <1>3, <1>4, <1>5, <1>6, <1>9, <1>10 DEF Trees

\* The trees do not depend on sections, interfaces and the position.
LEMMA TreesElsewhere ==
    ASSUME NEW m \in Builders, NEW n \in Builders, Trees(m),
           n.packets = m.packets, n.layers = m.layers, n.fields = m.fields,
           n.field_children = m.field_children, n.diagnostics = m.diagnostics,
           n.strings = m.strings, n.started_at = m.started_at, n.ended_at = m.ended_at
    PROVE  Trees(n)
<1>1. PacketLayers(n)
  BY DEF Trees, PacketLayers
<1>2. PacketDiagnostics(n)
  BY DEF Trees, PacketDiagnostics
<1>3. Diagnostics(n)
  BY DEF Trees, Diagnostics, HasString
<1>4. Layers(n)
  BY DEF Trees, Layers, HasString
<1>5. Fields(n)
  <2>1. \A i : Parents(n, i) = Parents(m, i) /\ Roots(n, i) = Roots(m, i)
    BY DEF Parents, Roots
  <2>2. \A id : HasString(m, id) <=> HasString(n, id)
    BY DEF HasString
  <2> QED BY <2>1, <2>2 DEF Trees, Fields
<1>6. FieldChildren(n)
  BY DEF Trees, FieldChildren
<1>7. Times(n)
  BY DEF Trees, Times
<1> QED BY <1>1, <1>2, <1>3, <1>4, <1>5, <1>6, <1>7 DEF Trees

\* The types of the entries of the first three arenas.
LEMMA EntriesTyped ==
    ASSUME NEW m \in Builders
    PROVE  /\ m.consumed \in Nat
           /\ \A s \in DOMAIN m.sections :
                 /\ s \in Nat /\ s \in 1 .. Len(m.sections)
                 /\ m.sections[s].byte_range.start \in Int /\ m.sections[s].byte_range.length \in Int
                 /\ m.sections[s].interfaces.start \in Int /\ m.sections[s].interfaces.length \in Int
                 /\ End(m.sections[s].byte_range) \in Int /\ End(m.sections[s].interfaces) \in Int
           /\ \A e \in DOMAIN m.interfaces :
                 /\ e \in Nat /\ e \in 1 .. Len(m.interfaces)
                 /\ m.interfaces[e].byte_range.start \in Int
                 /\ End(m.interfaces[e].byte_range) \in Int
                 /\ m.interfaces[e].section \in Nat
           /\ \A i \in DOMAIN m.packets :
                 /\ i \in 1 .. Len(m.packets) /\ m.packets[i] \in PacketRecord
                 /\ m.packets[i].data.start \in Int /\ m.packets[i].data.length \in Int
                 /\ End(m.packets[i].data) \in Int
                 /\ m.packets[i].layers \in Ranges /\ m.packets[i].diagnostics \in Ranges
           /\ m.current # None =>
                 /\ m.current.index \in Nat /\ m.current.start \in Nat
                 /\ m.current.interface_start \in Nat
<1>1. m.consumed \in Nat /\ m.current \in Optional(OpenSections)
  BY DEF Builders
<1>2. ASSUME NEW s \in DOMAIN m.sections
      PROVE  /\ s \in Nat /\ s \in 1 .. Len(m.sections)
             /\ m.sections[s].byte_range.start \in Int /\ m.sections[s].byte_range.length \in Int
             /\ m.sections[s].interfaces.start \in Int /\ m.sections[s].interfaces.length \in Int
             /\ End(m.sections[s].byte_range) \in Int /\ End(m.sections[s].interfaces) \in Int
  <2>1. m.sections[s] \in SectionMetadata /\ s \in 1 .. Len(m.sections)
    BY ArenasTyped
  <2>2. m.sections[s].byte_range \in Ranges /\ m.sections[s].interfaces \in Ranges
    BY <2>1 DEF SectionMetadata
  <2> QED BY <2>1, <2>2 DEF Ranges, End
<1>3. ASSUME NEW e \in DOMAIN m.interfaces
      PROVE  /\ e \in Nat /\ e \in 1 .. Len(m.interfaces)
             /\ m.interfaces[e].byte_range.start \in Int
             /\ End(m.interfaces[e].byte_range) \in Int
             /\ m.interfaces[e].section \in Nat
  <2>1. m.interfaces[e] \in InterfaceMetadata /\ e \in 1 .. Len(m.interfaces)
    BY ArenasTyped
  <2>2. m.interfaces[e].byte_range \in Ranges /\ m.interfaces[e].section \in Nat
    BY <2>1 DEF InterfaceMetadata
  <2> QED BY <2>1, <2>2 DEF Ranges, End
<1>4. ASSUME NEW i \in DOMAIN m.packets
      PROVE  /\ i \in 1 .. Len(m.packets) /\ m.packets[i] \in PacketRecord
             /\ m.packets[i].data.start \in Int /\ m.packets[i].data.length \in Int
             /\ End(m.packets[i].data) \in Int
             /\ m.packets[i].layers \in Ranges /\ m.packets[i].diagnostics \in Ranges
  <2>1. m.packets[i] \in PacketRecord /\ i \in 1 .. Len(m.packets)
    BY ArenasTyped
  <2>2. m.packets[i].data \in Ranges /\ m.packets[i].layers \in Ranges /\ m.packets[i].diagnostics \in Ranges
    BY <2>1 DEF PacketRecord
  <2> QED BY <2>1, <2>2 DEF Ranges, End
<1>5. m.current # None => /\ m.current.index \in Nat /\ m.current.start \in Nat
                          /\ m.current.interface_start \in Nat
  BY <1>1 DEF Optional, OpenSections
<1> QED BY <1>1, <1>2, <1>3, <1>4, <1>5

\* Where sections and their interfaces end.
LEMMA EndsTyped ==
    ASSUME NEW m \in Builders, NEW s \in DOMAIN m.sections
    PROVE  /\ SectionEnd(m, s) \in Int
           /\ InterfaceStart(m, s) \in Int /\ InterfaceEnd(m, s) \in Int
<1>1. m.consumed \in Nat /\ Len(m.interfaces) \in Nat
  BY EntriesTyped, ArenasTyped
<1>2. /\ End(m.sections[s].byte_range) \in Int /\ End(m.sections[s].interfaces) \in Int
      /\ m.sections[s].interfaces.start \in Int
  BY EntriesTyped
<1>3. m.current # None => m.current.interface_start \in Nat
  BY EntriesTyped
<1> QED BY <1>1, <1>2, <1>3 DEF SectionEnd, InterfaceStart, InterfaceEnd

\* A section that ends later, interfaces and packets staying the same.
LEMMA SkeletonLater ==
    ASSUME NEW m \in Builders, NEW n \in Builders, Skeleton(m),
           n.interfaces = m.interfaces, n.packets = m.packets, n.strings = m.strings,
           Len(n.sections) = Len(m.sections),
           CurrentSection(n), Sections(n),
           \A s \in DOMAIN m.sections :
              /\ n.sections[s].byte_range.start = m.sections[s].byte_range.start
              /\ SectionEnd(n, s) >= SectionEnd(m, s)
              /\ InterfaceStart(n, s) = InterfaceStart(m, s)
              /\ InterfaceEnd(n, s) = InterfaceEnd(m, s)
    PROVE  Skeleton(n)
<1>1. DOMAIN n.sections = DOMAIN m.sections
  BY ArenasTyped
<1>2. \A s \in DOMAIN m.sections : SectionEnd(n, s) \in Int /\ SectionEnd(m, s) \in Int
  BY <1>1, EndsTyped
<1>3. \A e \in DOMAIN m.interfaces : End(m.interfaces[e].byte_range) \in Int
  BY EntriesTyped
<1>4. Interfaces(n)
  <2> SUFFICES ASSUME NEW e \in DOMAIN m.interfaces
               PROVE  LET interface == m.interfaces[e]
                          section == interface.section
                      IN  /\ section \in DOMAIN n.sections
                          /\ \A s \in DOMAIN n.sections :
                                e \in InterfaceStart(n, s) + 1 .. InterfaceEnd(n, s) <=> s = section
                          /\ interface.section_index = e - InterfaceStart(n, section)
                          /\ interface.byte_range.start >= n.sections[section].byte_range.start
                          /\ End(interface.byte_range) <= SectionEnd(n, section)
                          /\ interface.name # None => HasString(n, interface.name)
    BY DEF Interfaces
  <2> DEFINE section == m.interfaces[e].section
  <2>1. /\ section \in DOMAIN m.sections
        /\ \A s \in DOMAIN m.sections :
              e \in InterfaceStart(m, s) + 1 .. InterfaceEnd(m, s) <=> s = section
        /\ m.interfaces[e].section_index = e - InterfaceStart(m, section)
        /\ m.interfaces[e].byte_range.start >= m.sections[section].byte_range.start
        /\ End(m.interfaces[e].byte_range) <= SectionEnd(m, section)
        /\ m.interfaces[e].name # None => HasString(m, m.interfaces[e].name)
    BY DEF Skeleton, Interfaces
  <2>2. End(m.interfaces[e].byte_range) <= SectionEnd(n, section)
    BY <1>2, <1>3, <2>1
  <2> QED BY <1>1, <2>1, <2>2 DEF HasString
<1>5. \A i \in DOMAIN n.packets : PacketWhole(n, n.packets[i])
  <2> SUFFICES ASSUME NEW i \in DOMAIN m.packets PROVE PacketWhole(n, m.packets[i])
    OBVIOUS
  <2>1. PacketWhole(m, m.packets[i])
    BY DEF Skeleton
  <2>2. End(m.packets[i].data) \in Int
    BY EntriesTyped
  <2>3. End(m.packets[i].data) <= SectionEnd(n, m.packets[i].section)
    BY <1>2, <2>1, <2>2 DEF PacketWhole
  <2> QED BY <1>1, <2>1, <2>3 DEF PacketWhole
<1> QED BY <1>4, <1>5 DEF Skeleton

\* A reader that moves forward lets the open section grow with it.
LEMMA SkeletonMoved ==
    ASSUME NEW m \in Builders, NEW n \in Builders, Skeleton(m),
           n.sections = m.sections, n.interfaces = m.interfaces, n.packets = m.packets,
           n.strings = m.strings, n.current = m.current, n.complete = m.complete,
           n.consumed >= m.consumed, n.consumed <= file.length, file.length \in Nat
    PROVE  Skeleton(n)
<1>1. n.consumed \in Nat /\ m.consumed \in Nat
  BY EntriesTyped
<1>2. CurrentSection(n)
  <2>1. m.current # None => m.current.start \in Nat
    BY EntriesTyped
  <2> QED BY <1>1, <2>1 DEF Skeleton, CurrentSection
<1>3. \A s \in DOMAIN m.sections : /\ SectionEnd(n, s) >= SectionEnd(m, s)
                                   /\ SectionEnd(n, s) <= file.length
                                   /\ ~Legacy /\ ~m.complete => SectionEnd(n, s) <= n.consumed
                                   /\ InterfaceStart(n, s) = InterfaceStart(m, s)
                                   /\ InterfaceEnd(n, s) = InterfaceEnd(m, s)
  <2> SUFFICES ASSUME NEW s \in DOMAIN m.sections
               PROVE  /\ SectionEnd(n, s) >= SectionEnd(m, s)
                      /\ SectionEnd(n, s) <= file.length
                      /\ ~Legacy /\ ~m.complete => SectionEnd(n, s) <= n.consumed
                      /\ InterfaceStart(n, s) = InterfaceStart(m, s)
                      /\ InterfaceEnd(n, s) = InterfaceEnd(m, s)
    OBVIOUS
  <2>1. End(m.sections[s].byte_range) \in Int /\ SectionEnd(m, s) \in Int
    BY EntriesTyped, EndsTyped
  <2>2. SectionEnd(m, s) <= file.length /\ (~Legacy /\ ~m.complete => SectionEnd(m, s) <= m.consumed)
    BY DEF Skeleton, Sections
  <2> QED BY <1>1, <2>1, <2>2 DEF SectionEnd, InterfaceStart, InterfaceEnd
<1>4. Sections(n)
  BY <1>3 DEF Skeleton, Sections
<1> QED BY <1>2, <1>3, <1>4, SkeletonLater

\* A range given by its end ends there.
LEMMA RangeTo ==
    ASSUME NEW a \in Int, NEW b \in Int
    PROVE  ByteRange(a, b - a).start = a /\ End(ByteRange(a, b - a)) = b
  BY DEF ByteRange, End

\* close_section_at: the section gets the end and the interfaces it had while it was open.
LEMMA SkeletonClosed ==
    ASSUME NEW m \in Builders, NEW n \in Builders, Skeleton(m), m.current # None,
           NEW end \in Nat, m.consumed <= end, end <= file.length, file.length \in Nat,
           n.sections = [m.sections EXCEPT ![m.current.index] =
                            [byte_range |-> ByteRange(m.current.start, end - m.current.start),
                             interfaces |-> SpanFrom(m.current.interface_start, m.interfaces)]],
           n.interfaces = m.interfaces, n.packets = m.packets, n.strings = m.strings,
           n.current = None, n.consumed = m.consumed, n.complete \/ end = m.consumed
    PROVE  Skeleton(n)
<1> DEFINE cur == m.current.index
           closed == [byte_range |-> ByteRange(m.current.start, end - m.current.start),
                      interfaces |-> SpanFrom(m.current.interface_start, m.interfaces)]
<1>1. /\ cur \in DOMAIN m.sections /\ cur = Len(m.sections)
      /\ m.sections[cur].byte_range.start = m.current.start
      /\ ~Legacy /\ ~m.complete
      /\ m.current.start \in Nat /\ m.current.interface_start \in Nat
      /\ m.current.start <= m.consumed /\ m.consumed \in Nat
  BY EntriesTyped DEF Skeleton, CurrentSection
<1>2. /\ closed.byte_range.start = m.current.start /\ End(closed.byte_range) = end
      /\ closed.interfaces.start = m.current.interface_start
      /\ End(closed.interfaces) = Len(m.interfaces)
  <2>1. Len(m.interfaces) \in Nat
    BY ArenasTyped
  <2> QED BY <1>1, <2>1, RangeTo DEF SpanFrom, ByteRange
<1>3. /\ Len(n.sections) = Len(m.sections) /\ DOMAIN n.sections = DOMAIN m.sections
      /\ n.sections[cur] = closed
      /\ \A s \in DOMAIN m.sections : s # cur => n.sections[s] = m.sections[s]
  <2>1. m.sections \in Seq(SectionMetadata)
    BY ArenasTyped
  <2> HIDE DEF closed
  <2> QED BY <1>1, <2>1 DEF closed
<1> HIDE DEF closed
<1>4. ASSUME NEW s \in DOMAIN m.sections
      PROVE  /\ n.sections[s].byte_range.start = m.sections[s].byte_range.start
             /\ SectionEnd(n, s) = IF s = cur THEN end ELSE SectionEnd(m, s)
             /\ SectionEnd(m, s) \in Int
             /\ s = cur => SectionEnd(m, s) = m.consumed
             /\ InterfaceStart(n, s) = InterfaceStart(m, s)
             /\ InterfaceEnd(n, s) = InterfaceEnd(m, s)
  <2>1. CASE s = cur
    BY <1>1, <1>2, <1>3, <2>1 DEF SectionEnd, InterfaceStart, InterfaceEnd
  <2>2. CASE s # cur
    BY <1>3, <2>2, EndsTyped DEF SectionEnd, InterfaceStart, InterfaceEnd
  <2> QED BY <2>1, <2>2
<1> HIDE DEF cur
<1>5. CurrentSection(n)
  BY DEF CurrentSection
<1>6. Sections(n)
  <2> SUFFICES ASSUME NEW s \in DOMAIN m.sections
               PROVE  /\ SectionEnd(n, s) <= file.length
                      /\ s > 1 => n.sections[s].byte_range.start >= End(n.sections[s - 1].byte_range)
                      /\ ~Legacy /\ ~n.complete => SectionEnd(n, s) <= n.consumed
                      /\ InterfaceStart(n, s) >= 0 /\ InterfaceEnd(n, s) <= Len(n.interfaces)
    BY <1>3 DEF Sections
  <2>1. /\ SectionEnd(m, s) <= file.length
        /\ s > 1 => m.sections[s].byte_range.start >= End(m.sections[s - 1].byte_range)
        /\ SectionEnd(m, s) <= m.consumed
        /\ InterfaceStart(m, s) >= 0 /\ InterfaceEnd(m, s) <= Len(m.interfaces)
    BY <1>1 DEF Skeleton, Sections
  <2>2. s > 1 => s - 1 \in DOMAIN m.sections /\ s - 1 # cur
    <3>1. DOMAIN m.sections = 1 .. Len(m.sections) /\ Len(m.sections) \in Nat
      BY ArenasTyped
    <3> QED BY <1>1, <3>1
  <2>3. s > 1 => n.sections[s].byte_range.start >= End(n.sections[s - 1].byte_range)
    BY <1>3, <1>4, <2>1, <2>2
  <2> QED BY <1>1, <1>4, <2>1, <2>3
<1>7. \A s \in DOMAIN m.sections : SectionEnd(n, s) >= SectionEnd(m, s)
  BY <1>1, <1>4
<1> QED BY <1>3, <1>4, <1>5, <1>6, <1>7, SkeletonLater

\* process_section_header: a new section begins where the reader is, with no interfaces.
LEMMA SkeletonOpened ==
    ASSUME NEW m \in Builders, NEW n \in Builders, Skeleton(m), m.current = None,
           ~Legacy, ~m.complete, ~n.complete, m.consumed <= file.length, file.length \in Nat,
           n.sections = Append(m.sections, [byte_range |-> ByteRange(m.consumed, 0),
                                            interfaces |-> ByteRange(Len(m.interfaces), 0)]),
           n.current # None, n.current.index = Len(m.sections) + 1,
           n.current.start = m.consumed, n.current.interface_start = Len(m.interfaces),
           n.interfaces = m.interfaces, n.packets = m.packets, n.strings = m.strings,
           n.consumed = m.consumed
    PROVE  Skeleton(n)
<1> DEFINE cur == Len(m.sections) + 1
           open == [byte_range |-> ByteRange(m.consumed, 0),
                    interfaces |-> ByteRange(Len(m.interfaces), 0)]
<1>1. /\ m.sections \in Seq(SectionMetadata) /\ m.consumed \in Nat /\ Len(m.interfaces) \in Nat
      /\ Len(m.sections) \in Nat /\ DOMAIN m.sections = 1 .. Len(m.sections)
      /\ DOMAIN m.interfaces = 1 .. Len(m.interfaces)
  BY ArenasTyped, EntriesTyped
<1>2. /\ Len(n.sections) = cur /\ DOMAIN n.sections = 1 .. cur
      /\ n.sections[cur] = open
      /\ \A s \in 1 .. Len(m.sections) : n.sections[s] = m.sections[s]
  <2> HIDE DEF open
  <2> QED BY <1>1 DEF open
<1>3. open.byte_range.start = m.consumed
  BY DEF ByteRange
<1> HIDE DEF open
<1>4. ASSUME NEW s \in 1 .. Len(m.sections)
      PROVE  /\ SectionEnd(n, s) = SectionEnd(m, s) /\ SectionEnd(m, s) \in Int
             /\ SectionEnd(m, s) = End(m.sections[s].byte_range)
             /\ InterfaceStart(n, s) = InterfaceStart(m, s) /\ InterfaceStart(m, s) \in Int
             /\ InterfaceEnd(n, s) = InterfaceEnd(m, s) /\ InterfaceEnd(m, s) \in Int
  <2>1. s # cur
    BY <1>1
  <2> QED BY <1>1, <1>2, <2>1, EndsTyped DEF SectionEnd, InterfaceStart, InterfaceEnd
<1>5. /\ SectionEnd(n, cur) = m.consumed
      /\ InterfaceStart(n, cur) = Len(m.interfaces) /\ InterfaceEnd(n, cur) = Len(m.interfaces)
  BY DEF SectionEnd, InterfaceStart, InterfaceEnd
<1>6. CurrentSection(n)
  BY <1>1, <1>2, <1>3 DEF CurrentSection
<1>7. \A s \in 1 .. cur : s \in 1 .. Len(m.sections) \/ s = cur
  BY <1>1
<1> HIDE DEF cur
<1>8. Sections(n)
  <2> SUFFICES ASSUME NEW s \in 1 .. cur
               PROVE  /\ SectionEnd(n, s) <= file.length
                      /\ s > 1 => n.sections[s].byte_range.start >= End(n.sections[s - 1].byte_range)
                      /\ SectionEnd(n, s) <= n.consumed
                      /\ InterfaceStart(n, s) >= 0 /\ InterfaceEnd(n, s) <= Len(n.interfaces)
    BY <1>2 DEF Sections
  <2>1. \A t \in 1 .. Len(m.sections) :
            /\ SectionEnd(m, t) <= file.length
            /\ t > 1 => m.sections[t].byte_range.start >= End(m.sections[t - 1].byte_range)
            /\ SectionEnd(m, t) <= m.consumed
            /\ InterfaceStart(m, t) >= 0 /\ InterfaceEnd(m, t) <= Len(m.interfaces)
    BY <1>1 DEF Skeleton, Sections
  <2>2. CASE s \in 1 .. Len(m.sections)
    <3>1. s > 1 => s - 1 \in 1 .. Len(m.sections)
      BY <1>1, <2>2
    <3> QED BY <1>1, <1>2, <1>4, <2>1, <2>2, <3>1
  <2>3. CASE s = cur
    <3>1. s > 1 => s - 1 \in 1 .. Len(m.sections)
      BY <1>1, <2>3 DEF cur
    <3>2. s > 1 => m.consumed >= End(m.sections[s - 1].byte_range)
      BY <1>4, <2>1, <3>1
    <3> QED BY <1>1, <1>2, <1>3, <1>5, <2>3, <3>1, <3>2
  <2> QED BY <1>7, <2>2, <2>3
<1>9. Interfaces(n)
  <2> SUFFICES ASSUME NEW e \in DOMAIN m.interfaces
               PROVE  LET interface == m.interfaces[e]
                          section == interface.section
                      IN  /\ section \in 1 .. cur
                          /\ \A s \in 1 .. cur :
                                e \in InterfaceStart(n, s) + 1 .. InterfaceEnd(n, s) <=> s = section
                          /\ interface.section_index = e - InterfaceStart(n, section)
                          /\ interface.byte_range.start >= n.sections[section].byte_range.start
                          /\ End(interface.byte_range) <= SectionEnd(n, section)
                          /\ interface.name # None => HasString(n, interface.name)
    BY <1>2 DEF Interfaces
  <2> DEFINE section == m.interfaces[e].section
  <2>1. /\ section \in 1 .. Len(m.sections)
        /\ \A s \in 1 .. Len(m.sections) :
              e \in InterfaceStart(m, s) + 1 .. InterfaceEnd(m, s) <=> s = section
        /\ m.interfaces[e].section_index = e - InterfaceStart(m, section)
        /\ m.interfaces[e].byte_range.start >= m.sections[section].byte_range.start
        /\ End(m.interfaces[e].byte_range) <= SectionEnd(m, section)
        /\ m.interfaces[e].name # None => HasString(m, m.interfaces[e].name)
    BY <1>1 DEF Skeleton, Interfaces
  <2>2. section \in 1 .. cur /\ section # cur
    BY <1>1, <2>1 DEF cur
  <2>3. e \notin InterfaceStart(n, cur) + 1 .. InterfaceEnd(n, cur)
    BY <1>1, <1>5
  <2>4. \A s \in 1 .. cur : e \in InterfaceStart(n, s) + 1 .. InterfaceEnd(n, s) <=> s = section
    BY <1>4, <1>7, <2>1, <2>2, <2>3
  <2> QED BY <1>2, <1>4, <2>1, <2>2, <2>4 DEF HasString
<1>10. \A i \in DOMAIN n.packets : PacketWhole(n, n.packets[i])
  <2> SUFFICES ASSUME NEW i \in DOMAIN m.packets PROVE PacketWhole(n, m.packets[i])
    OBVIOUS
  <2>1. PacketWhole(m, m.packets[i])
    BY DEF Skeleton
  <2>2. m.packets[i].section \in 1 .. Len(m.sections)
    BY <1>1, <2>1 DEF PacketWhole
  <2>3. m.packets[i].section \in 1 .. cur
    BY <1>1, <2>2 DEF cur
  <2> QED BY <1>2, <1>4, <2>1, <2>2, <2>3 DEF PacketWhole
<1> QED BY <1>6, <1>8, <1>9, <1>10 DEF Skeleton

\* process_interface: the next interface of the open section.
LEMMA SkeletonWithInterface ==
    ASSUME NEW m \in Builders, NEW n \in Builders, Skeleton(m), m.current # None,
           NEW i \in InterfaceMetadata, n.interfaces = Append(m.interfaces, i),
           i.section = m.current.index,
           i.section_index = Len(m.interfaces) + 1 - m.current.interface_start,
           i.byte_range.start >= m.current.start, End(i.byte_range) <= m.consumed,
           i.name # None => HasString(m, i.name),
           n.sections = m.sections, n.packets = m.packets, n.strings = m.strings,
           n.current = m.current, n.consumed = m.consumed, n.complete = m.complete
    PROVE  Skeleton(n)
<1> DEFINE cur == m.current.index
           new == Len(m.interfaces) + 1
<1>1. /\ m.interfaces \in Seq(InterfaceMetadata) /\ Len(m.interfaces) \in Nat
      /\ DOMAIN m.interfaces = 1 .. Len(m.interfaces)
  BY ArenasTyped
<1>2. /\ Len(n.interfaces) = new /\ DOMAIN n.interfaces = 1 .. new
      /\ n.interfaces[new] = i
      /\ \A e \in 1 .. Len(m.interfaces) : n.interfaces[e] = m.interfaces[e]
  BY <1>1
<1>3. /\ cur \in DOMAIN m.sections /\ m.current.interface_start <= Len(m.interfaces)
      /\ m.current.interface_start \in Nat
      /\ m.sections[cur].byte_range.start = m.current.start
  BY EntriesTyped DEF Skeleton, CurrentSection
<1>4. ASSUME NEW s \in DOMAIN m.sections
      PROVE  /\ SectionEnd(n, s) = SectionEnd(m, s)
             /\ InterfaceStart(n, s) = InterfaceStart(m, s) /\ InterfaceStart(m, s) \in Int
             /\ InterfaceEnd(n, s) = IF s = cur THEN new ELSE InterfaceEnd(m, s)
             /\ InterfaceEnd(m, s) \in Int
             /\ s = cur => /\ InterfaceEnd(m, s) = Len(m.interfaces)
                           /\ InterfaceStart(m, s) = m.current.interface_start
                           /\ SectionEnd(m, s) = m.consumed
             /\ InterfaceStart(m, s) >= 0 /\ InterfaceEnd(m, s) <= Len(m.interfaces)
  <2>1. InterfaceStart(m, s) >= 0 /\ InterfaceEnd(m, s) <= Len(m.interfaces)
    BY DEF Skeleton, Sections
  <2> QED BY <1>2, <2>1, EndsTyped DEF SectionEnd, InterfaceStart, InterfaceEnd
<1>5. CurrentSection(n)
  BY <1>1, <1>2, <1>3 DEF Skeleton, CurrentSection
<1>6. new \in Nat /\ new > Len(m.interfaces)
  BY <1>1
<1>7. \A e \in 1 .. new : e \in 1 .. Len(m.interfaces) \/ e = new
  BY <1>1
<1>8. 1 .. Len(m.interfaces) \subseteq 1 .. new
  BY <1>1
<1>12. i.section = cur /\ i.section_index = new - m.current.interface_start
  <2>1. i.section_index = Len(m.interfaces) + (1 - m.current.interface_start)
    OBVIOUS
  <2>2. \A x, y \in Int : x + (1 - y) = (x + 1) - y
    OBVIOUS
  <2>3. Len(m.interfaces) \in Int /\ m.current.interface_start \in Int
    BY <1>1, <1>3
  <2>4. Len(m.interfaces) + (1 - m.current.interface_start) = new - m.current.interface_start
    BY <2>2, <2>3
  <2> QED BY <2>1, <2>4
<1> HIDE DEF cur, new
<1>9. Sections(n)
  BY <1>1, <1>2, <1>4, <1>6 DEF Skeleton, Sections
<1>10. Interfaces(n)
  <2> SUFFICES ASSUME NEW e \in 1 .. new
               PROVE  LET interface == n.interfaces[e]
                          section == interface.section
                      IN  /\ section \in DOMAIN m.sections
                          /\ \A s \in DOMAIN m.sections :
                                e \in InterfaceStart(n, s) + 1 .. InterfaceEnd(n, s) <=> s = section
                          /\ interface.section_index = e - InterfaceStart(n, section)
                          /\ interface.byte_range.start >= m.sections[section].byte_range.start
                          /\ End(interface.byte_range) <= SectionEnd(n, section)
                          /\ interface.name # None => HasString(n, interface.name)
    BY <1>2 DEF Interfaces
  <2>1. CASE e = new
    <3>1. \A s \in DOMAIN m.sections :
              e \in InterfaceStart(n, s) + 1 .. InterfaceEnd(n, s) <=> s = cur
      <4> SUFFICES ASSUME NEW s \in DOMAIN m.sections
                   PROVE  e \in InterfaceStart(n, s) + 1 .. InterfaceEnd(n, s) <=> s = cur
        OBVIOUS
      <4>1. CASE s = cur
        BY <1>1, <1>3, <1>4, <1>6, <2>1, <4>1
      <4>2. CASE s # cur
        BY <1>1, <1>4, <1>6, <2>1, <4>2
      <4> QED BY <4>1, <4>2
    <3> QED BY <1>2, <1>3, <1>4, <1>12, <2>1, <3>1 DEF HasString
  <2>2. CASE e \in 1 .. Len(m.interfaces)
    <3> DEFINE section == m.interfaces[e].section
    <3>1. /\ section \in DOMAIN m.sections
          /\ \A s \in DOMAIN m.sections :
                e \in InterfaceStart(m, s) + 1 .. InterfaceEnd(m, s) <=> s = section
          /\ m.interfaces[e].section_index = e - InterfaceStart(m, section)
          /\ m.interfaces[e].byte_range.start >= m.sections[section].byte_range.start
          /\ End(m.interfaces[e].byte_range) <= SectionEnd(m, section)
          /\ m.interfaces[e].name # None => HasString(m, m.interfaces[e].name)
      BY <1>1, <2>2 DEF Skeleton, Interfaces
    <3>2. \A s \in DOMAIN m.sections :
              e \in InterfaceStart(n, s) + 1 .. InterfaceEnd(n, s)
              <=> e \in InterfaceStart(m, s) + 1 .. InterfaceEnd(m, s)
      <4> SUFFICES ASSUME NEW s \in DOMAIN m.sections
                   PROVE  e \in InterfaceStart(n, s) + 1 .. InterfaceEnd(n, s)
                          <=> e \in InterfaceStart(m, s) + 1 .. InterfaceEnd(m, s)
        OBVIOUS
      <4>1. e \in Nat /\ e <= Len(m.interfaces)
        BY <1>1, <2>2
      <4> QED BY <1>1, <1>4, <1>6, <4>1
    <3> QED BY <1>2, <1>4, <2>2, <3>1, <3>2 DEF HasString
  <2> QED BY <1>7, <2>1, <2>2
<1>11. \A p \in DOMAIN n.packets : PacketWhole(n, n.packets[p])
  <2> SUFFICES ASSUME NEW p \in DOMAIN m.packets PROVE PacketWhole(n, m.packets[p])
    OBVIOUS
  <2>1. PacketWhole(m, m.packets[p])
    BY DEF Skeleton
  <2>2. m.packets[p].interface \in 1 .. Len(m.interfaces)
    BY <1>1, <2>1 DEF PacketWhole
  <2> QED BY <1>2, <1>4, <1>8, <2>1, <2>2 DEF PacketWhole
<1> QED BY <1>5, <1>9, <1>10, <1>11 DEF Skeleton

\* push_packet: a packet of one of the interfaces.
LEMMA SkeletonWithPacket ==
    ASSUME NEW m \in Builders, NEW n \in Builders, Skeleton(m),
           NEW p \in PacketRecord, n.packets = Append(m.packets, p), PacketWhole(m, p),
           n.sections = m.sections, n.interfaces = m.interfaces, Grows(m.strings, n.strings),
           n.current = m.current, n.consumed = m.consumed, n.complete = m.complete
    PROVE  Skeleton(n)
<1>1. CurrentSection(n)
  BY DEF Skeleton, CurrentSection
<1>2. \A s : /\ SectionEnd(n, s) = SectionEnd(m, s)
             /\ InterfaceStart(n, s) = InterfaceStart(m, s)
             /\ InterfaceEnd(n, s) = InterfaceEnd(m, s)
  BY DEF SectionEnd, InterfaceStart, InterfaceEnd
<1>3. Sections(n)
  BY <1>2 DEF Skeleton, Sections
<1>4. Interfaces(n)
  BY <1>2, StringsKept DEF Skeleton, Interfaces
<1>5. \A q : PacketWhole(m, q) => PacketWhole(n, q)
  BY <1>2 DEF PacketWhole
<1>6. \A i \in DOMAIN n.packets : n.packets[i] = p \/ \E j \in DOMAIN m.packets : n.packets[i] = m.packets[j]
  <2>1. m.packets \in Seq(PacketRecord)
    BY ArenasTyped
  <2> QED BY <2>1
<1>7. \A i \in DOMAIN n.packets : PacketWhole(n, n.packets[i])
  BY <1>5, <1>6 DEF Skeleton
<1> QED BY <1>1, <1>3, <1>4, <1>7 DEF Skeleton

-----------------------------------------------------------------------------
\* A packet is pushed with what was decoded for it: b is what a decode made of a.

\* n: the builder a with its decode b and the packet p that was pending.
Committed(a, b, n, p, start) ==
    /\ a \in Builders /\ b \in Builders /\ n \in Builders /\ p \in PacketRecord
    /\ Decoding(a, b, Len(a.packets) + 1, p.data) /\ EachOnce(a, b)
    /\ file.length \in Nat /\ IsWithin(p.data, file.length)
    /\ n.packets = Append(a.packets, p) /\ n.layers = b.layers /\ n.fields = b.fields
    /\ n.field_children = b.field_children /\ n.diagnostics = b.diagnostics
    /\ n.strings = b.strings
    /\ p.layers = SpanFrom(Len(a.layers), b.layers)
    /\ p.diagnostics = SpanFrom(start, b.diagnostics)
    /\ start \in 0 .. Len(a.diagnostics)
    /\ \A g \in DOMAIN a.diagnostics :
          /\ g > start <=> a.diagnostics[g].scope = Len(a.packets) + 1
          /\ g > start => Covers(p.data, a.diagnostics[g].byte_range)

\* An arena that has grown: its old entries, and its new ones.
LEMMA OldAndNew ==
    ASSUME NEW S, NEW s \in Seq(S), NEW t \in Seq(S), Grows(s, t)
    PROVE  /\ Len(s) \in Nat /\ Len(t) \in Nat /\ Len(s) <= Len(t)
           /\ DOMAIN s = 1 .. Len(s) /\ DOMAIN t = 1 .. Len(t)
           /\ \A i \in DOMAIN t : i \in DOMAIN s \/ i \in Added(s, t)
           /\ \A i \in DOMAIN s : i \in DOMAIN t /\ i \notin Added(s, t) /\ t[i] = s[i] /\ i <= Len(s)
           /\ \A i \in Added(s, t) : i \in DOMAIN t /\ i \notin DOMAIN s /\ i > Len(s) /\ i \in Nat
  BY DEF Grows, Added

\* The arenas of a decode that is committed have grown.
LEMMA CommittedArenas ==
    ASSUME NEW a, NEW b, NEW n, NEW p, NEW start, Committed(a, b, n, p, start)
    PROVE  /\ Grows(a.layers, n.layers) /\ Grows(a.fields, n.fields)
           /\ Grows(a.field_children, n.field_children) /\ Grows(a.diagnostics, n.diagnostics)
           /\ a.layers \in Seq(LayerFact) /\ n.layers \in Seq(LayerFact)
           /\ a.fields \in Seq(DecodedField) /\ n.fields \in Seq(DecodedField)
           /\ a.field_children \in Seq(Nat) /\ n.field_children \in Seq(Nat)
           /\ a.diagnostics \in Seq(DiagnosticRecord) /\ n.diagnostics \in Seq(DiagnosticRecord)
           /\ \A id : HasString(a, id) => HasString(n, id)
           /\ \A id : HasString(b, id) <=> HasString(n, id)
<1>1. a \in Builders /\ b \in Builders /\ n \in Builders
      /\ n.layers = b.layers /\ n.fields = b.fields /\ n.strings = b.strings
      /\ n.field_children = b.field_children /\ n.diagnostics = b.diagnostics
      /\ Kept(a, b)
  BY DEF Committed, Decoding
<1>2. \A id : HasString(a, id) => HasString(b, id)
  BY <1>1, StringsKept DEF Kept
<1> QED BY <1>1, <1>2, ArenasTyped DEF Kept, HasString

\* The committed packet is the last.
LEMMA CommittedPackets ==
    ASSUME NEW a, NEW b, NEW n, NEW p, NEW start, Committed(a, b, n, p, start)
    PROVE  /\ Len(a.packets) \in Nat /\ DOMAIN a.packets = 1 .. Len(a.packets)
           /\ DOMAIN n.packets = 1 .. Len(a.packets) + 1 /\ Len(n.packets) = Len(a.packets) + 1
           /\ n.packets[Len(a.packets) + 1] = p
           /\ \A i \in 1 .. Len(a.packets) : n.packets[i] = a.packets[i] /\ i # Len(a.packets) + 1
           /\ \A i \in 1 .. Len(a.packets) + 1 : i \in 1 .. Len(a.packets) \/ i = Len(a.packets) + 1
           /\ \A i \in 1 .. Len(a.packets) : /\ a.packets[i].layers \in Ranges
                                             /\ a.packets[i].diagnostics \in Ranges
           /\ p.data \in Ranges
<1>1. a \in Builders /\ n.packets = Append(a.packets, p) /\ p \in PacketRecord
  BY DEF Committed
<1>2. a.packets \in Seq(PacketRecord) /\ Len(a.packets) \in Nat
      /\ DOMAIN a.packets = 1 .. Len(a.packets)
  BY <1>1, ArenasTyped
<1>3. \A i \in 1 .. Len(a.packets) : /\ a.packets[i].layers \in Ranges
                                     /\ a.packets[i].diagnostics \in Ranges
  BY <1>1, <1>2, EntriesTyped
<1>4. p.data \in Ranges
  BY <1>1 DEF PacketRecord
<1> QED BY <1>1, <1>2, <1>3, <1>4

\* Every layer belongs to one packet and lies within its data.
LEMMA CommittedLayers ==
    ASSUME NEW a, NEW b, NEW n, NEW p, NEW start, Committed(a, b, n, p, start), Trees(a)
    PROVE  PacketLayers(n)
<1> DEFINE new == Len(a.packets) + 1
<1>1. /\ Len(a.layers) \in Nat /\ Len(n.layers) \in Nat /\ Len(a.layers) <= Len(n.layers)
      /\ DOMAIN a.layers = 1 .. Len(a.layers) /\ DOMAIN n.layers = 1 .. Len(n.layers)
      /\ \A i \in DOMAIN n.layers : i \in DOMAIN a.layers \/ i \in Added(a.layers, n.layers)
      /\ \A i \in DOMAIN a.layers : i \in DOMAIN n.layers /\ n.layers[i] = a.layers[i] /\ i <= Len(a.layers)
      /\ \A i \in Added(a.layers, n.layers) : i \in DOMAIN n.layers /\ i > Len(a.layers) /\ i \in Nat
  <2>1. a.layers \in Seq(LayerFact) /\ n.layers \in Seq(LayerFact) /\ Grows(a.layers, n.layers)
    BY CommittedArenas
  <2> QED BY <2>1, OldAndNew
<1>2. /\ new \in Nat /\ DOMAIN a.packets = 1 .. Len(a.packets) /\ DOMAIN n.packets = 1 .. new
      /\ n.packets[new] = p
      /\ \A i \in 1 .. Len(a.packets) : n.packets[i] = a.packets[i] /\ i # new
      /\ \A i \in 1 .. new : i \in 1 .. Len(a.packets) \/ i = new
      /\ \A i \in 1 .. Len(a.packets) : a.packets[i].layers \in Ranges
      /\ new \in 1 .. new /\ 1 .. Len(a.packets) \subseteq 1 .. new
  BY CommittedPackets
<1>3. /\ p.layers.start = Len(a.layers) /\ End(p.layers) = Len(n.layers)
      /\ Entries(p.layers) = Added(a.layers, n.layers)
  <2>1. p.layers = ByteRange(Len(a.layers), Len(n.layers) - Len(a.layers))
    BY DEF Committed, SpanFrom
  <2>2. p.layers.start = Len(a.layers) /\ End(p.layers) = Len(n.layers)
    <3>1. p.layers.start = Len(a.layers) /\ p.layers.length = Len(n.layers) - Len(a.layers)
      BY <2>1 DEF ByteRange
    <3> QED BY <1>1, <3>1 DEF End
  <2> QED BY <2>2 DEF Entries, Added
<1>4. \A l \in Added(a.layers, n.layers) : Covers(p.data, n.layers[l].byte_range)
  BY DEF Committed, Decoding, NewLayer
<1> HIDE DEF new
<1>5. ASSUME NEW i \in 1 .. Len(a.packets)
      PROVE  /\ a.packets[i].layers.start >= 0 /\ End(a.packets[i].layers) <= Len(a.layers)
             /\ End(a.packets[i].layers) \in Int
             /\ Entries(a.packets[i].layers) \subseteq DOMAIN a.layers
             /\ \A l \in Entries(a.packets[i].layers) : Covers(a.packets[i].data, a.layers[l].byte_range)
  <2>1. /\ a.packets[i].layers.start >= 0 /\ End(a.packets[i].layers) <= Len(a.layers)
        /\ \A l \in Entries(a.packets[i].layers) : Covers(a.packets[i].data, a.layers[l].byte_range)
    BY <1>2 DEF Trees, PacketLayers
  <2>2. a.packets[i].layers \in Ranges
    BY <1>2
  <2>3. /\ a.packets[i].layers.start \in Int /\ a.packets[i].layers.length \in Int
    BY <2>2 DEF Ranges
  <2>4. End(a.packets[i].layers) \in Int
    BY <2>3 DEF End
  <2>5. Entries(a.packets[i].layers) \subseteq DOMAIN a.layers
    <3>1. /\ a.packets[i].layers.start >= 0 /\ End(a.packets[i].layers) <= Len(a.layers)
      BY <2>1
    <3>2. Len(a.layers) \in Nat /\ DOMAIN a.layers = 1 .. Len(a.layers)
      BY <1>1
    <3> QED BY <2>3, <2>4, <3>1, <3>2 DEF Entries
  <2> QED BY <2>1, <2>4, <2>5
<1>6. ASSUME NEW i \in 1 .. new
      PROVE  LET q == n.packets[i]
             IN  /\ q.layers.start >= 0
                 /\ End(q.layers) <= Len(n.layers)
                 /\ \A l \in Entries(q.layers) : Covers(q.data, n.layers[l].byte_range)
  <2>1. CASE i = new
    BY <1>1, <1>2, <1>3, <1>4, <2>1
  <2>2. CASE i \in 1 .. Len(a.packets)
    <3>1. /\ a.packets[i].layers.start >= 0 /\ End(a.packets[i].layers) <= Len(a.layers)
          /\ End(a.packets[i].layers) \in Int
          /\ \A l \in Entries(a.packets[i].layers) :
                l \in DOMAIN a.layers /\ Covers(a.packets[i].data, a.layers[l].byte_range)
      BY <1>5, <2>2
    <3>2. \A l \in Entries(a.packets[i].layers) : n.layers[l] = a.layers[l]
      BY <1>1, <3>1
    <3>3. End(a.packets[i].layers) <= Len(n.layers) /\ n.packets[i] = a.packets[i]
      BY <1>1, <1>2, <2>2, <3>1
    <3> QED BY <3>1, <3>2, <3>3
  <2> QED BY <1>2, <2>1, <2>2
<1>7. ASSUME NEW l \in DOMAIN n.layers
      PROVE  \E i \in 1 .. new : \A j \in 1 .. new : l \in Entries(n.packets[j].layers) <=> j = i
  <2>1. CASE l \in DOMAIN a.layers
    <3>1. PICK i \in 1 .. Len(a.packets) : \A j \in 1 .. Len(a.packets) :
              l \in Entries(a.packets[j].layers) <=> j = i
      BY <1>2, <2>1 DEF Trees, PacketLayers
    <3>2. l \notin Entries(p.layers)
      BY <1>1, <1>3, <2>1
    <3>3. \A j \in 1 .. Len(a.packets) : n.packets[j] = a.packets[j]
      BY <1>2
    <3>4. i \in 1 .. new /\ i # new
      BY <1>2
    <3>5. ASSUME NEW j \in 1 .. new
          PROVE  l \in Entries(n.packets[j].layers) <=> j = i
      <4>1. CASE j = new
        <5>1. n.packets[j] = p
          BY <1>2, <4>1
        <5> QED BY <3>2, <3>4, <4>1, <5>1
      <4>2. CASE j \in 1 .. Len(a.packets)
        BY <3>1, <3>3, <4>2
      <4> QED BY <1>2, <4>1, <4>2
    <3> QED BY <3>4, <3>5
  <2>2. CASE l \in Added(a.layers, n.layers)
    <3>1. \A j \in 1 .. Len(a.packets) : l \notin Entries(a.packets[j].layers)
      BY <1>1, <1>5, <2>2
    <3>2. \A j \in 1 .. Len(a.packets) : n.packets[j] = a.packets[j] /\ j # new
      BY <1>2
    <3>3. l \in Entries(p.layers)
      BY <1>3, <2>2
    <3>4. ASSUME NEW j \in 1 .. new
          PROVE  l \in Entries(n.packets[j].layers) <=> j = new
      <4>1. CASE j = new
        <5>1. n.packets[j] = p
          BY <1>2, <4>1
        <5> QED BY <3>3, <4>1, <5>1
      <4>2. CASE j \in 1 .. Len(a.packets)
        BY <3>1, <3>2, <4>2
      <4> QED BY <1>2, <4>1, <4>2
    <3>5. new \in 1 .. new
      BY <1>2
    <3> QED BY <3>4, <3>5
  <2> QED BY <1>1, <2>1, <2>2
<1>8. /\ \A i \in DOMAIN n.packets :
             LET q == n.packets[i]
             IN  /\ q.layers.start >= 0
                 /\ End(q.layers) <= Len(n.layers)
                 /\ \A l \in Entries(q.layers) : Covers(q.data, n.layers[l].byte_range)
      /\ \A l \in DOMAIN n.layers : \E i \in DOMAIN n.packets : \A j \in DOMAIN n.packets :
             l \in Entries(n.packets[j].layers) <=> j = i
  <2>1. DOMAIN n.packets = 1 .. new
    BY <1>2
  <2>2. ASSUME NEW i \in DOMAIN n.packets
        PROVE  LET q == n.packets[i]
               IN  /\ q.layers.start >= 0
                   /\ End(q.layers) <= Len(n.layers)
                   /\ \A l \in Entries(q.layers) : Covers(q.data, n.layers[l].byte_range)
    BY <1>6, <2>1
  <2>3. ASSUME NEW l \in DOMAIN n.layers
        PROVE  \E i \in DOMAIN n.packets : \A j \in DOMAIN n.packets :
                  l \in Entries(n.packets[j].layers) <=> j = i
    BY <1>7, <2>1
  <2> QED BY <2>2, <2>3
<1> QED BY <1>8 DEF PacketLayers

\* Every diagnostic of a packet lies in its span and within its data.
LEMMA CommittedDiagnostics ==
    ASSUME NEW a, NEW b, NEW n, NEW p, NEW start, Committed(a, b, n, p, start), Trees(a)
    PROVE  PacketDiagnostics(n) /\ Diagnostics(n)
<1> DEFINE new == Len(a.packets) + 1
<1>1. /\ Len(a.diagnostics) \in Nat /\ Len(n.diagnostics) \in Nat
      /\ Len(a.diagnostics) <= Len(n.diagnostics)
      /\ DOMAIN a.diagnostics = 1 .. Len(a.diagnostics)
      /\ DOMAIN n.diagnostics = 1 .. Len(n.diagnostics)
      /\ \A i \in DOMAIN n.diagnostics : i \in DOMAIN a.diagnostics \/ i \in Added(a.diagnostics, n.diagnostics)
      /\ \A i \in DOMAIN a.diagnostics : /\ i \in DOMAIN n.diagnostics /\ i <= Len(a.diagnostics)
                                         /\ n.diagnostics[i] = a.diagnostics[i]
      /\ \A i \in Added(a.diagnostics, n.diagnostics) : /\ i \in DOMAIN n.diagnostics
                                                      /\ i > Len(a.diagnostics) /\ i \in Nat
  <2>1. a.diagnostics \in Seq(DiagnosticRecord) /\ n.diagnostics \in Seq(DiagnosticRecord)
        /\ Grows(a.diagnostics, n.diagnostics)
    BY CommittedArenas
  <2> QED BY <2>1, OldAndNew
<1>2. /\ new \in Nat /\ Len(a.packets) \in Nat
      /\ DOMAIN a.packets = 1 .. Len(a.packets) /\ DOMAIN n.packets = 1 .. new
      /\ Len(n.packets) = new /\ n.packets[new] = p
      /\ \A i \in 1 .. Len(a.packets) : n.packets[i] = a.packets[i] /\ i # new
      /\ \A i \in 1 .. new : i \in 1 .. Len(a.packets) \/ i = new
      /\ \A i \in 1 .. Len(a.packets) : a.packets[i].diagnostics \in Ranges
      /\ p.data \in Ranges
  BY CommittedPackets
<1>3. start \in Nat /\ start <= Len(a.diagnostics)
      /\ p.diagnostics.start = start /\ End(p.diagnostics) = Len(n.diagnostics)
  <2>1. p.diagnostics = ByteRange(start, Len(n.diagnostics) - start) /\ start \in 0 .. Len(a.diagnostics)
    BY DEF Committed, SpanFrom
  <2>2. p.diagnostics.start = start /\ p.diagnostics.length = Len(n.diagnostics) - start
    BY <2>1 DEF ByteRange
  <2> QED BY <1>1, <2>1, <2>2 DEF End
<1>4. \A g \in Added(a.diagnostics, n.diagnostics) :
          /\ HasString(n, n.diagnostics[g].message)
          /\ n.diagnostics[g].scope = new
          /\ Covers(p.data, n.diagnostics[g].byte_range)
  <2>1. b.diagnostics = n.diagnostics /\ \A id : HasString(b, id) <=> HasString(n, id)
    <3>1. b.diagnostics = n.diagnostics
      BY DEF Committed
    <3> QED BY <3>1, CommittedArenas
  <2>2. \A g \in Added(a.diagnostics, b.diagnostics) : NewDiagnostic(b, new, p.data, g)
    BY DEF Committed, Decoding
  <2> QED BY <2>1, <2>2 DEF NewDiagnostic
<1>5. \A g \in DOMAIN a.diagnostics : /\ g > start <=> a.diagnostics[g].scope = new
                                      /\ g > start => Covers(p.data, a.diagnostics[g].byte_range)
  BY DEF Committed
<1>6. \A g \in DOMAIN n.diagnostics : n.diagnostics[g].byte_range \in Ranges
  <2>1. \A g \in DOMAIN n.diagnostics : n.diagnostics[g] \in DiagnosticRecord
    BY CommittedArenas
  <2> QED BY <2>1 DEF DiagnosticRecord
<1> HIDE DEF new
<1>7. ASSUME NEW i \in 1 .. new
      PROVE  LET q == n.packets[i]
             IN  /\ q.diagnostics.start >= 0
                 /\ End(q.diagnostics) <= Len(n.diagnostics)
                 /\ \A g \in DOMAIN n.diagnostics :
                       /\ g \in Entries(q.diagnostics) <=> n.diagnostics[g].scope = i
                       /\ n.diagnostics[g].scope = i => Covers(q.data, n.diagnostics[g].byte_range)
  <2>1. CASE i = new
    <3>1. \A g \in DOMAIN n.diagnostics :
              /\ g > start <=> n.diagnostics[g].scope = new
              /\ g > start => Covers(p.data, n.diagnostics[g].byte_range)
      BY <1>1, <1>3, <1>4, <1>5
    <3>2. \A g \in DOMAIN n.diagnostics : g \in Entries(p.diagnostics) <=> g > start
      BY <1>1, <1>3 DEF Entries
    <3> QED BY <1>1, <1>2, <1>3, <2>1, <3>1, <3>2
  <2>2. CASE i \in 1 .. Len(a.packets)
    <3> DEFINE q == a.packets[i]
    <3>1. /\ q.diagnostics.start >= 0
          /\ End(q.diagnostics) <= Len(a.diagnostics)
          /\ \A g \in DOMAIN a.diagnostics :
                /\ g \in Entries(q.diagnostics) <=> a.diagnostics[g].scope = i
                /\ a.diagnostics[g].scope = i => Covers(q.data, a.diagnostics[g].byte_range)
      BY <1>2, <2>2 DEF Trees, PacketDiagnostics
    <3>2. q.diagnostics \in Ranges /\ i # new /\ n.packets[i] = q
      BY <1>2, <2>2
    <3> HIDE DEF q
    <3>3. \A g \in Added(a.diagnostics, n.diagnostics) : g \notin Entries(q.diagnostics)
      BY <1>1, <3>1, <3>2 DEF Entries, End, Ranges
    <3>4. End(q.diagnostics) <= Len(n.diagnostics)
      BY <1>1, <3>1, <3>2 DEF End, Ranges
    <3>5. \A g \in DOMAIN n.diagnostics :
              /\ g \in Entries(q.diagnostics) <=> n.diagnostics[g].scope = i
              /\ n.diagnostics[g].scope = i => Covers(q.data, n.diagnostics[g].byte_range)
      BY <1>1, <1>4, <3>1, <3>2, <3>3
    <3> QED BY <3>1, <3>2, <3>4, <3>5
  <2> QED BY <1>2, <2>1, <2>2
<1>8. ASSUME NEW g \in DOMAIN n.diagnostics
      PROVE  LET diagnostic == n.diagnostics[g]
             IN  /\ HasString(n, diagnostic.message)
                 /\ IsWithin(diagnostic.byte_range, file.length)
                 /\ diagnostic.scope # None => diagnostic.scope \in 1 .. Len(n.packets) + 1
  <2>1. CASE g \in DOMAIN a.diagnostics
    <3>1. /\ HasString(a, a.diagnostics[g].message)
          /\ IsWithin(a.diagnostics[g].byte_range, file.length)
          /\ a.diagnostics[g].scope # None => a.diagnostics[g].scope \in 1 .. Len(a.packets) + 1
      BY <2>1 DEF Trees, Diagnostics
    <3>2. \A k \in 1 .. Len(a.packets) + 1 : k \in 1 .. new + 1
      BY <1>2 DEF new
    <3> QED BY <1>1, <1>2, <2>1, <3>1, <3>2, CommittedArenas
  <2>2. CASE g \in Added(a.diagnostics, n.diagnostics)
    <3>1. IsWithin(n.diagnostics[g].byte_range, file.length)
      <4>1. IsWithin(p.data, file.length) /\ file.length \in Nat
        BY DEF Committed
      <4>2. n.diagnostics[g].byte_range \in Ranges
        BY <1>6
      <4> QED BY <1>2, <1>4, <2>2, <4>1, <4>2, SMTT(30) DEF IsWithin, Covers, End, Ranges
    <3>2. new \in 1 .. new + 1
      BY <1>2 DEF new
    <3> QED BY <1>2, <1>4, <2>2, <3>1, <3>2
  <2> QED BY <1>1, <2>1, <2>2
<1> QED BY <1>2, <1>7, <1>8 DEF PacketDiagnostics, Diagnostics

\* Where the fields and their children of a committed packet are.
LEMMA CommittedFieldsGrow ==
    ASSUME NEW a, NEW b, NEW n, NEW p, NEW start, Committed(a, b, n, p, start)
    PROVE  /\ Len(a.fields) \in Nat /\ Len(n.fields) \in Nat /\ Len(a.fields) <= Len(n.fields)
           /\ DOMAIN a.fields = 1 .. Len(a.fields) /\ DOMAIN n.fields = 1 .. Len(n.fields)
           /\ \A i \in DOMAIN n.fields : i \in DOMAIN a.fields \/ i \in Added(a.fields, n.fields)
           /\ \A i \in DOMAIN a.fields : /\ i \in DOMAIN n.fields /\ i \notin Added(a.fields, n.fields)
                                         /\ n.fields[i] = a.fields[i]
           /\ \A i \in Added(a.fields, n.fields) : i \in DOMAIN n.fields /\ i \notin DOMAIN a.fields
           /\ \A i \in DOMAIN n.fields : /\ n.fields[i].byte_range \in Ranges
                                         /\ n.fields[i].children \in Ranges
           /\ Len(a.field_children) \in Nat /\ Len(n.field_children) \in Nat
           /\ Len(a.field_children) <= Len(n.field_children)
           /\ DOMAIN a.field_children = 1 .. Len(a.field_children)
           /\ DOMAIN n.field_children = 1 .. Len(n.field_children)
           /\ \A c \in DOMAIN n.field_children :
                 c \in DOMAIN a.field_children \/ c \in Added(a.field_children, n.field_children)
           /\ \A c \in DOMAIN a.field_children :
                 /\ c \in DOMAIN n.field_children /\ c <= Len(a.field_children)
                 /\ n.field_children[c] = a.field_children[c]
           /\ \A c \in Added(a.field_children, n.field_children) :
                 c \in DOMAIN n.field_children /\ c \notin DOMAIN a.field_children
                 /\ c > Len(a.field_children) /\ c \in Nat
<1>1. /\ a.fields \in Seq(DecodedField) /\ n.fields \in Seq(DecodedField) /\ Grows(a.fields, n.fields)
      /\ a.field_children \in Seq(Nat) /\ n.field_children \in Seq(Nat)
      /\ Grows(a.field_children, n.field_children)
  BY CommittedArenas
<1>2. \A i \in DOMAIN n.fields : n.fields[i] \in DecodedField
  BY <1>1
<1>3. \A i \in DOMAIN n.fields : /\ n.fields[i].byte_range \in Ranges /\ n.fields[i].children \in Ranges
  BY <1>2 DEF DecodedField
<1>4. /\ Len(a.fields) \in Nat /\ Len(n.fields) \in Nat /\ Len(a.fields) <= Len(n.fields)
      /\ DOMAIN a.fields = 1 .. Len(a.fields) /\ DOMAIN n.fields = 1 .. Len(n.fields)
      /\ \A i \in DOMAIN n.fields : i \in DOMAIN a.fields \/ i \in Added(a.fields, n.fields)
      /\ \A i \in DOMAIN a.fields : i \in DOMAIN n.fields /\ i \notin Added(a.fields, n.fields)
                                    /\ n.fields[i] = a.fields[i]
      /\ \A i \in Added(a.fields, n.fields) : i \in DOMAIN n.fields /\ i \notin DOMAIN a.fields
  BY <1>1, OldAndNew
<1>5. /\ Len(a.field_children) \in Nat /\ Len(n.field_children) \in Nat
      /\ Len(a.field_children) <= Len(n.field_children)
      /\ DOMAIN a.field_children = 1 .. Len(a.field_children)
      /\ DOMAIN n.field_children = 1 .. Len(n.field_children)
      /\ \A c \in DOMAIN n.field_children :
            c \in DOMAIN a.field_children \/ c \in Added(a.field_children, n.field_children)
      /\ \A c \in DOMAIN a.field_children :
            /\ c \in DOMAIN n.field_children /\ c <= Len(a.field_children)
            /\ n.field_children[c] = a.field_children[c]
      /\ \A c \in Added(a.field_children, n.field_children) :
            c \in DOMAIN n.field_children /\ c \notin DOMAIN a.field_children
            /\ c > Len(a.field_children) /\ c \in Nat
  BY <1>1, OldAndNew
<1> QED BY <1>3, <1>4, <1>5

\* What a decode says of the arenas it leaves.
LEMMA CommittedNew ==
    ASSUME NEW a, NEW b, NEW n, NEW p, NEW start, Committed(a, b, n, p, start)
    PROVE  /\ \A f \in Added(a.fields, n.fields) :
                 LET field == n.fields[f]
                 IN  /\ Covers(p.data, field.byte_range)
                     /\ field.bytes # None => Covers(field.byte_range, field.bytes)
                     /\ HasString(n, field.name)
                     /\ field.text # None => HasString(n, field.text)
                     /\ field.children.start >= 0 /\ End(field.children) <= Len(n.field_children)
                     /\ \A c \in Entries(field.children) :
                           /\ c > Len(a.field_children)
                           /\ n.field_children[c] > f
                           /\ n.field_children[c] \in Added(a.fields, n.fields)
                           /\ Covers(field.byte_range, n.fields[n.field_children[c]].byte_range)
           /\ \A c \in Added(a.field_children, n.field_children) :
                 \E f \in Added(a.fields, n.fields) : \A j \in Added(a.fields, n.fields) :
                     c \in Entries(n.fields[j].children) <=> j = f
           /\ \A l \in Added(a.layers, n.layers) :
                 LET layer == n.layers[l]
                 IN  /\ HasString(n, layer.protocol)
                     /\ Covers(p.data, layer.byte_range)
                     /\ layer.root # None =>
                           /\ layer.root \in Added(a.fields, n.fields)
                           /\ Covers(layer.byte_range, n.fields[layer.root].byte_range)
<1>1. /\ n.layers = b.layers /\ n.fields = b.fields /\ n.field_children = b.field_children
      /\ Decoding(a, b, Len(a.packets) + 1, p.data)
  BY DEF Committed
<1>2. \A id : HasString(b, id) <=> HasString(n, id)
  BY CommittedArenas
<1>3. \A f \in Added(a.fields, n.fields) : NewField(a, b, p.data, f)
  BY <1>1 DEF Decoding
<1>4. \A c \in Added(a.field_children, n.field_children) : OneOwner(a, b, c)
  BY <1>1 DEF Decoding
<1>5. \A l \in Added(a.layers, n.layers) : NewLayer(a, b, p.data, l)
  BY <1>1 DEF Decoding
<1>6. \A f \in Added(a.fields, n.fields) :
         LET field == n.fields[f]
         IN  /\ Covers(p.data, field.byte_range)
             /\ field.bytes # None => Covers(field.byte_range, field.bytes)
             /\ HasString(n, field.name)
             /\ field.text # None => HasString(n, field.text)
             /\ field.children.start >= 0 /\ End(field.children) <= Len(n.field_children)
             /\ \A c \in Entries(field.children) :
                   /\ c > Len(a.field_children)
                   /\ n.field_children[c] > f
                   /\ n.field_children[c] \in Added(a.fields, n.fields)
                   /\ Covers(field.byte_range, n.fields[n.field_children[c]].byte_range)
  BY <1>1, <1>2, <1>3 DEF NewField
<1>7. \A c \in Added(a.field_children, n.field_children) :
         \E f \in Added(a.fields, n.fields) : \A j \in Added(a.fields, n.fields) :
             c \in Entries(n.fields[j].children) <=> j = f
  BY <1>1, <1>4 DEF OneOwner
<1>8. \A l \in Added(a.layers, n.layers) :
         LET layer == n.layers[l]
         IN  /\ HasString(n, layer.protocol)
             /\ Covers(p.data, layer.byte_range)
             /\ layer.root # None =>
                   /\ layer.root \in Added(a.fields, n.fields)
                   /\ Covers(layer.byte_range, n.fields[layer.root].byte_range)
  BY <1>1, <1>2, <1>5 DEF NewLayer
<1> QED BY <1>6, <1>7, <1>8

\* What lies within a range that is within the file is within the file.
LEMMA CoveredWithin ==
    ASSUME NEW r \in Ranges, NEW s \in Ranges, NEW length \in Nat, Covers(r, s), IsWithin(r, length)
    PROVE  IsWithin(s, length)
  BY DEF Covers, IsWithin, End, Ranges

\* Every layer's root is a field the layer covers.
LEMMA CommittedRoots ==
    ASSUME NEW a, NEW b, NEW n, NEW p, NEW start, Committed(a, b, n, p, start), Trees(a)
    PROVE  Layers(n)
<1>1. /\ \A l \in DOMAIN n.layers : l \in DOMAIN a.layers \/ l \in Added(a.layers, n.layers)
      /\ \A l \in DOMAIN a.layers : l \in DOMAIN n.layers /\ n.layers[l] = a.layers[l]
      /\ \A l \in DOMAIN n.layers : n.layers[l] \in LayerFact
  <2>1. a.layers \in Seq(LayerFact) /\ n.layers \in Seq(LayerFact) /\ Grows(a.layers, n.layers)
    BY CommittedArenas
  <2> QED BY <2>1, OldAndNew
<1>2. p.data \in Ranges /\ IsWithin(p.data, file.length) /\ file.length \in Nat
  BY CommittedPackets DEF Committed
<1>3. \A f \in DOMAIN a.fields : f \in DOMAIN n.fields /\ n.fields[f] = a.fields[f]
  BY CommittedFieldsGrow
<1>4. \A f \in Added(a.fields, n.fields) : f \in DOMAIN n.fields
  BY CommittedFieldsGrow
<1> SUFFICES ASSUME NEW l \in DOMAIN n.layers
             PROVE  LET layer == n.layers[l]
                    IN  /\ HasString(n, layer.protocol)
                        /\ IsWithin(layer.byte_range, file.length)
                        /\ layer.root # None =>
                              /\ layer.root \in DOMAIN n.fields
                              /\ Covers(layer.byte_range, n.fields[layer.root].byte_range)
  BY DEF Layers
<1>5. CASE l \in DOMAIN a.layers
  <2>1. LET layer == a.layers[l]
        IN  /\ HasString(a, layer.protocol)
            /\ IsWithin(layer.byte_range, file.length)
            /\ layer.root # None =>
                  /\ layer.root \in DOMAIN a.fields
                  /\ Covers(layer.byte_range, a.fields[layer.root].byte_range)
    BY <1>5 DEF Trees, Layers
  <2>2. HasString(n, a.layers[l].protocol)
    BY <2>1, CommittedArenas
  <2> QED BY <1>1, <1>3, <1>5, <2>1, <2>2
<1>6. CASE l \in Added(a.layers, n.layers)
  <2>1. LET layer == n.layers[l]
        IN  /\ HasString(n, layer.protocol)
            /\ Covers(p.data, layer.byte_range)
            /\ layer.root # None =>
                  /\ layer.root \in Added(a.fields, n.fields)
                  /\ Covers(layer.byte_range, n.fields[layer.root].byte_range)
    BY <1>6, CommittedNew
  <2>2. n.layers[l].byte_range \in Ranges
    BY <1>1 DEF LayerFact
  <2>3. IsWithin(n.layers[l].byte_range, file.length)
    BY <1>2, <2>1, <2>2, CoveredWithin
  <2> QED BY <1>4, <2>1, <2>3
<1> QED BY <1>1, <1>5, <1>6

\* The children and the roots that name an old field are the old ones, and those that
\* name a new field are new.
LEMMA CommittedCounts ==
    ASSUME NEW a, NEW b, NEW n, NEW p, NEW start, Committed(a, b, n, p, start), Trees(a)
    PROVE  \A f \in DOMAIN n.fields : Parents(n, f) + Roots(n, f) = 1
<1>1. \A c \in DOMAIN a.field_children : a.field_children[c] \in DOMAIN a.fields
  BY DEF Trees, FieldChildren
<1>2. \A l \in DOMAIN a.layers : a.layers[l].root # None => a.layers[l].root \in DOMAIN a.fields
  BY DEF Trees, Layers
<1>3. \A c \in Added(a.field_children, n.field_children) : n.field_children[c] \in Added(a.fields, n.fields)
  <2> SUFFICES ASSUME NEW c \in Added(a.field_children, n.field_children)
               PROVE  n.field_children[c] \in Added(a.fields, n.fields)
    OBVIOUS
  <2>1. PICK f \in Added(a.fields, n.fields) : \A j \in Added(a.fields, n.fields) :
            c \in Entries(n.fields[j].children) <=> j = f
    BY CommittedNew, SMTT(30)
  <2>2. c \in Entries(n.fields[f].children)
    BY <2>1
  <2> QED BY <2>2, CommittedNew
<1>4. \A l \in Added(a.layers, n.layers) :
          n.layers[l].root # None => n.layers[l].root \in Added(a.fields, n.fields)
  BY CommittedNew
<1>5. /\ \A l \in DOMAIN n.layers : l \in DOMAIN a.layers \/ l \in Added(a.layers, n.layers)
      /\ \A l \in DOMAIN a.layers : l \in DOMAIN n.layers /\ n.layers[l] = a.layers[l]
      /\ \A l \in Added(a.layers, n.layers) : l \in DOMAIN n.layers
  <2>1. a.layers \in Seq(LayerFact) /\ n.layers \in Seq(LayerFact) /\ Grows(a.layers, n.layers)
    BY CommittedArenas
  <2> QED BY <2>1, OldAndNew
<1>6. /\ \A i \in DOMAIN n.fields : i \in DOMAIN a.fields \/ i \in Added(a.fields, n.fields)
      /\ \A i \in DOMAIN a.fields : i \notin Added(a.fields, n.fields)
      /\ \A i \in DOMAIN n.fields : i \in Nat /\ i # None
      /\ \A c \in DOMAIN n.field_children :
            c \in DOMAIN a.field_children \/ c \in Added(a.field_children, n.field_children)
      /\ \A c \in DOMAIN a.field_children :
            /\ c \in DOMAIN n.field_children /\ n.field_children[c] = a.field_children[c]
      /\ \A c \in Added(a.field_children, n.field_children) : c \in DOMAIN n.field_children
  <2>1. DOMAIN n.fields = 1 .. Len(n.fields) /\ Len(n.fields) \in Nat
    BY CommittedFieldsGrow
  <2>2. \A i \in DOMAIN n.fields : i \in Nat /\ i # None
    BY <2>1, NoneAssumption
  <2> QED BY <2>2, CommittedFieldsGrow
<1>7. ASSUME NEW f \in DOMAIN n.fields, f \in DOMAIN a.fields PROVE Parents(n, f) + Roots(n, f) = 1
  <2>1. {c \in DOMAIN n.field_children : n.field_children[c] = f}
        = {c \in DOMAIN a.field_children : a.field_children[c] = f}
    BY <1>3, <1>6, <1>7
  <2>2. {l \in DOMAIN n.layers : n.layers[l].root = f} = {l \in DOMAIN a.layers : a.layers[l].root = f}
    BY <1>4, <1>5, <1>6, <1>7
  <2>3. Parents(a, f) + Roots(a, f) = 1
    BY <1>7 DEF Trees, Fields
  <2> QED BY <2>1, <2>2, <2>3 DEF Parents, Roots
<1>8. ASSUME NEW f \in DOMAIN n.fields, f \in Added(a.fields, n.fields) PROVE Parents(n, f) + Roots(n, f) = 1
  <2>1. {c \in DOMAIN n.field_children : n.field_children[c] = f}
        = {c \in Added(a.field_children, n.field_children) : n.field_children[c] = f}
    BY <1>1, <1>6, <1>8
  <2>2. {l \in DOMAIN n.layers : n.layers[l].root = f} = {l \in Added(a.layers, n.layers) : n.layers[l].root = f}
    BY <1>2, <1>5, <1>6, <1>8
  <2>3. Cardinality({c \in Added(a.field_children, n.field_children) : n.field_children[c] = f})
         + Cardinality({l \in Added(a.layers, n.layers) : n.layers[l].root = f}) = 1
    <3>1. /\ n.layers = b.layers /\ n.fields = b.fields /\ n.field_children = b.field_children
          /\ EachOnce(a, b)
      BY DEF Committed
    <3> QED BY <1>8, <3>1 DEF EachOnce
  <2> QED BY <2>1, <2>2, <2>3 DEF Parents, Roots
<1> QED BY <1>6, <1>7, <1>8

\* Every field has children of its own, strings and one owner.
LEMMA CommittedFields ==
    ASSUME NEW a, NEW b, NEW n, NEW p, NEW start, Committed(a, b, n, p, start), Trees(a)
    PROVE  Fields(n)
<1> SUFFICES ASSUME NEW i \in DOMAIN n.fields
             PROVE  LET field == n.fields[i]
                    IN  /\ IsWithin(field.byte_range, file.length)
                        /\ field.children.start >= 0
                        /\ End(field.children) <= Len(n.field_children)
                        /\ \A c \in Entries(field.children) :
                              /\ n.field_children[c] > i
                              /\ n.field_children[c] \in DOMAIN n.fields
                              /\ Covers(field.byte_range, n.fields[n.field_children[c]].byte_range)
                        /\ HasString(n, field.name)
                        /\ field.text # None => HasString(n, field.text)
                        /\ field.bytes # None => Covers(field.byte_range, field.bytes)
                        /\ Parents(n, i) + Roots(n, i) = 1
  BY DEF Fields
<1>1. Parents(n, i) + Roots(n, i) = 1
  BY CommittedCounts
<1>2. n.fields[i].byte_range \in Ranges /\ n.fields[i].children \in Ranges
  BY CommittedFieldsGrow
<1>3. CASE i \in DOMAIN a.fields
  <2>1. n.fields[i] = a.fields[i]
    BY <1>3, CommittedFieldsGrow
  <2> DEFINE field == a.fields[i]
  <2>2. /\ IsWithin(field.byte_range, file.length)
        /\ field.children.start >= 0
        /\ End(field.children) <= Len(a.field_children)
        /\ \A c \in Entries(field.children) :
              /\ a.field_children[c] > i
              /\ a.field_children[c] \in DOMAIN a.fields
              /\ Covers(field.byte_range, a.fields[a.field_children[c]].byte_range)
        /\ HasString(a, field.name)
        /\ field.text # None => HasString(a, field.text)
        /\ field.bytes # None => Covers(field.byte_range, field.bytes)
    BY <1>3 DEF Trees, Fields
  <2>3. field.children \in Ranges
    BY <1>2, <2>1
  <2> HIDE DEF field
  <2>4. /\ Len(a.field_children) \in Nat /\ Len(n.field_children) \in Nat
        /\ Len(a.field_children) <= Len(n.field_children)
        /\ DOMAIN a.field_children = 1 .. Len(a.field_children)
    BY CommittedFieldsGrow
  <2>5. End(field.children) <= Len(n.field_children) /\ Entries(field.children) \subseteq DOMAIN a.field_children
    BY <2>2, <2>3, <2>4 DEF Entries, End, Ranges
  <2>6. \A c \in Entries(field.children) : n.field_children[c] = a.field_children[c]
    BY <2>5, CommittedFieldsGrow
  <2>7. \A f \in DOMAIN a.fields : f \in DOMAIN n.fields /\ n.fields[f] = a.fields[f]
    BY CommittedFieldsGrow
  <2>8. /\ HasString(n, field.name)
        /\ field.text # None => HasString(n, field.text)
    BY <2>2, CommittedArenas
  <2> QED BY <1>1, <2>1, <2>2, <2>5, <2>6, <2>7, <2>8 DEF field
<1>4. CASE i \in Added(a.fields, n.fields)
  <2> DEFINE field == n.fields[i]
  <2>1. /\ Covers(p.data, field.byte_range)
        /\ field.bytes # None => Covers(field.byte_range, field.bytes)
        /\ HasString(n, field.name)
        /\ field.text # None => HasString(n, field.text)
        /\ field.children.start >= 0 /\ End(field.children) <= Len(n.field_children)
        /\ \A c \in Entries(field.children) :
              /\ c > Len(a.field_children)
              /\ n.field_children[c] > i
              /\ n.field_children[c] \in Added(a.fields, n.fields)
              /\ Covers(field.byte_range, n.fields[n.field_children[c]].byte_range)
    BY <1>4, CommittedNew
  <2>2. p.data \in Ranges /\ IsWithin(p.data, file.length) /\ file.length \in Nat
    BY CommittedPackets DEF Committed
  <2>3. IsWithin(field.byte_range, file.length)
    BY <1>2, <2>1, <2>2, CoveredWithin
  <2>4. \A f \in Added(a.fields, n.fields) : f \in DOMAIN n.fields
    BY CommittedFieldsGrow
  <2> QED BY <1>1, <2>1, <2>3, <2>4
<1>5. i \in DOMAIN a.fields \/ i \in Added(a.fields, n.fields)
  BY CommittedFieldsGrow
<1> QED BY <1>3, <1>4, <1>5

\* Every child entry belongs to one field.
LEMMA CommittedChildren ==
    ASSUME NEW a, NEW b, NEW n, NEW p, NEW start, Committed(a, b, n, p, start), Trees(a)
    PROVE  FieldChildren(n)
<1>1. /\ \A i \in DOMAIN n.fields : i \in DOMAIN a.fields \/ i \in Added(a.fields, n.fields)
      /\ \A i \in DOMAIN a.fields : /\ i \in DOMAIN n.fields /\ i \notin Added(a.fields, n.fields)
                                    /\ n.fields[i] = a.fields[i]
      /\ \A i \in Added(a.fields, n.fields) : i \in DOMAIN n.fields /\ i \notin DOMAIN a.fields
      /\ \A i \in DOMAIN n.fields : n.fields[i].children \in Ranges
      /\ Len(a.field_children) \in Nat
      /\ DOMAIN a.field_children = 1 .. Len(a.field_children)
      /\ \A c \in DOMAIN n.field_children :
            c \in DOMAIN a.field_children \/ c \in Added(a.field_children, n.field_children)
      /\ \A c \in DOMAIN a.field_children :
            /\ c \in DOMAIN n.field_children /\ c <= Len(a.field_children)
            /\ n.field_children[c] = a.field_children[c]
      /\ \A c \in Added(a.field_children, n.field_children) : c > Len(a.field_children) /\ c \in Nat
  BY CommittedFieldsGrow
<1>2. \A f \in DOMAIN a.fields : /\ End(a.fields[f].children) <= Len(a.field_children)
                                 /\ a.fields[f].children \in Ranges
  BY <1>1 DEF Trees, Fields
<1>3. \A f \in Added(a.fields, n.fields) : \A c \in Entries(n.fields[f].children) :
          /\ c > Len(a.field_children)
          /\ n.field_children[c] \in Added(a.fields, n.fields)
  BY CommittedNew
<1> SUFFICES ASSUME NEW c \in DOMAIN n.field_children
             PROVE  /\ n.field_children[c] \in DOMAIN n.fields
                    /\ \E f \in DOMAIN n.fields : \A j \in DOMAIN n.fields :
                          c \in Entries(n.fields[j].children) <=> j = f
  BY DEF FieldChildren
<1>4. CASE c \in DOMAIN a.field_children
  <2>1. a.field_children[c] \in DOMAIN a.fields
    BY <1>4 DEF Trees, FieldChildren
  <2>2. PICK f \in DOMAIN a.fields : \A j \in DOMAIN a.fields :
            c \in Entries(a.fields[j].children) <=> j = f
    BY <1>4 DEF Trees, FieldChildren
  <2>3. c \in Nat /\ c <= Len(a.field_children)
    BY <1>1, <1>4
  <2>4. \A j \in Added(a.fields, n.fields) : c \notin Entries(n.fields[j].children)
    BY <1>1, <1>3, <2>3
  <2>5. \A j \in DOMAIN n.fields : c \in Entries(n.fields[j].children) <=> j = f
    BY <1>1, <2>2, <2>4
  <2> QED BY <1>1, <1>4, <2>1, <2>5
<1>5. CASE c \in Added(a.field_children, n.field_children)
  <2>1. PICK f \in Added(a.fields, n.fields) : \A j \in Added(a.fields, n.fields) :
            c \in Entries(n.fields[j].children) <=> j = f
    BY <1>5, CommittedNew
  <2>2. ASSUME NEW j \in DOMAIN a.fields PROVE c \notin Entries(a.fields[j].children)
    <3>1. a.fields[j].children \in Ranges /\ End(a.fields[j].children) <= Len(a.field_children)
      BY <1>2
    <3>2. c > Len(a.field_children) /\ c \in Nat
      BY <1>1, <1>5
    <3> QED BY <1>1, <3>1, <3>2 DEF Entries, End, Ranges
  <2>3. \A j \in DOMAIN n.fields : c \in Entries(n.fields[j].children) <=> j = f
    BY <1>1, <2>1, <2>2
  <2>4. n.field_children[c] \in DOMAIN n.fields
    BY <1>1, <1>3, <2>1
  <2> QED BY <1>1, <2>1, <2>3, <2>4
<1> QED BY <1>1, <1>4, <1>5

\* A packet committed with its decode leaves all that packets carry whole.
LEMMA TreesCommitted ==
    ASSUME NEW a, NEW b, NEW n, NEW p, NEW start, Committed(a, b, n, p, start), Trees(a), Times(n)
    PROVE  Trees(n)
  BY CommittedLayers, CommittedDiagnostics, CommittedRoots, CommittedFields, CommittedChildren DEF Trees

-----------------------------------------------------------------------------
\* The file.

\* The types of the file and of its limits.
LEMMA FileTyped ==
    ASSUME file \in Captures
    PROVE  /\ file.length \in Nat
           /\ Len(file.blocks) \in Nat /\ Len(file.blocks) >= 1
           /\ Limits \in [LimitKinds -> Nat]
           /\ Limits["ItemsPerStep"] >= Limits["ItemsPerBlock"]
           /\ \A i \in 1 .. Len(file.blocks) : Declared(file.blocks[i]) \in Nat
           /\ Legacy => /\ file.modified \in BOOLEAN /\ file.resolution \in Resolutions
                        /\ \A i \in 1 .. Len(file.blocks) :
                              /\ IsRecord(file.blocks[i])
                              /\ file.blocks[i].kind = "Header" <=> i = 1
                        /\ file.length - Offset(Len(file.blocks) + 1) < LegacyHeaderLength
           /\ ~Legacy => /\ \A i \in 1 .. Len(file.blocks) : IsBlock(file.blocks[i])
                         /\ \/ file.length - Offset(Len(file.blocks) + 1) < 12
                            \/ BadLength(file.blocks[Len(file.blocks)])
<1> DEFINE count == Len(file.blocks)
           rest == file.length - Offset(count + 1)
<1>1. /\ file.length \in Nat
      /\ IsSequence(file.blocks) /\ file.blocks # <<>>
      /\ Legacy =>
            /\ file.modified \in BOOLEAN /\ file.resolution \in Resolutions
            /\ \A i \in 1 .. count : /\ IsRecord(file.blocks[i])
                                     /\ file.blocks[i].kind = "Header" <=> i = 1
            /\ rest < LegacyHeaderLength
      /\ ~Legacy =>
            /\ \A i \in 1 .. count : IsBlock(file.blocks[i])
            /\ rest < 12 \/ BadLength(file.blocks[count])
  BY FilesAssumption DEF Legacy, Offset, LegacyHeaderLength
<1>2. count \in Nat /\ count >= 1
  BY <1>1 DEF IsSequence
<1>3. Limits \in [LimitKinds -> Nat] /\ Limits["ItemsPerStep"] >= Limits["ItemsPerBlock"]
  BY LimitsAssumption DEF Limits
<1>4. ASSUME NEW i \in 1 .. count PROVE Declared(file.blocks[i]) \in Nat
  <2>1. RecordHeader(file) \in Nat
    BY DEF RecordHeader
  <2>2. CASE Legacy
    <3>1. IsRecord(file.blocks[i])
      BY <1>1, <2>2
    <3> QED BY <2>1, <3>1 DEF IsRecord, Declared, DeclaredIn
  <2>3. CASE ~Legacy
    <3>1. IsBlock(file.blocks[i])
      BY <1>1, <2>3
    <3> QED BY <3>1 DEF IsBlock, Declared, DeclaredIn
  <2> QED BY <2>2, <2>3
<1> QED BY <1>1, <1>2, <1>3, <1>4

\* Where each of the first n records begins.
IsOffset(f, n) == f = [i \in 1 .. n |-> IF i = 1 THEN 0 ELSE f[i - 1] + DeclaredIn(file, file.blocks[i - 1])]

\* The offsets of a file's records are a function of their number: there are such for any
\* number.
LEMMA OffsetsExist ==
    ASSUME NEW N \in Nat
    PROVE  \E f : IsOffset(f, N)
<1> DEFINE T == {n \in Nat : \E f : IsOffset(f, n)}
<1>1. 0 \in T
  <2>1. IsOffset([i \in 1 .. 0 |-> 0], 0)
    BY DEF IsOffset
  <2> QED BY <2>1
<1>2. ASSUME NEW n \in Nat, n \in T PROVE n + 1 \in T
  <2>1. PICK f : IsOffset(f, n)
    BY <1>2
  <2> DEFINE at(h, i) == IF i = 1 THEN 0 ELSE h[i - 1] + DeclaredIn(file, file.blocks[i - 1])
             g == [i \in 1 .. n + 1 |-> IF i = n + 1 THEN at(f, n + 1) ELSE f[i]]
  <2>2. \A i \in 1 .. n : f[i] = at(f, i)
    BY <2>1 DEF IsOffset
  <2>3. ASSUME NEW i \in 1 .. n + 1
        PROVE  g[i] = at(g, i)
    <3>1. CASE i = n + 1
      <4>1. i # 1 => i - 1 \in 1 .. n /\ i - 1 # n + 1
        BY <3>1
      <4>2. i # 1 => g[i - 1] = f[i - 1]
        BY <4>1
      <4> QED BY <3>1, <4>2
    <3>2. CASE i # n + 1
      <4>1. i \in 1 .. n /\ (i # 1 => i - 1 \in 1 .. n /\ i - 1 # n + 1)
        BY <3>2
      <4>2. g[i] = f[i] /\ (i # 1 => g[i - 1] = f[i - 1])
        BY <3>2, <4>1
      <4> QED BY <2>2, <4>1, <4>2
    <3> QED BY <3>1, <3>2
  <2>4. IsOffset(g, n + 1)
    BY <2>3 DEF IsOffset
  <2> QED BY <2>4
<1>3. Nat \subseteq T
  <2> HIDE DEF T
  <2> QED BY <1>1, <1>2, Induction
<1> QED BY <1>3

\* Each record begins where the one before it ends.
LEMMA OffsetSteps ==
    ASSUME file \in Captures
    PROVE  /\ Offset(1) = 0
           /\ \A i \in 1 .. Len(file.blocks) + 1 : Offset(i) \in Nat
           /\ \A i \in 1 .. Len(file.blocks) : Offset(i + 1) = Offset(i) + Declared(file.blocks[i])
<1> DEFINE N == Len(file.blocks) + 1
           P(f) == f = [i \in 1 .. N |-> IF i = 1 THEN 0
                                         ELSE f[i - 1] + DeclaredIn(file, file.blocks[i - 1])]
           offset == CHOOSE f : P(f)
<1>1. N \in Nat /\ N >= 2 /\ \A i \in 1 .. Len(file.blocks) : DeclaredIn(file, file.blocks[i]) \in Nat
  BY FileTyped DEF Declared
<1>2. P(offset)
  <2>1. PICK f : IsOffset(f, N)
    BY <1>1, OffsetsExist
  <2>2. P(f)
    BY <2>1 DEF IsOffset
  <2> QED BY <2>2
<1>3. \A i : Offset(i) = offset[i]
  BY DEF Offset, OffsetIn
<1> HIDE DEF offset
<1>4. \A i \in 1 .. N : offset[i] = IF i = 1 THEN 0 ELSE offset[i - 1] + DeclaredIn(file, file.blocks[i - 1])
  BY <1>2
<1>5. offset[1] = 0
  <2>1. 1 \in 1 .. N
    BY <1>1
  <2> QED BY <1>4, <2>1
<1>6. ASSUME NEW i \in 1 .. Len(file.blocks)
      PROVE  offset[i + 1] = offset[i] + DeclaredIn(file, file.blocks[i])
  <2>1. i + 1 \in 1 .. N /\ i + 1 # 1 /\ (i + 1) - 1 = i
    BY <1>1
  <2> QED BY <1>4, <2>1
<1> DEFINE T == {n \in Nat : n + 1 <= N => offset[n + 1] \in Nat}
<1>7. 0 \in T
  BY <1>5
<1>8. ASSUME NEW n \in Nat, n \in T PROVE n + 1 \in T
  <2> SUFFICES ASSUME n + 2 <= N PROVE offset[(n + 1) + 1] \in Nat
    OBVIOUS
  <2>1. n + 1 \in 1 .. Len(file.blocks)
    BY <1>1, FileTyped
  <2>2. offset[n + 1] \in Nat
    BY <1>1, <1>8
  <2> QED BY <1>1, <1>6, <2>1, <2>2
<1>9. Nat \subseteq T
  <2> HIDE DEF T
  <2> QED BY <1>7, <1>8, Induction
<1>10. ASSUME NEW i \in 1 .. N PROVE offset[i] \in Nat
  <2>1. i - 1 \in Nat /\ (i - 1) + 1 = i /\ i <= N
    BY <1>1
  <2> QED BY <1>9, <2>1
<1> QED BY <1>3, <1>5, <1>6, <1>10 DEF Declared

\* A record ends before the next ones begin.
LEMMA OffsetGrows ==
    ASSUME file \in Captures, NEW i \in 1 .. Len(file.blocks) + 1,
           NEW j \in 1 .. Len(file.blocks) + 1, i <= j
    PROVE  Offset(i) <= Offset(j)
<1> DEFINE T == {n \in Nat : i + n <= Len(file.blocks) + 1 => Offset(i) <= Offset(i + n)}
<1>1. Len(file.blocks) \in Nat /\ \A k \in 1 .. Len(file.blocks) + 1 : Offset(k) \in Nat
  BY FileTyped, OffsetSteps
<1>2. 0 \in T
  BY <1>1
<1>3. ASSUME NEW n \in Nat, n \in T PROVE n + 1 \in T
  <2> SUFFICES ASSUME i + (n + 1) <= Len(file.blocks) + 1 PROVE Offset(i) <= Offset(i + (n + 1))
    OBVIOUS
  <2>1. i + n \in 1 .. Len(file.blocks) /\ i + (n + 1) = (i + n) + 1
        /\ i + n \in 1 .. Len(file.blocks) + 1
    BY <1>1
  <2>2. Offset(i) <= Offset(i + n)
    BY <1>1, <1>3, <2>1
  <2>3. Offset((i + n) + 1) = Offset(i + n) + Declared(file.blocks[i + n])
        /\ Declared(file.blocks[i + n]) \in Nat
    BY <2>1, FileTyped, OffsetSteps
  <2> QED BY <1>1, <2>1, <2>2, <2>3, SMTT(30)
<1>4. Nat \subseteq T
  <2> HIDE DEF T
  <2> QED BY <1>2, <1>3, Induction
<1>5. j - i \in Nat /\ i + (j - i) = j
  BY <1>1
<1>6. j - i \in T
  BY <1>4, <1>5
<1> QED BY <1>1, <1>5, <1>6

-----------------------------------------------------------------------------
\* What the records before the reader have left stays as it is.

\* n has what m has, and what the record the reader is at may add.
Extends(m, n) ==
    /\ Len(m.sections) <= Len(n.sections)
    /\ \A s \in DOMAIN m.sections :
          n.sections[s].byte_range.start = m.sections[s].byte_range.start
    /\ Grows(m.interfaces, n.interfaces) /\ Grows(m.packets, n.packets)
    /\ Grows(m.diagnostics, n.diagnostics)
    /\ \A s \in Added(m.sections, n.sections) : n.sections[s].byte_range.start = m.consumed
    /\ \A e \in Added(m.interfaces, n.interfaces) : n.interfaces[e].byte_range = BlockRange(m)
    /\ \A i \in Added(m.packets, n.packets) :
          n.packets[i].data.start > m.consumed /\ n.packets[i].data.length >= 0
    /\ \A g \in Added(m.diagnostics, n.diagnostics) :
          /\ n.diagnostics[g].scope = None
          /\ n.diagnostics[g].code \in {"INCONSISTENT_LENGTH", "UNSUPPORTED_BLOCK"}
          => n.diagnostics[g].byte_range = BlockRange(m)

\* A record before the reader ends where the reader is, or before.
LEMMA RecordsBefore ==
    ASSUME file \in Captures, NEW m \in Builders, Position(m), NEW i \in 1 .. m.at - 1
    PROVE  /\ i \in 1 .. Len(file.blocks)
           /\ Offset(i) \in Nat /\ Declared(file.blocks[i]) \in Nat
           /\ Declared(file.blocks[i]) > 0
           /\ Offset(i) + Declared(file.blocks[i]) <= m.consumed
<1>1. /\ m.at \in 1 .. Len(file.blocks) + 1 /\ m.consumed = Offset(m.at)
      /\ ~Legacy => \A j \in 1 .. m.at - 1 : ~BadLength(file.blocks[j])
      /\ Len(file.blocks) \in Nat
  BY FileTyped DEF Position
<1>2. i \in 1 .. Len(file.blocks) /\ i + 1 \in 1 .. Len(file.blocks) + 1 /\ i + 1 <= m.at
      /\ i \in 1 .. Len(file.blocks) + 1
  BY <1>1
<1>3. /\ Offset(i) \in Nat /\ Declared(file.blocks[i]) \in Nat
      /\ Offset(i + 1) = Offset(i) + Declared(file.blocks[i])
      /\ Offset(i + 1) <= Offset(m.at)
  BY <1>1, <1>2, OffsetSteps, OffsetGrows, FileTyped
<1>4. Declared(file.blocks[i]) > 0
  <2>1. CASE Legacy
    <3>1. IsRecord(file.blocks[i])
      BY <1>2, <2>1, FileTyped
    <3> QED BY <3>1 DEF IsRecord, Declared, DeclaredIn, RecordHeader
  <2>2. CASE ~Legacy
    <3>1. IsBlock(file.blocks[i]) /\ ~BadLength(file.blocks[i])
      BY <1>1, <1>2, <2>2, FileTyped
    <3>2. ~(file.blocks[i].declared < 12) /\ file.blocks[i].declared \in Nat
      BY <3>1 DEF BadLength, IsBlock
    <3> QED BY <3>1, <3>2 DEF IsBlock, Declared, DeclaredIn
  <2> QED BY <2>1, <2>2
<1> QED BY <1>1, <1>2, <1>3, <1>4

\* A builder that only grows keeps what the records before the reader have left in it.
LEMMA ProductsStay ==
    ASSUME file \in Captures, NEW m \in Builders, NEW n \in Builders, Position(m),
           Extends(m, n), NEW i \in 1 .. m.at - 1
    PROVE  Products(n, i) = Products(m, i)
<1> DEFINE block == file.blocks[i]
           bytes == ByteRange(Offset(i), Declared(block))
           said(b, codes) == {g \in DOMAIN b.diagnostics : /\ b.diagnostics[g].scope = None
                                                           /\ b.diagnostics[g].byte_range = bytes
                                                           /\ b.diagnostics[g].code \in codes}
           opened(b) == {s \in DOMAIN b.sections : b.sections[s].byte_range.start = bytes.start}
           described(b) == {e \in DOMAIN b.interfaces : b.interfaces[e].byte_range = bytes}
           retained(b) == {p \in DOMAIN b.packets : /\ Covers(bytes, b.packets[p].data)
                                                     /\ b.packets[p].data.start > bytes.start}
<1>1. /\ bytes.start \in Nat /\ bytes.start < m.consumed /\ End(bytes) <= m.consumed
      /\ End(bytes) \in Nat /\ m.consumed \in Nat
  BY RecordsBefore, EntriesTyped DEF ByteRange, End
<1>2. BlockRange(m).start = m.consumed
  BY DEF BlockRange, ByteRange
<1> HIDE DEF bytes
<1>3. opened(n) = opened(m)
  <2>1. /\ Len(m.sections) \in Nat /\ Len(n.sections) \in Nat /\ Len(m.sections) <= Len(n.sections)
        /\ DOMAIN m.sections = 1 .. Len(m.sections) /\ DOMAIN n.sections = 1 .. Len(n.sections)
    BY ArenasTyped DEF Extends
  <2>2. \A s \in DOMAIN n.sections :
            s \in DOMAIN m.sections \/ n.sections[s].byte_range.start = m.consumed
    BY <2>1 DEF Extends, Added
  <2>3. \A s \in DOMAIN m.sections :
            /\ s \in DOMAIN n.sections
            /\ n.sections[s].byte_range.start = m.sections[s].byte_range.start
    BY <2>1 DEF Extends
  <2> QED BY <1>1, <2>2, <2>3
<1>4. described(n) = described(m)
  <2>1. m.interfaces \in Seq(InterfaceMetadata) /\ n.interfaces \in Seq(InterfaceMetadata)
        /\ Grows(m.interfaces, n.interfaces)
    BY ArenasTyped DEF Extends
  <2>2. \A e \in DOMAIN n.interfaces :
            e \in DOMAIN m.interfaces \/ n.interfaces[e].byte_range = BlockRange(m)
    BY <2>1, OldAndNew DEF Extends
  <2>3. \A e \in DOMAIN m.interfaces : e \in DOMAIN n.interfaces /\ n.interfaces[e] = m.interfaces[e]
    BY <2>1, OldAndNew
  <2> QED BY <1>1, <1>2, <2>2, <2>3
<1>5. retained(n) = retained(m)
  <2>1. m.packets \in Seq(PacketRecord) /\ n.packets \in Seq(PacketRecord)
        /\ Grows(m.packets, n.packets)
    BY ArenasTyped DEF Extends
  <2>2. \A p \in DOMAIN n.packets :
            \/ p \in DOMAIN m.packets
            \/ n.packets[p].data.start > m.consumed /\ n.packets[p].data.length >= 0
    BY <2>1, OldAndNew DEF Extends
  <2>3. \A p \in DOMAIN m.packets : p \in DOMAIN n.packets /\ n.packets[p] = m.packets[p]
    BY <2>1, OldAndNew
  <2>4. ASSUME NEW p \in DOMAIN n.packets, n.packets[p].data.start > m.consumed,
               n.packets[p].data.length >= 0
        PROVE  ~Covers(bytes, n.packets[p].data)
    <3>1. n.packets[p].data.start \in Int /\ n.packets[p].data.length \in Int
      BY EntriesTyped
    <3> QED BY <1>1, <2>4, <3>1 DEF Covers, End
  <2> QED BY <2>2, <2>3, <2>4
<1>6. ASSUME NEW codes \in SUBSET {"INCONSISTENT_LENGTH", "UNSUPPORTED_BLOCK"}
      PROVE  said(n, codes) = said(m, codes)
  <2>1. m.diagnostics \in Seq(DiagnosticRecord) /\ n.diagnostics \in Seq(DiagnosticRecord)
        /\ Grows(m.diagnostics, n.diagnostics)
    BY ArenasTyped DEF Extends
  <2>2. \A g \in DOMAIN n.diagnostics :
            \/ g \in DOMAIN m.diagnostics
            \/ /\ n.diagnostics[g].scope = None
               /\ n.diagnostics[g].code \in {"INCONSISTENT_LENGTH", "UNSUPPORTED_BLOCK"}
               => n.diagnostics[g].byte_range = BlockRange(m)
    BY <2>1, OldAndNew DEF Extends
  <2>3. \A g \in DOMAIN m.diagnostics : g \in DOMAIN n.diagnostics /\ n.diagnostics[g] = m.diagnostics[g]
    BY <2>1, OldAndNew
  <2>4. BlockRange(m) # bytes
    BY <1>1, <1>2
  <2>5. \A c \in codes : c \in {"INCONSISTENT_LENGTH", "UNSUPPORTED_BLOCK"}
    OBVIOUS
  <2>6. \A g \in said(n, codes) : g \in DOMAIN m.diagnostics
    BY <2>2, <2>4, <2>5
  <2> QED BY <2>3, <2>6
<1>7. \A b : Products(b, i) =
                CASE block.kind = "SHB" -> opened(b)
                  [] block.kind \in {"Header", "IDB"} -> described(b)
                  [] block.kind \in {"Record", "EPB", "SPB"} ->
                        retained(b) \cup said(b, {"INCONSISTENT_LENGTH"})
                  [] OTHER -> said(b, {"UNSUPPORTED_BLOCK"})
  BY DEF Products, bytes
<1>8. said(n, {"INCONSISTENT_LENGTH"}) = said(m, {"INCONSISTENT_LENGTH"})
      /\ said(n, {"UNSUPPORTED_BLOCK"}) = said(m, {"UNSUPPORTED_BLOCK"})
  BY <1>6
<1> HIDE DEF opened, described, retained, said
<1> QED BY <1>3, <1>4, <1>5, <1>7, <1>8

\* What of it tells of the record the reader is at.
Fresh(m, n) ==
    LET kind == Upcoming(m).kind
        said(code) == {g \in Added(m.diagnostics, n.diagnostics) :
                          n.diagnostics[g].scope = None /\ n.diagnostics[g].code = code}
    IN  CASE kind = "SHB" -> Added(m.sections, n.sections)
          [] kind \in {"Header", "IDB"} -> Added(m.interfaces, n.interfaces)
          [] kind \in {"Record", "EPB", "SPB"} ->
                {i \in Added(m.packets, n.packets) : Covers(BlockRange(m), n.packets[i].data)}
                    \cup said("INCONSISTENT_LENGTH")
          [] OTHER -> said("UNSUPPORTED_BLOCK")

\* What the record at the reader leaves is new: nothing of before lies at its bytes.
LEMMA ProductsFresh ==
    ASSUME file \in Captures, NEW m \in Builders, NEW n \in Builders, Position(m), Told(m),
           ~Legacy \/ Upcoming(m).kind # "SHB", Extends(m, n)
    PROVE  Products(n, m.at) = Fresh(m, n)
<1> DEFINE block == file.blocks[m.at]
           bytes == BlockRange(m)
           said(codes) == {g \in DOMAIN n.diagnostics : /\ n.diagnostics[g].scope = None
                                                        /\ n.diagnostics[g].byte_range = bytes
                                                        /\ n.diagnostics[g].code \in codes}
           opened == {s \in DOMAIN n.sections : n.sections[s].byte_range.start = bytes.start}
           described == {e \in DOMAIN n.interfaces : n.interfaces[e].byte_range = bytes}
           retained == {p \in DOMAIN n.packets : /\ Covers(bytes, n.packets[p].data)
                                                  /\ n.packets[p].data.start > bytes.start}
           now(code) == {g \in Added(m.diagnostics, n.diagnostics) :
                            n.diagnostics[g].scope = None /\ n.diagnostics[g].code = code}
           pushed == {i \in Added(m.packets, n.packets) : Covers(bytes, n.packets[i].data)}
<1>1. ByteRange(Offset(m.at), Declared(block)) = bytes /\ bytes.start = m.consumed
      /\ Upcoming(m) = block /\ m.consumed \in Nat
  BY EntriesTyped DEF BlockRange, ByteRange, Upcoming, Position
<1>2. Products(n, m.at) =
                CASE block.kind = "SHB" -> opened
                  [] block.kind \in {"Header", "IDB"} -> described
                  [] block.kind \in {"Record", "EPB", "SPB"} ->
                        retained \cup said({"INCONSISTENT_LENGTH"})
                  [] OTHER -> said({"UNSUPPORTED_BLOCK"})
  BY <1>1 DEF Products
<1>3. Fresh(m, n) =
                CASE block.kind = "SHB" -> Added(m.sections, n.sections)
                  [] block.kind \in {"Header", "IDB"} -> Added(m.interfaces, n.interfaces)
                  [] block.kind \in {"Record", "EPB", "SPB"} -> pushed \cup now("INCONSISTENT_LENGTH")
                  [] OTHER -> now("UNSUPPORTED_BLOCK")
  BY <1>1 DEF Fresh
<1> HIDE DEF bytes
<1>4. ~Legacy => opened = Added(m.sections, n.sections)
  <2>1. /\ Len(m.sections) \in Nat /\ Len(n.sections) \in Nat /\ Len(m.sections) <= Len(n.sections)
        /\ DOMAIN m.sections = 1 .. Len(m.sections) /\ DOMAIN n.sections = 1 .. Len(n.sections)
    BY ArenasTyped DEF Extends
  <2>2. \A s \in DOMAIN n.sections : s \in DOMAIN m.sections \/ s \in Added(m.sections, n.sections)
    BY <2>1 DEF Added
  <2>3. \A s \in Added(m.sections, n.sections) :
            s \in DOMAIN n.sections /\ n.sections[s].byte_range.start = m.consumed
    BY <2>1 DEF Extends, Added
  <2>4. ~Legacy => \A s \in DOMAIN m.sections : n.sections[s].byte_range.start # m.consumed
    <3>1. ~Legacy => \A s \in DOMAIN m.sections : m.sections[s].byte_range.start < m.consumed
      BY DEF Told
    <3>2. \A s \in DOMAIN m.sections : m.sections[s].byte_range.start \in Int
      BY EntriesTyped
    <3>3. \A s \in DOMAIN m.sections : n.sections[s].byte_range.start = m.sections[s].byte_range.start
      BY DEF Extends
    <3> QED BY <1>1, <3>1, <3>2, <3>3
  <2> QED BY <1>1, <2>2, <2>3, <2>4
<1>5. described = Added(m.interfaces, n.interfaces)
  <2>1. m.interfaces \in Seq(InterfaceMetadata) /\ n.interfaces \in Seq(InterfaceMetadata)
        /\ Grows(m.interfaces, n.interfaces)
    BY ArenasTyped DEF Extends
  <2>2. \A e \in DOMAIN n.interfaces : e \in DOMAIN m.interfaces \/ e \in Added(m.interfaces, n.interfaces)
    BY <2>1, OldAndNew
  <2>3. \A e \in Added(m.interfaces, n.interfaces) :
            e \in DOMAIN n.interfaces /\ n.interfaces[e].byte_range = bytes
    BY <2>1, OldAndNew DEF Extends, bytes
  <2>4. \A e \in DOMAIN m.interfaces : n.interfaces[e] = m.interfaces[e]
    BY <2>1, OldAndNew
  <2>5. \A e \in DOMAIN m.interfaces : m.interfaces[e].byte_range.start < m.consumed
    BY DEF Told
  <2> QED BY <1>1, <2>2, <2>3, <2>4, <2>5
<1>6. retained = pushed
  <2>1. m.packets \in Seq(PacketRecord) /\ n.packets \in Seq(PacketRecord)
        /\ Grows(m.packets, n.packets)
    BY ArenasTyped DEF Extends
  <2>2. \A p \in DOMAIN n.packets : p \in DOMAIN m.packets \/ p \in Added(m.packets, n.packets)
    BY <2>1, OldAndNew
  <2>3. \A p \in Added(m.packets, n.packets) :
            p \in DOMAIN n.packets /\ n.packets[p].data.start > m.consumed
    BY <2>1, OldAndNew DEF Extends
  <2>4. \A p \in DOMAIN m.packets : n.packets[p] = m.packets[p]
    BY <2>1, OldAndNew
  <2>5. \A p \in DOMAIN m.packets : /\ m.packets[p].data.start <= m.consumed
                                    /\ m.packets[p].data.start \in Int
    BY EntriesTyped DEF Told
  <2> QED BY <1>1, <2>2, <2>3, <2>4, <2>5
<1>7. ASSUME NEW code \in {"INCONSISTENT_LENGTH", "UNSUPPORTED_BLOCK"}
      PROVE  said({code}) = now(code)
  <2>1. m.diagnostics \in Seq(DiagnosticRecord) /\ n.diagnostics \in Seq(DiagnosticRecord)
        /\ Grows(m.diagnostics, n.diagnostics)
    BY ArenasTyped DEF Extends
  <2>2. \A g \in DOMAIN n.diagnostics : g \in DOMAIN m.diagnostics \/ g \in Added(m.diagnostics, n.diagnostics)
    BY <2>1, OldAndNew
  <2>3. \A g \in Added(m.diagnostics, n.diagnostics) :
            /\ g \in DOMAIN n.diagnostics
            /\ n.diagnostics[g].scope = None /\ n.diagnostics[g].code = code
               => n.diagnostics[g].byte_range = bytes
    BY <2>1, OldAndNew DEF Extends, bytes
  <2>4. \A g \in DOMAIN m.diagnostics :
            /\ n.diagnostics[g] = m.diagnostics[g]
            /\ m.diagnostics[g].scope = None /\ m.diagnostics[g].code = code
               => m.diagnostics[g].byte_range.start < m.consumed
    BY <2>1, OldAndNew DEF Told
  <2> QED BY <1>1, <2>2, <2>3, <2>4
<1>8. said({"INCONSISTENT_LENGTH"}) = now("INCONSISTENT_LENGTH")
      /\ said({"UNSUPPORTED_BLOCK"}) = now("UNSUPPORTED_BLOCK")
  BY <1>7
<1> HIDE DEF opened, described, retained, said, pushed, now
<1> QED BY <1>1, <1>2, <1>3, <1>4, <1>5, <1>6, <1>8

\* While the reader stays, what tells of the records before it stays.
LEMMA ToldStays ==
    ASSUME file \in Captures, NEW m \in Builders, NEW n \in Builders, Position(m), Told(m),
           Extends(m, n), n.at = m.at, n.consumed = m.consumed,
           Len(n.sections) = Len(m.sections), n.interfaces = m.interfaces, n.packets = m.packets,
           \A g \in Added(m.diagnostics, n.diagnostics) :
              ~ /\ n.diagnostics[g].scope = None
                /\ n.diagnostics[g].code \in {"INCONSISTENT_LENGTH", "UNSUPPORTED_BLOCK"},
           n.complete /\ Left(n) > 0 =>
              \E g \in DOMAIN n.diagnostics :
                 /\ n.diagnostics[g].scope = None
                 /\ n.diagnostics[g].byte_range.start = n.consumed
                 /\ n.diagnostics[g].code \in {"TRUNCATED_RECORD", "INVALID_CAPTURE_HEADER"}
    PROVE  Told(n)
<1>1. \A i \in 1 .. n.at - 1 : \E x : Products(n, i) = {x}
  BY ProductsStay DEF Told
<1>2. ~Legacy => \A s \in DOMAIN n.sections : n.sections[s].byte_range.start < n.consumed
  <2>1. DOMAIN n.sections = DOMAIN m.sections
    BY ArenasTyped
  <2> QED BY <2>1 DEF Told, Extends
<1>3. \A g \in DOMAIN n.diagnostics :
          n.diagnostics[g].scope = None /\ n.diagnostics[g].code \in {"INCONSISTENT_LENGTH", "UNSUPPORTED_BLOCK"}
          => n.diagnostics[g].byte_range.start < n.consumed
  <2>1. m.diagnostics \in Seq(DiagnosticRecord) /\ n.diagnostics \in Seq(DiagnosticRecord)
        /\ Grows(m.diagnostics, n.diagnostics)
    BY ArenasTyped DEF Extends
  <2>2. \A g \in DOMAIN n.diagnostics : g \in DOMAIN m.diagnostics \/ g \in Added(m.diagnostics, n.diagnostics)
    BY <2>1, OldAndNew
  <2>3. \A g \in DOMAIN m.diagnostics : n.diagnostics[g] = m.diagnostics[g]
    BY <2>1, OldAndNew
  <2> QED BY <2>2, <2>3 DEF Told
<1>4. /\ \A e \in DOMAIN n.interfaces : n.interfaces[e].byte_range.start < n.consumed
      /\ \A i \in DOMAIN n.packets : n.packets[i].data.start <= n.consumed
  BY DEF Told
<1> QED BY <1>1, <1>2, <1>3, <1>4 DEF Told

\* A reader that passes a record which has left one thing has something to tell of each.
LEMMA ToldAdvances ==
    ASSUME file \in Captures, NEW m \in Builders, NEW n \in Builders, NEW q \in Builders,
           Position(m), Told(m), m.at <= Len(file.blocks), Declared(Upcoming(m)) > 0,
           ~Legacy \/ Upcoming(m).kind # "SHB",
           Extends(m, n), NEW x, Fresh(m, n) = {x},
           \A i \in Added(m.packets, n.packets) : Covers(BlockRange(m), n.packets[i].data),
           q.at = m.at + 1, q.consumed = m.consumed + Declared(Upcoming(m)), ~q.complete,
           q.sections = n.sections, q.interfaces = n.interfaces, q.packets = n.packets,
           q.diagnostics = n.diagnostics
    PROVE  Told(q)
<1>0. /\ m.consumed \in Nat /\ q.consumed \in Nat /\ m.consumed < q.consumed
      /\ m.at \in 1 .. Len(file.blocks) /\ Len(file.blocks) \in Nat
      /\ Declared(Upcoming(m)) \in Nat
      /\ BlockRange(m).start = m.consumed /\ End(BlockRange(m)) = q.consumed
  <2>1. m.at \in 1 .. Len(file.blocks) /\ Len(file.blocks) \in Nat
    BY FileTyped DEF Position
  <2>2. Declared(Upcoming(m)) \in Nat
    BY <2>1, FileTyped DEF Upcoming
  <2> QED BY <2>1, <2>2, EntriesTyped DEF BlockRange, ByteRange, End
<1>1. \A i \in 1 .. q.at - 1 : \E y : Products(q, i) = {y}
  <2> SUFFICES ASSUME NEW i \in 1 .. q.at - 1 PROVE \E y : Products(q, i) = {y}
    OBVIOUS
  <2>1. Products(q, i) = Products(n, i)
    BY DEF Products
  <2>2. CASE i = m.at
    BY <2>1, <2>2, ProductsFresh
  <2>3. CASE i # m.at
    <3>1. i \in 1 .. m.at - 1
      BY <1>0, <2>3
    <3>2. Products(n, i) = Products(m, i)
      BY <3>1, ProductsStay
    <3> QED BY <2>1, <3>1, <3>2 DEF Told
  <2> QED BY <2>2, <2>3
<1>2. ~Legacy => \A s \in DOMAIN q.sections : q.sections[s].byte_range.start < q.consumed
  <2>1. /\ Len(m.sections) \in Nat /\ Len(n.sections) \in Nat /\ Len(m.sections) <= Len(n.sections)
        /\ DOMAIN m.sections = 1 .. Len(m.sections) /\ DOMAIN n.sections = 1 .. Len(n.sections)
    BY ArenasTyped DEF Extends
  <2>2. \A s \in DOMAIN n.sections : s \in DOMAIN m.sections \/ s \in Added(m.sections, n.sections)
    BY <2>1 DEF Added
  <2>3. \A s \in DOMAIN m.sections : n.sections[s].byte_range.start = m.sections[s].byte_range.start
                                     /\ m.sections[s].byte_range.start \in Int
    BY EntriesTyped DEF Extends
  <2>4. \A s \in Added(m.sections, n.sections) : n.sections[s].byte_range.start = m.consumed
    BY DEF Extends
  <2>5. ~Legacy => \A s \in DOMAIN m.sections : m.sections[s].byte_range.start < m.consumed
    BY DEF Told
  <2> QED BY <1>0, <2>2, <2>3, <2>4, <2>5
<1>3. \A e \in DOMAIN q.interfaces : q.interfaces[e].byte_range.start < q.consumed
  <2>1. m.interfaces \in Seq(InterfaceMetadata) /\ n.interfaces \in Seq(InterfaceMetadata)
        /\ Grows(m.interfaces, n.interfaces)
    BY ArenasTyped DEF Extends
  <2>2. \A e \in DOMAIN n.interfaces : e \in DOMAIN m.interfaces \/ e \in Added(m.interfaces, n.interfaces)
    BY <2>1, OldAndNew
  <2>3. \A e \in Added(m.interfaces, n.interfaces) : n.interfaces[e].byte_range.start = m.consumed
    BY <1>0 DEF Extends
  <2>4. \A e \in DOMAIN m.interfaces : /\ n.interfaces[e] = m.interfaces[e]
                                       /\ m.interfaces[e].byte_range.start < m.consumed
                                       /\ m.interfaces[e].byte_range.start \in Int
    BY <2>1, OldAndNew, EntriesTyped DEF Told
  <2> QED BY <1>0, <2>2, <2>3, <2>4
<1>4. \A i \in DOMAIN q.packets : q.packets[i].data.start <= q.consumed
  <2>1. m.packets \in Seq(PacketRecord) /\ n.packets \in Seq(PacketRecord)
        /\ Grows(m.packets, n.packets)
    BY ArenasTyped DEF Extends
  <2>2. \A i \in DOMAIN n.packets : i \in DOMAIN m.packets \/ i \in Added(m.packets, n.packets)
    BY <2>1, OldAndNew
  <2>3. ASSUME NEW i \in Added(m.packets, n.packets) PROVE n.packets[i].data.start <= q.consumed
    <3>1. i \in DOMAIN n.packets
      BY <2>1, OldAndNew
    <3>2. n.packets[i].data.start \in Int /\ n.packets[i].data.length \in Int
      BY <3>1, EntriesTyped
    <3>3. n.packets[i].data.length >= 0 /\ End(n.packets[i].data) <= q.consumed
      BY <1>0 DEF Extends, Covers
    <3> QED BY <1>0, <3>2, <3>3, SMTT(30) DEF End
  <2>4. \A i \in DOMAIN m.packets : /\ n.packets[i] = m.packets[i]
                                    /\ m.packets[i].data.start <= m.consumed
                                    /\ m.packets[i].data.start \in Int
    BY <2>1, OldAndNew, EntriesTyped DEF Told
  <2> QED BY <1>0, <2>2, <2>3, <2>4
<1>5. \A g \in DOMAIN q.diagnostics :
          q.diagnostics[g].scope = None /\ q.diagnostics[g].code \in {"INCONSISTENT_LENGTH", "UNSUPPORTED_BLOCK"}
          => q.diagnostics[g].byte_range.start < q.consumed
  <2>1. m.diagnostics \in Seq(DiagnosticRecord) /\ n.diagnostics \in Seq(DiagnosticRecord)
        /\ Grows(m.diagnostics, n.diagnostics)
    BY ArenasTyped DEF Extends
  <2>2. \A g \in DOMAIN n.diagnostics : g \in DOMAIN m.diagnostics \/ g \in Added(m.diagnostics, n.diagnostics)
    BY <2>1, OldAndNew
  <2>3. \A g \in DOMAIN m.diagnostics : n.diagnostics[g] = m.diagnostics[g]
    BY <2>1, OldAndNew
  <2>4. ASSUME NEW g \in DOMAIN m.diagnostics, m.diagnostics[g].scope = None,
               m.diagnostics[g].code \in {"INCONSISTENT_LENGTH", "UNSUPPORTED_BLOCK"}
        PROVE  m.diagnostics[g].byte_range.start < q.consumed
    <3>1. m.diagnostics[g].byte_range.start < m.consumed
      BY <2>4 DEF Told
    <3>2. m.diagnostics[g] \in DiagnosticRecord
      BY <2>1
    <3>3. m.diagnostics[g].byte_range.start \in Int
      BY <3>2 DEF DiagnosticRecord, Ranges
    <3> QED BY <1>0, <3>1, <3>3
  <2>5. ASSUME NEW g \in Added(m.diagnostics, n.diagnostics), n.diagnostics[g].scope = None,
               n.diagnostics[g].code \in {"INCONSISTENT_LENGTH", "UNSUPPORTED_BLOCK"}
        PROVE  n.diagnostics[g].byte_range.start < q.consumed
    <3>1. n.diagnostics[g].byte_range = BlockRange(m)
      BY <2>5 DEF Extends
    <3> QED BY <1>0, <3>1
  <2> QED BY <2>2, <2>3, <2>4, <2>5
<1> QED BY <1>1, <1>2, <1>3, <1>4, <1>5 DEF Told

-----------------------------------------------------------------------------
\* What a builder has become when a call leaves the reader where it was, and when it has
\* read one more record.

SamePlace(m, n) ==
    /\ n.at = m.at /\ n.consumed = m.consumed /\ n.records = m.records
    /\ n.limits = m.limits /\ n.initialized = m.initialized

Quiet(m, n) ==
    \A g \in Added(m.diagnostics, n.diagnostics) :
        ~ /\ n.diagnostics[g].scope = None
          /\ n.diagnostics[g].code \in {"INCONSISTENT_LENGTH", "UNSUPPORTED_BLOCK"}

\* n: m with more strings and diagnostics, its reader where it was.
Still(m, n) ==
    /\ n \in Builders /\ WithinLimits(n) /\ SamePlace(m, n) /\ ~n.complete
    /\ Skeleton(n) /\ Trees(n) /\ Held(n)
    /\ Extends(m, n) /\ Quiet(m, n)
    /\ Len(n.sections) = Len(m.sections) /\ n.interfaces = m.interfaces /\ n.packets = m.packets
    /\ Legacy => n.sections = m.sections

\* A builder whose reader stays and whose diagnostics are those of the pending packet is
\* sound.
LEMMA SoundStill ==
    ASSUME file \in Captures, NEW m, Sound(m), NEW n, Still(m, n)
    PROVE  Sound(n)
<1>1. m \in Builders /\ Position(m) /\ Told(m)
  BY DEF Sound
<1>2. /\ n \in Builders /\ WithinLimits(n) /\ Skeleton(n) /\ Trees(n) /\ Held(n) /\ ~n.complete
      /\ n.at = m.at /\ n.consumed = m.consumed
  BY DEF Still, SamePlace
<1>3. Position(n)
  BY <1>1, <1>2 DEF Position, Still, SamePlace
<1>4. Told(n)
  BY <1>1, <1>2, ToldStays DEF Still, Quiet
<1> QED BY <1>2, <1>3, <1>4 DEF Sound, Whole

Moved(m, n) == [n EXCEPT !.at = @ + 1, !.consumed = @ + Declared(Upcoming(m)), !.records = @ + 1]

\* n: m with what the record at the reader leaves, before the reader passes it.
Forward(m, n) ==
    /\ n \in Builders /\ WithinLimits(n) /\ ~n.complete
    /\ n.at = m.at /\ n.consumed = m.consumed /\ n.records = m.records /\ n.limits = m.limits
    /\ Skeleton(Moved(m, n)) /\ Trees(n) /\ Pending(n) = {}
    /\ Extends(m, n)
    /\ \A i \in Added(m.packets, n.packets) : Covers(BlockRange(m), n.packets[i].data)
    /\ \E x : Fresh(m, n) = {x}
    /\ Legacy => /\ n.initialized /\ Len(n.sections) = 1 /\ Len(n.interfaces) = 1
                 /\ n.sections[1].byte_range = ByteRange(0, file.length)

\* The builder behind the record it has read.
LEMMA MovedTyped ==
    ASSUME NEW m, NEW n \in Builders, Declared(Upcoming(m)) \in Nat
    PROVE  /\ Moved(m, n) \in Builders
           /\ Moved(m, n).at = n.at + 1 /\ Moved(m, n).records = n.records + 1
           /\ Moved(m, n).consumed = n.consumed + Declared(Upcoming(m))
           /\ Moved(m, n).complete = n.complete /\ Moved(m, n).limits = n.limits
           /\ Moved(m, n).initialized = n.initialized /\ Moved(m, n).current = n.current
           /\ Moved(m, n).started_at = n.started_at /\ Moved(m, n).ended_at = n.ended_at
           /\ Moved(m, n).sections = n.sections /\ Moved(m, n).interfaces = n.interfaces
           /\ Moved(m, n).packets = n.packets /\ Moved(m, n).layers = n.layers
           /\ Moved(m, n).fields = n.fields /\ Moved(m, n).field_children = n.field_children
           /\ Moved(m, n).diagnostics = n.diagnostics /\ Moved(m, n).strings = n.strings
<1> DEFINE q == Moved(m, n)
           length == Declared(Upcoming(m))
<1>1. n.at \in Nat /\ n.records \in Nat /\ n.consumed \in Nat
  BY DEF Builders
<1>2. q = [n EXCEPT !.at = n.at + 1, !.consumed = n.consumed + length, !.records = n.records + 1]
  BY DEF Moved
<1> HIDE DEF q, length
<1>3. n.at + 1 \in Nat /\ n.records + 1 \in Nat /\ n.consumed + length \in Nat
  BY <1>1 DEF length
<1>4. q \in Builders
  BY <1>2, <1>3 DEF Builders
<1>5. q.at = n.at + 1 /\ q.consumed = n.consumed + length /\ q.records = n.records + 1
  BY <1>2 DEF Builders
<1>6. /\ q.complete = n.complete /\ q.limits = n.limits
      /\ q.initialized = n.initialized /\ q.current = n.current
      /\ q.started_at = n.started_at /\ q.ended_at = n.ended_at
      /\ q.sections = n.sections /\ q.interfaces = n.interfaces
      /\ q.packets = n.packets /\ q.layers = n.layers
      /\ q.fields = n.fields /\ q.field_children = n.field_children
      /\ q.diagnostics = n.diagnostics /\ q.strings = n.strings
  BY <1>2 DEF Builders
<1> QED BY <1>4, <1>5, <1>6 DEF q, length

\* A record that is read has its place in the file.
LEMMA ReadablePlace ==
    ASSUME file \in Captures, NEW m \in Builders, Position(m), Readable(m)
    PROVE  /\ m.at \in 1 .. Len(file.blocks) /\ Len(file.blocks) \in Nat /\ file.length \in Nat
           /\ m.at \in Nat /\ m.records \in Nat /\ m.consumed \in Nat
           /\ Declared(Upcoming(m)) \in Nat /\ Declared(Upcoming(m)) > 0
           /\ m.consumed + Declared(Upcoming(m)) <= file.length
           /\ Legacy => /\ IsRecord(Upcoming(m)) /\ (Upcoming(m).kind = "Header" <=> m.at = 1)
                        /\ Upcoming(m).kind \in {"Header", "Record"}
           /\ ~Legacy => /\ IsBlock(Upcoming(m)) /\ ~BadLength(Upcoming(m))
                         /\ Upcoming(m).kind \notin {"Header", "Record"}
                         /\ Declared(Upcoming(m)) = Upcoming(m).declared
           /\ BlockRange(m).start = m.consumed
           /\ End(BlockRange(m)) = m.consumed + Declared(Upcoming(m))
           /\ BlockRange(m) \in Ranges /\ IsWithin(BlockRange(m), file.length)
<1>1. m.at \in 1 .. Len(file.blocks) /\ Len(file.blocks) \in Nat /\ file.length \in Nat
  BY FileTyped DEF Position, Readable
<1>2. Upcoming(m) = file.blocks[m.at]
  BY DEF Upcoming
<1>3. m.at \in Nat /\ m.records \in Nat /\ m.consumed \in Nat
  BY DEF Builders
<1>4. Declared(Upcoming(m)) \in Nat
  BY <1>1, <1>2, FileTyped
<1>5. m.consumed + Declared(Upcoming(m)) <= file.length
  BY <1>1, <1>3, <1>4 DEF Readable, Left
<1>6. Legacy => /\ IsRecord(Upcoming(m)) /\ (Upcoming(m).kind = "Header" <=> m.at = 1)
  BY <1>1, <1>2, FileTyped
<1>7. ~Legacy => /\ IsBlock(Upcoming(m)) /\ ~BadLength(Upcoming(m))
  BY <1>1, <1>2, FileTyped DEF Readable, BadLengthHint
<1>8. Legacy => Upcoming(m).kind \in {"Header", "Record"} /\ Declared(Upcoming(m)) > 0
  <2> SUFFICES ASSUME Legacy
               PROVE  Upcoming(m).kind \in {"Header", "Record"} /\ Declared(Upcoming(m)) > 0
    OBVIOUS
  <2>1. CASE Upcoming(m).kind = "Header"
    BY <2>1 DEF Declared, DeclaredIn
  <2>2. CASE Upcoming(m).kind = "Record" /\ Upcoming(m).captured \in Nat
    BY <2>2 DEF Declared, DeclaredIn, RecordHeader
  <2>3. \/ Upcoming(m).kind = "Header"
        \/ Upcoming(m).kind = "Record" /\ Upcoming(m).captured \in Nat
    BY <1>6 DEF IsRecord
  <2> QED BY <2>1, <2>2, <2>3
<1>9. ~Legacy => /\ Upcoming(m).kind \notin {"Header", "Record"}
                 /\ Declared(Upcoming(m)) = Upcoming(m).declared
  BY <1>7 DEF IsBlock, Declared, DeclaredIn
<1>10. ~Legacy => Declared(Upcoming(m)) > 0
  <2>1. ~Legacy => ~(Upcoming(m).declared < 12)
    BY <1>7 DEF BadLength
  <2> QED BY <1>4, <1>9, <2>1
<1>11. /\ BlockRange(m).start = m.consumed /\ BlockRange(m) \in Ranges
       /\ End(BlockRange(m)) = m.consumed + Declared(Upcoming(m))
  BY <1>3, <1>4 DEF BlockRange, ByteRange, End, Ranges
<1> QED BY <1>1, <1>3, <1>4, <1>5, <1>6, <1>7, <1>8, <1>9, <1>10, <1>11 DEF IsWithin

\* A builder that has read its record, and then passes it, is sound.
LEMMA SoundForward ==
    ASSUME file \in Captures, NEW m, Sound(m), Readable(m), NEW n, Forward(m, n)
    PROVE  Sound(Moved(m, n))
<1> DEFINE q == Moved(m, n)
<1>1. m \in Builders /\ Position(m) /\ Told(m)
  BY DEF Sound
<1>2. /\ m.at \in 1 .. Len(file.blocks) /\ Len(file.blocks) \in Nat /\ file.length \in Nat
      /\ m.at \in Nat /\ m.records \in Nat /\ m.consumed \in Nat
      /\ Declared(Upcoming(m)) \in Nat /\ Declared(Upcoming(m)) > 0
      /\ m.consumed + Declared(Upcoming(m)) <= file.length
      /\ Legacy => Upcoming(m).kind \in {"Header", "Record"}
      /\ ~Legacy => ~BadLength(file.blocks[m.at])
  BY <1>1, ReadablePlace DEF Upcoming
<1>3. /\ n \in Builders /\ WithinLimits(n) /\ ~n.complete
      /\ n.at = m.at /\ n.consumed = m.consumed /\ n.records = m.records /\ n.limits = m.limits
      /\ Skeleton(q) /\ Trees(n) /\ Pending(n) = {} /\ Extends(m, n)
      /\ \A i \in Added(m.packets, n.packets) : Covers(BlockRange(m), n.packets[i].data)
      /\ Legacy => /\ n.initialized /\ Len(n.sections) = 1 /\ Len(n.interfaces) = 1
                   /\ n.sections[1].byte_range = ByteRange(0, file.length)
  BY DEF Forward
<1>4. PICK x : Fresh(m, n) = {x}
  BY DEF Forward
<1>5. /\ q \in Builders
      /\ q.at = m.at + 1 /\ q.records = m.records + 1
      /\ q.consumed = m.consumed + Declared(Upcoming(m))
      /\ ~q.complete /\ q.limits = m.limits
      /\ q.initialized = n.initialized /\ q.current = n.current
      /\ q.started_at = n.started_at /\ q.ended_at = n.ended_at
      /\ q.sections = n.sections /\ q.interfaces = n.interfaces
      /\ q.packets = n.packets /\ q.layers = n.layers
      /\ q.fields = n.fields /\ q.field_children = n.field_children
      /\ q.diagnostics = n.diagnostics /\ q.strings = n.strings
      /\ q.limits = n.limits
  BY <1>2, <1>3, MovedTyped
<1> HIDE DEF q
<1>6. WithinLimits(q)
  BY <1>3, <1>5 DEF WithinLimits
<1>7. Trees(q)
  BY <1>3, <1>5, TreesElsewhere
<1>8. Held(q)
  BY <1>3, <1>5 DEF Held, Pending
<1>9. Told(q)
  <2>1. m.at <= Len(file.blocks) /\ (~Legacy \/ Upcoming(m).kind # "SHB")
    BY <1>2
  <2> QED BY <1>1, <1>2, <1>3, <1>4, <1>5, <2>1, ToldAdvances
<1>10. Position(q)
  <2>1. q.at \in 1 .. Len(file.blocks) + 1 /\ q.records = q.at - 1 /\ q.at > 1
    BY <1>1, <1>2, <1>5, SMTT(30) DEF Position
  <2>2. q.consumed = Offset(q.at)
    <3>1. Offset(m.at + 1) = Offset(m.at) + Declared(file.blocks[m.at])
      BY <1>2, OffsetSteps
    <3> QED BY <1>1, <1>5, <3>1 DEF Position, Upcoming
  <2>3. q.consumed <= file.length /\ q.limits = Limits
    BY <1>1, <1>2, <1>5 DEF Position
  <2>4. ~Legacy => \A i \in 1 .. q.at - 1 : ~BadLength(file.blocks[i])
    <3>1. \A i \in 1 .. q.at - 1 : i \in 1 .. m.at - 1 \/ i = m.at
      BY <1>2, <1>5
    <3> QED BY <1>1, <1>2, <3>1 DEF Position
  <2> QED BY <1>3, <1>5, <2>1, <2>2, <2>3, <2>4 DEF Position
<1> QED BY <1>3, <1>5, <1>6, <1>7, <1>8, <1>9, <1>10 DEF Sound, Whole, q

\* A sequence that stays has grown by nothing.
LEMMA GrowsItself ==
    ASSUME NEW S, NEW s \in Seq(S)
    PROVE  Grows(s, s) /\ Added(s, s) = {}
<1>1. Len(s) \in Nat
  OBVIOUS
<1> QED BY <1>1 DEF Grows, Added

\* What a packet record reads does not change while it is tried again.
LEMMA SamePending ==
    ASSUME NEW m \in Builders, NEW b \in Builders, Steady(m, b)
    PROVE  /\ Readable(b) <=> Readable(m)
           /\ Retains(b) <=> Retains(m)
           /\ DataOf(b) = DataOf(m)
<1>0. /\ b.at = m.at /\ b.consumed = m.consumed /\ b.initialized = m.initialized
      /\ b.current = m.current /\ b.interfaces = m.interfaces
  BY DEF Steady
<1>1. Upcoming(b) = Upcoming(m) /\ Left(b) = Left(m)
  BY <1>0 DEF Upcoming, Left
<1>2. IndexOf(b) = IndexOf(m)
  BY <1>0, <1>1 DEF IndexOf
<1>3. DataOf(b) = DataOf(m)
  BY <1>0, <1>1, <1>2 DEF DataOf
<1>4. Retains(b) <=> Retains(m)
  BY <1>0, <1>1, <1>2, <1>3 DEF Retains
<1>5. /\ NoLengthHint(b) <=> NoLengthHint(m)
      /\ BadLengthHint(b) <=> BadLengthHint(m)
      /\ Oversized(b) <=> Oversized(m)
      /\ RespectsSection(b) <=> RespectsSection(m)
  BY <1>0, <1>1 DEF NoLengthHint, BadLengthHint, Oversized, RespectsSection
<1>6. Readable(b) <=> Readable(m)
  BY <1>0, <1>1, <1>5 DEF Readable
<1> QED BY <1>3, <1>4, <1>6

\* Of a record that is tried again nothing but its own diagnostics is left.
Scoped(m, b) ==
    Added(m.diagnostics, b.diagnostics) # {} =>
        /\ Readable(m) /\ Retains(m)
        /\ \A g \in Added(m.diagnostics, b.diagnostics) :
              /\ b.diagnostics[g].scope = Len(m.packets) + 1
              /\ Covers(DataOf(m), b.diagnostics[g].byte_range)

\* The diagnostics of an attempt are those of the packet that the retry will retain, and
\* the last.
LEMMA HeldAnnotated ==
    ASSUME NEW m \in Builders, Held(m), ~m.complete, NEW b, Annotated(m, b), Scoped(m, b)
    PROVE  Held(b)
<1>1. /\ b \in Builders /\ Steady(m, b) /\ b.packets = m.packets /\ ~b.complete
      /\ Grows(m.diagnostics, b.diagnostics)
      /\ m.diagnostics \in Seq(DiagnosticRecord) /\ b.diagnostics \in Seq(DiagnosticRecord)
  BY ArenasTyped DEF Annotated, Kept, Steady
<1>2. /\ Len(m.diagnostics) \in Nat /\ Len(b.diagnostics) \in Nat
      /\ Len(m.diagnostics) <= Len(b.diagnostics)
      /\ DOMAIN m.diagnostics = 1 .. Len(m.diagnostics)
      /\ DOMAIN b.diagnostics = 1 .. Len(b.diagnostics)
      /\ \A g \in DOMAIN b.diagnostics :
            g \in DOMAIN m.diagnostics \/ g \in Added(m.diagnostics, b.diagnostics)
      /\ \A g \in DOMAIN m.diagnostics : b.diagnostics[g] = m.diagnostics[g]
      /\ \A g \in Added(m.diagnostics, b.diagnostics) : g \in DOMAIN b.diagnostics
  BY <1>1, OldAndNew
<1>3. \A g \in Added(m.diagnostics, b.diagnostics) : g \in Pending(b)
  BY <1>1, <1>2 DEF Scoped, Pending
<1>4. \A g \in DOMAIN m.diagnostics : g \in Pending(b) => g \in Pending(m)
  BY <1>1, <1>2 DEF Pending
<1>5. \A g \in Pending(m) : g \in Pending(b)
  BY <1>1, <1>2 DEF Pending
<1>6. \A g \in Pending(b) : g \in Pending(m) \/ g \in Added(m.diagnostics, b.diagnostics)
  BY <1>2, <1>4 DEF Pending
<1>7. Pending(b) # {} => Readable(m) /\ Retains(m)
  BY <1>6 DEF Held, Scoped
<1>8. \A g \in Pending(b) : Covers(DataOf(m), b.diagnostics[g].byte_range)
  <2>1. \A g \in Pending(m) : g \in DOMAIN m.diagnostics
    BY DEF Pending
  <2> QED BY <1>2, <1>6, <2>1 DEF Held, Scoped
<1>9. ASSUME NEW g \in Pending(b) PROVE g .. Len(b.diagnostics) \subseteq Pending(b)
  <2> SUFFICES ASSUME NEW h \in g .. Len(b.diagnostics) PROVE h \in Pending(b)
    OBVIOUS
  <2>1. g \in DOMAIN b.diagnostics /\ h \in DOMAIN b.diagnostics /\ h >= g
    BY <1>2 DEF Pending
  <2>2. CASE h \in Added(m.diagnostics, b.diagnostics)
    BY <1>3, <2>2
  <2>3. CASE h \in DOMAIN m.diagnostics
    <3>1. g \in DOMAIN m.diagnostics
      BY <1>2, <2>1, <2>3
    <3>2. g \in Pending(m) /\ h \in g .. Len(m.diagnostics)
      BY <1>2, <1>4, <2>1, <2>3, <3>1
    <3>3. g .. Len(m.diagnostics) \subseteq Pending(m)
      BY <3>2 DEF Held
    <3> QED BY <1>5, <3>2, <3>3
  <2> QED BY <1>2, <2>1, <2>2, <2>3
<1>10. (Readable(b) <=> Readable(m)) /\ (Retains(b) <=> Retains(m)) /\ DataOf(b) = DataOf(m)
  BY <1>1, SamePending
<1> QED BY <1>1, <1>7, <1>8, <1>9, <1>10 DEF Held

\* The diagnostics and strings of an attempt leave a sound builder.
LEMMA AnnotatedStill ==
    ASSUME file \in Captures, NEW m, Sound(m), ~m.complete, NEW b, Annotated(m, b), Scoped(m, b)
    PROVE  Still(m, b)
<1>1. m \in Builders /\ WithinLimits(m) /\ Skeleton(m) /\ Trees(m) /\ Held(m)
  BY DEF Sound, Whole
<1>2. b \in Builders /\ Ceilings(b) /\ Steady(m, b) /\ Grows(m.strings, b.strings)
      /\ Grows(m.diagnostics, b.diagnostics)
  BY DEF Annotated, Kept
<1>3. Skeleton(b) /\ Trees(b) /\ Held(b)
  BY <1>1, <1>2, SkeletonAnnotated, TreesAnnotated, HeldAnnotated
<1>4. WithinLimits(b)
  BY <1>1, <1>2 DEF WithinLimits, Ceilings, Steady
<1>5. \A g \in Added(m.diagnostics, b.diagnostics) : b.diagnostics[g].scope # None
  <2>1. Len(m.packets) + 1 \in Nat
    BY <1>1, ArenasTyped
  <2> QED BY <2>1, NoneAssumption DEF Scoped
<1>6. Quiet(m, b)
  BY <1>5 DEF Quiet
<1>7. Extends(m, b)
  <2>1. /\ b.sections = m.sections /\ b.interfaces = m.interfaces /\ b.packets = m.packets
    BY <1>2 DEF Steady
  <2>2. /\ Grows(m.interfaces, b.interfaces) /\ Added(m.interfaces, b.interfaces) = {}
        /\ Grows(m.packets, b.packets) /\ Added(m.packets, b.packets) = {}
        /\ Grows(m.sections, b.sections) /\ Added(m.sections, b.sections) = {}
    BY <1>1, <2>1, ArenasTyped, GrowsItself
  <2> QED BY <1>2, <1>5, <2>1, <2>2 DEF Extends, Grows
<1>8. SamePlace(m, b) /\ ~b.complete
  BY <1>2 DEF SamePlace, Steady
<1> QED BY <1>2, <1>3, <1>4, <1>6, <1>7, <1>8 DEF Still, Steady

\* A builder to which nothing was added.
LEMMA AnnotatedItself ==
    ASSUME NEW m, Sound(m)
    PROVE  Annotated(m, m) /\ Scoped(m, m)
<1>1. m \in Builders /\ WithinLimits(m)
  BY DEF Sound
<1>2. Ceilings(m)
  BY <1>1 DEF WithinLimits, Ceilings
<1>3. /\ Grows(m.layers, m.layers) /\ Grows(m.fields, m.fields)
      /\ Grows(m.field_children, m.field_children) /\ Grows(m.diagnostics, m.diagnostics)
      /\ Grows(m.strings, m.strings) /\ Added(m.diagnostics, m.diagnostics) = {}
  BY <1>1, ArenasTyped, GrowsItself
<1> QED BY <1>1, <1>2, <1>3 DEF Annotated, Kept, Steady, Scoped

\* A name that is interned, and a diagnostic that is written, annotate.
LEMMA AnnotatedIntern ==
    ASSUME NEW m, Sound(m), NEW v \in Texts
    PROVE  Annotated(m, Intern(m, v)) /\ Scoped(m, Intern(m, v))
<1> DEFINE c == Intern(m, v)
<1>1. m \in Builders /\ WithinLimits(m)
  BY DEF Sound
<1>2. /\ c \in Builders /\ Steady(m, c) /\ c.layers = m.layers /\ c.fields = m.fields
      /\ c.field_children = m.field_children /\ c.diagnostics = m.diagnostics
      /\ Grows(m.strings, c.strings)
      /\ Len(m.strings) <= m.limits["StringBytes"] => Len(c.strings) <= c.limits["StringBytes"]
  BY <1>1, Interned
<1> HIDE DEF c
<1>3. c.limits = m.limits
  BY <1>2 DEF Steady
<1>4. Ceilings(c)
  BY <1>1, <1>2, <1>3 DEF WithinLimits, Ceilings
<1>5. /\ Grows(m.layers, c.layers) /\ Grows(m.fields, c.fields)
      /\ Grows(m.field_children, c.field_children) /\ Grows(m.diagnostics, c.diagnostics)
      /\ Added(m.diagnostics, c.diagnostics) = {}
  BY <1>1, <1>2, ArenasTyped, GrowsItself
<1>6. Annotated(m, c)
  BY <1>2, <1>4, <1>5 DEF Annotated, Kept
<1>7. Scoped(m, c)
  BY <1>5 DEF Scoped
<1> QED BY <1>6, <1>7 DEF c

\* One more diagnostic of the pending packet, or of the capture.
LEMMA AnnotatedNoted ==
    ASSUME NEW m \in Builders, NEW b, Annotated(m, b), NEW code \in Texts, NEW scope \in {None, Len(m.packets) + 1},
           NEW evidence \in Ranges, IsWithin(evidence, file.length), NEW r, Noted(b, code, scope, evidence, r)
    PROVE  /\ Annotated(m, r.b)
           /\ r.out # "Continue" => r.b = b
           /\ r.out = "Continue" =>
                 \E d \in DiagnosticRecord :
                    /\ r.b.diagnostics = Append(b.diagnostics, d)
                    /\ d.code = code /\ d.scope = scope /\ d.byte_range = evidence
<1>1. CASE r.out # "Continue"
  BY <1>1 DEF Noted
<1>2. CASE r.out = "Continue"
  <2> DEFINE c == r.b
  <2>1. PICK d \in DiagnosticRecord : /\ c.diagnostics = Append(b.diagnostics, d)
                                      /\ d.code = code /\ d.scope = scope /\ d.byte_range = evidence
                                      /\ HasString(c, d.message)
    BY <1>2 DEF Noted
  <2>2. /\ c \in Builders /\ b \in Builders /\ Steady(b, c) /\ c.layers = b.layers /\ c.fields = b.fields
        /\ c.field_children = b.field_children /\ Grows(b.strings, c.strings)
        /\ Len(b.strings) <= b.limits["StringBytes"] => Len(c.strings) <= b.limits["StringBytes"]
        /\ Len(c.diagnostics) <= b.limits["Diagnostics"]
    BY <1>2 DEF Noted, Annotated, Results
  <2> HIDE DEF c
  <2>3. /\ Ceilings(b) /\ Kept(m, b)
        /\ b.layers = m.layers /\ b.fields = m.fields /\ b.field_children = m.field_children
    BY DEF Annotated
  <2>4. c.limits = b.limits
    BY <2>2 DEF Steady
  <2>5. Ceilings(c)
    BY <2>2, <2>3, <2>4 DEF Ceilings
  <2>6. /\ b.diagnostics \in Seq(DiagnosticRecord) /\ m.diagnostics \in Seq(DiagnosticRecord)
        /\ c.diagnostics \in Seq(DiagnosticRecord)
        /\ m.strings \in Seq(Texts) /\ b.strings \in Seq(Texts) /\ c.strings \in Seq(Texts)
        /\ Grows(m.diagnostics, b.diagnostics) /\ Grows(m.strings, b.strings)
    BY <2>2, <2>3, ArenasTyped DEF Kept
  <2>7. /\ Grows(b.diagnostics, c.diagnostics) /\ c.diagnostics[Len(b.diagnostics) + 1] = d
        /\ Len(c.diagnostics) = Len(b.diagnostics) + 1
    BY <2>1, <2>6, GrowsAppended
  <2>8. Grows(m.diagnostics, c.diagnostics) /\ Grows(m.strings, c.strings)
    BY <2>2, <2>6, <2>7, GrowsAgain
  <2>9. Steady(m, c)
    BY <2>2, <2>3 DEF Kept, Steady
  <2>10. Kept(m, c)
    BY <2>2, <2>3, <2>8, <2>9 DEF Kept
  <2>11. ASSUME NEW g \in Added(m.diagnostics, c.diagnostics)
         PROVE  /\ HasString(c, c.diagnostics[g].message)
                /\ IsWithin(c.diagnostics[g].byte_range, file.length)
                /\ c.diagnostics[g].scope \in {None, Len(m.packets) + 1}
    <3>1. Len(b.diagnostics) \in Nat /\ Len(m.diagnostics) \in Nat
      BY <2>6
    <3>2. g \in Added(m.diagnostics, b.diagnostics) \/ g = Len(b.diagnostics) + 1
      BY <2>7, <3>1 DEF Added
    <3>3. CASE g \in Added(m.diagnostics, b.diagnostics)
      <4>1. g \in 1 .. Len(b.diagnostics)
        BY <3>1, <3>3 DEF Added
      <4>2. c.diagnostics[g] = b.diagnostics[g]
        BY <2>7, <4>1 DEF Grows
      <4>3. /\ HasString(b, b.diagnostics[g].message)
            /\ IsWithin(b.diagnostics[g].byte_range, file.length)
            /\ b.diagnostics[g].scope \in {None, Len(m.packets) + 1}
        BY <3>3 DEF Annotated
      <4> QED BY <2>2, <4>2, <4>3, StringsKept
    <3>4. CASE g = Len(b.diagnostics) + 1
      BY <2>1, <2>7, <3>4
    <3> QED BY <3>2, <3>3, <3>4
  <2>12. Annotated(m, c)
    BY <2>2, <2>3, <2>5, <2>10, <2>11 DEF Annotated
  <2> QED BY <1>2, <2>1, <2>12 DEF c
<1> QED BY <1>1, <1>2

-----------------------------------------------------------------------------
\* What processing a record may do.

\* r: what the processing of the record at the reader makes of a sound builder.
Processed(m, r) ==
    /\ r \in Results
    /\ r.out = "Continue" => Forward(m, r.b)
    /\ r.out = "StopMalformed" => r.b = m /\ Pending(m) = {}
    /\ r.out \notin {"Continue", "StopMalformed"} => Still(m, r.b)

\* The parts of the invariant, and the ceilings under which a decode begins.
LEMMA SoundTyped ==
    ASSUME NEW m, Sound(m)
    PROVE  /\ m \in Builders /\ WithinLimits(m) /\ Ceilings(m) /\ Position(m)
           /\ Skeleton(m) /\ Trees(m) /\ Held(m) /\ Told(m)
  BY DEF Sound, Whole, WithinLimits, Ceilings

\* Nothing is pending unless the record at the reader will be retained.
LEMMA NothingPending ==
    ASSUME NEW m, Sound(m), ~Retains(m)
    PROVE  Pending(m) = {}
  BY DEF Sound, Held

\* A malformed record leaves the builder alone.
LEMMA ProcessMalformed ==
    ASSUME NEW m, Sound(m), ~Retains(m)
    PROVE  Processed(m, Fails(m, "StopMalformed"))
<1>1. Fails(m, "StopMalformed").b = m /\ Fails(m, "StopMalformed").out = "StopMalformed"
      /\ Fails(m, "StopMalformed") \in Results
  BY SoundTyped DEF Fails, Results, Outcomes
<1> QED BY <1>1, NothingPending DEF Processed

\* A record that fails leaves its diagnostics and strings at most.
LEMMA ProcessRefused ==
    ASSUME file \in Captures, NEW m, Sound(m), ~m.complete, NEW b, Annotated(m, b), Scoped(m, b),
           NEW r, r \in Results, r.b = b, r.out \notin {"Continue", "StopMalformed"}
    PROVE  Processed(m, r)
  BY AnnotatedStill DEF Processed

\* Sections and interfaces of a reader that passes a record.
LEMMA SkeletonForward ==
    ASSUME file \in Captures, NEW m \in Builders, Position(m), Readable(m),
           NEW n \in Builders, n.consumed = m.consumed, Skeleton(n)
    PROVE  Skeleton(Moved(m, n))
<1>1. /\ m.consumed \in Nat /\ Declared(Upcoming(m)) \in Nat /\ file.length \in Nat
      /\ m.consumed + Declared(Upcoming(m)) <= file.length
  BY ReadablePlace
<1> DEFINE q == Moved(m, n)
<1>2. /\ q \in Builders /\ q.sections = n.sections /\ q.interfaces = n.interfaces
      /\ q.packets = n.packets /\ q.strings = n.strings /\ q.current = n.current
      /\ q.complete = n.complete /\ q.consumed = n.consumed + Declared(Upcoming(m))
  BY <1>1, MovedTyped
<1> HIDE DEF q
<1>3. q.consumed >= n.consumed /\ q.consumed <= file.length
  BY <1>1, <1>2
<1>4. Skeleton(q)
  BY <1>1, <1>2, <1>3, SkeletonMoved
<1> QED BY <1>4 DEF q

\* A block that is only spoken of.
LEMMA SpokenOf ==
    ASSUME file \in Captures, NEW m, Sound(m), Readable(m), ~m.complete, ~Retains(m),
           NEW code \in {"INCONSISTENT_LENGTH", "UNSUPPORTED_BLOCK"},
           IF code = "INCONSISTENT_LENGTH" THEN Upcoming(m).kind \in {"EPB", "SPB"}
           ELSE Upcoming(m).kind \notin {"Header", "Record", "SHB", "IDB", "EPB", "SPB"}
    PROVE  Processed(m, AddDiagnostic(m, code, None, BlockRange(m)))
<1> DEFINE r == AddDiagnostic(m, code, None, BlockRange(m))
<1>1. /\ m \in Builders /\ WithinLimits(m) /\ Position(m) /\ Skeleton(m) /\ Trees(m) /\ Told(m)
  BY SoundTyped
<1>2. /\ BlockRange(m) \in Ranges /\ IsWithin(BlockRange(m), file.length)
      /\ Legacy => Upcoming(m).kind \in {"Header", "Record"}
  BY <1>1, ReadablePlace
<1>3. code \in Texts /\ None \in Optional(Nat)
  BY DEF Texts, ImporterCodes, Optional
<1>4. Noted(m, code, None, BlockRange(m), r)
  BY <1>1, <1>2, <1>3, DiagnosticAdded
<1>5. Annotated(m, m) /\ Scoped(m, m)
  BY AnnotatedItself
<1>6. r \in Results
  BY <1>4 DEF Noted
<1>7. /\ Annotated(m, r.b)
      /\ r.out # "Continue" => r.b = m
      /\ r.out = "Continue" => \E d \in DiagnosticRecord :
            /\ r.b.diagnostics = Append(m.diagnostics, d)
            /\ d.code = code /\ d.scope = None /\ d.byte_range = BlockRange(m)
  <2>1. None \in {None, Len(m.packets) + 1}
    OBVIOUS
  <2> HIDE DEF r
  <2> QED BY <1>1, <1>2, <1>3, <1>4, <1>5, <2>1, AnnotatedNoted
<1>8. r.out # "Continue" => r.out \in {"Diagnostics", "StringBytes"}
  BY <1>4 DEF Noted
<1> HIDE DEF r
<1>9. CASE r.out # "Continue"
  <2>1. r.b = m /\ r.out \notin {"Continue", "StopMalformed"}
    BY <1>7, <1>8, <1>9
  <2>2. Processed(m, r)
    BY <1>5, <1>6, <2>1, ProcessRefused
  <2> QED BY <2>2 DEF r
<1>10. CASE r.out = "Continue"
  <2> DEFINE n == r.b
  <2>1. PICK d \in DiagnosticRecord :
            /\ n.diagnostics = Append(m.diagnostics, d)
            /\ d.code = code /\ d.scope = None /\ d.byte_range = BlockRange(m)
    BY <1>7, <1>10
  <2>2. Annotated(m, n)
    BY <1>7
  <2> HIDE DEF n
  <2>3. /\ n \in Builders /\ Steady(m, n) /\ Ceilings(n) /\ Grows(m.strings, n.strings)
        /\ Grows(m.diagnostics, n.diagnostics)
    BY <2>2 DEF Annotated, Kept
  <2>4. Skeleton(n) /\ Trees(n)
    BY <1>1, <2>2, <2>3, SkeletonAnnotated, TreesAnnotated
  <2>5. /\ n.at = m.at /\ n.consumed = m.consumed /\ n.records = m.records
        /\ n.limits = m.limits /\ ~n.complete
        /\ n.sections = m.sections /\ n.interfaces = m.interfaces /\ n.packets = m.packets
    BY <2>3 DEF Steady
  <2>6. WithinLimits(n)
    BY <1>1, <2>3, <2>5 DEF WithinLimits, Ceilings
  <2>7. Skeleton(Moved(m, n))
    BY <1>1, <2>3, <2>4, <2>5, SkeletonForward
  <2>8. /\ m.diagnostics \in Seq(DiagnosticRecord) /\ n.diagnostics \in Seq(DiagnosticRecord)
        /\ Len(m.diagnostics) \in Nat
        /\ Len(n.diagnostics) = Len(m.diagnostics) + 1
        /\ n.diagnostics[Len(m.diagnostics) + 1] = d
    BY <1>1, <2>1, <2>3, ArenasTyped, GrowsAppended
  <2>9. Added(m.diagnostics, n.diagnostics) = {Len(m.diagnostics) + 1}
    BY <2>8 DEF Added
  <2>10. /\ Grows(m.interfaces, n.interfaces) /\ Added(m.interfaces, n.interfaces) = {}
         /\ Grows(m.packets, n.packets) /\ Added(m.packets, n.packets) = {}
         /\ Grows(m.sections, n.sections) /\ Added(m.sections, n.sections) = {}
    BY <1>1, <2>5, ArenasTyped, GrowsItself
  <2>11. Extends(m, n)
    BY <2>1, <2>3, <2>5, <2>8, <2>9, <2>10 DEF Extends, Grows
  <2>12. Fresh(m, n) = {Len(m.diagnostics) + 1}
    <3>1. CASE code = "INCONSISTENT_LENGTH"
      <4>1. {g \in Added(m.diagnostics, n.diagnostics) :
                n.diagnostics[g].scope = None /\ n.diagnostics[g].code = "INCONSISTENT_LENGTH"}
            = {Len(m.diagnostics) + 1}
        BY <2>1, <2>8, <2>9, <3>1
      <4>2. {i \in Added(m.packets, n.packets) : Covers(BlockRange(m), n.packets[i].data)} = {}
        BY <2>10
      <4>3. Upcoming(m).kind \in {"EPB", "SPB"}
        BY <3>1
      <4> QED BY <4>1, <4>2, <4>3 DEF Fresh
    <3>2. CASE code = "UNSUPPORTED_BLOCK"
      <4>1. {g \in Added(m.diagnostics, n.diagnostics) :
                n.diagnostics[g].scope = None /\ n.diagnostics[g].code = "UNSUPPORTED_BLOCK"}
            = {Len(m.diagnostics) + 1}
        BY <2>1, <2>8, <2>9, <3>2
      <4>2. Upcoming(m).kind \notin {"Header", "Record", "SHB", "IDB", "EPB", "SPB"}
        BY <3>2
      <4> QED BY <4>1, <4>2 DEF Fresh
    <3> QED BY <3>1, <3>2
  <2>13. Pending(n) = {}
    <3>1. Len(m.packets) + 1 # None
      <4>1. Len(m.packets) + 1 \in Nat
        BY <1>1, ArenasTyped
      <4> QED BY <4>1, NoneAssumption
    <3>2. \A g \in DOMAIN n.diagnostics : \/ g \in DOMAIN m.diagnostics /\ n.diagnostics[g] = m.diagnostics[g]
                                          \/ n.diagnostics[g].scope = None
      BY <2>1, <2>3, <2>8, <2>9, OldAndNew
    <3>3. Pending(m) = {}
      BY NothingPending
    <3> QED BY <2>5, <3>1, <3>2, <3>3 DEF Pending
  <2>14. ~Legacy
    BY <1>2
  <2>15. Forward(m, n)
    BY <2>3, <2>4, <2>5, <2>6, <2>7, <2>10, <2>11, <2>12, <2>13, <2>14 DEF Forward
  <2>16. Forward(m, r.b)
    BY <2>15 DEF n
  <2>17. Processed(m, r)
    BY <1>6, <1>10, <2>16 DEF Processed
  <2> QED BY <2>17 DEF r
<1> QED BY <1>9, <1>10

\* A section that is closed.
LEMMA ClosedTyped ==
    ASSUME NEW b \in Builders, NEW end \in Nat,
           b.current # None => /\ b.current.index \in DOMAIN b.sections
                               /\ b.sections[b.current.index].byte_range.start = b.current.start,
           NEW c, c = CloseSectionAt(b, end)
    PROVE  /\ c \in Builders /\ c.current = None
           /\ b.current = None => c = b
           /\ b.current # None =>
                 c.sections = [b.sections EXCEPT ![b.current.index] =
                     [byte_range |-> ByteRange(b.current.start, end - b.current.start),
                      interfaces |-> SpanFrom(b.current.interface_start, b.interfaces)]]
           /\ Len(c.sections) = Len(b.sections) /\ DOMAIN c.sections = DOMAIN b.sections
           /\ \A s \in DOMAIN b.sections :
                 c.sections[s].byte_range.start = b.sections[s].byte_range.start
           /\ c.at = b.at /\ c.consumed = b.consumed /\ c.records = b.records
           /\ c.complete = b.complete /\ c.limits = b.limits /\ c.initialized = b.initialized
           /\ c.started_at = b.started_at /\ c.ended_at = b.ended_at
           /\ c.interfaces = b.interfaces /\ c.packets = b.packets /\ c.layers = b.layers
           /\ c.fields = b.fields /\ c.field_children = b.field_children
           /\ c.diagnostics = b.diagnostics /\ c.strings = b.strings
<1>0. b.sections \in Seq(SectionMetadata)
  BY ArenasTyped
<1>1. CASE b.current = None
  <2>1. c = b
    BY <1>1 DEF CloseSectionAt
  <2> QED BY <1>1, <2>1
<1>2. CASE b.current # None
  <2> DEFINE entry == [byte_range |-> ByteRange(b.current.start, end - b.current.start),
                       interfaces |-> SpanFrom(b.current.interface_start, b.interfaces)]
             closed == [b.sections EXCEPT ![b.current.index] = entry]
  <2>1. c = [b EXCEPT !.sections = closed, !.current = None]
    BY <1>2 DEF CloseSectionAt
  <2>2. b.current.start \in Nat /\ b.current.interface_start \in Nat /\ Len(b.interfaces) \in Nat
        /\ b.current.index \in DOMAIN b.sections
        /\ b.sections[b.current.index].byte_range.start = b.current.start
    BY <1>2, EntriesTyped, ArenasTyped
  <2>3. entry \in SectionMetadata /\ entry.byte_range.start = b.current.start
    BY <2>2 DEF SectionMetadata, Ranges, ByteRange, SpanFrom
  <2> HIDE DEF entry
  <2>4. closed \in Seq(SectionMetadata) /\ Len(closed) = Len(b.sections)
        /\ DOMAIN closed = DOMAIN b.sections
        /\ closed[b.current.index] = entry
        /\ \A s \in DOMAIN b.sections : s # b.current.index => closed[s] = b.sections[s]
    BY <1>0, <2>2, <2>3
  <2>5. \A s \in DOMAIN b.sections : closed[s].byte_range.start = b.sections[s].byte_range.start
    BY <2>2, <2>3, <2>4
  <2> HIDE DEF closed
  <2>6. c \in Builders
    BY <2>1, <2>4 DEF Builders, Optional
  <2>7. /\ c.current = None /\ c.sections = closed
        /\ c.at = b.at /\ c.consumed = b.consumed /\ c.records = b.records
        /\ c.complete = b.complete /\ c.limits = b.limits /\ c.initialized = b.initialized
        /\ c.started_at = b.started_at /\ c.ended_at = b.ended_at
        /\ c.interfaces = b.interfaces /\ c.packets = b.packets /\ c.layers = b.layers
        /\ c.fields = b.fields /\ c.field_children = b.field_children
        /\ c.diagnostics = b.diagnostics /\ c.strings = b.strings
    BY <2>1 DEF Builders
  <2> QED BY <1>2, <2>4, <2>5, <2>6, <2>7 DEF closed, entry
<1> QED BY <1>1, <1>2

\* A section that is closed where the reader is.
LEMMA ClosedHere ==
    ASSUME file \in Captures, NEW m, Sound(m), ~m.complete, ~Legacy,
           NEW c, c = CloseSectionAt(m, m.consumed)
    PROVE  /\ c \in Builders /\ Skeleton(c) /\ Trees(c) /\ c.current = None
           /\ Len(c.sections) = Len(m.sections) /\ DOMAIN c.sections = DOMAIN m.sections
           /\ \A s \in DOMAIN m.sections :
                 c.sections[s].byte_range.start = m.sections[s].byte_range.start
           /\ c.at = m.at /\ c.consumed = m.consumed /\ c.records = m.records
           /\ c.complete = m.complete /\ c.limits = m.limits /\ c.initialized = m.initialized
           /\ c.interfaces = m.interfaces /\ c.packets = m.packets /\ c.layers = m.layers
           /\ c.fields = m.fields /\ c.field_children = m.field_children
           /\ c.diagnostics = m.diagnostics /\ c.strings = m.strings
<1>1. /\ m \in Builders /\ Skeleton(m) /\ Trees(m) /\ Position(m)
  BY SoundTyped
<1>2. m.consumed \in Nat /\ m.consumed <= file.length /\ file.length \in Nat
  BY <1>1, EntriesTyped, FileTyped DEF Position
<1>3. m.current # None => /\ m.current.index \in DOMAIN m.sections
                          /\ m.sections[m.current.index].byte_range.start = m.current.start
  BY <1>1 DEF Skeleton, CurrentSection
<1>4. /\ c \in Builders /\ c.current = None
      /\ m.current = None => c = m
      /\ m.current # None =>
            c.sections = [m.sections EXCEPT ![m.current.index] =
                [byte_range |-> ByteRange(m.current.start, m.consumed - m.current.start),
                 interfaces |-> SpanFrom(m.current.interface_start, m.interfaces)]]
      /\ Len(c.sections) = Len(m.sections) /\ DOMAIN c.sections = DOMAIN m.sections
      /\ \A s \in DOMAIN m.sections :
            c.sections[s].byte_range.start = m.sections[s].byte_range.start
      /\ c.at = m.at /\ c.consumed = m.consumed /\ c.records = m.records
      /\ c.complete = m.complete /\ c.limits = m.limits /\ c.initialized = m.initialized
      /\ c.started_at = m.started_at /\ c.ended_at = m.ended_at
      /\ c.interfaces = m.interfaces /\ c.packets = m.packets /\ c.layers = m.layers
      /\ c.fields = m.fields /\ c.field_children = m.field_children
      /\ c.diagnostics = m.diagnostics /\ c.strings = m.strings
  BY <1>1, <1>2, <1>3, ClosedTyped
<1>5. Trees(c)
  BY <1>1, <1>4, TreesElsewhere
<1>6. Skeleton(c)
  <2>1. CASE m.current = None
    BY <1>1, <1>4, <2>1
  <2>2. CASE m.current # None
    <3>1. m.consumed <= m.consumed
      BY <1>2
    <3> QED BY <1>1, <1>2, <1>4, <2>2, <3>1, SkeletonClosed
  <2> QED BY <2>1, <2>2
<1> QED BY <1>4, <1>5, <1>6

\* process_section_header keeps the builder sound.
LEMMA SectionProcessed ==
    ASSUME file \in Captures, NEW m, Sound(m), Readable(m), ~m.complete,
           Upcoming(m).kind = "SHB"
    PROVE  Processed(m, ProcessSectionHeader(m))
<1> DEFINE r == ProcessSectionHeader(m)
           block == Upcoming(m)
           closed == CloseSectionAt(m, m.consumed)
           entry == [byte_range |-> ByteRange(m.consumed, 0),
                     interfaces |-> ByteRange(Len(m.interfaces), 0)]
           declared_end == IF block.section_length < 0 THEN None
                           ELSE m.consumed + block.declared + block.section_length
           open == [index |-> Len(m.sections) + 1, start |-> m.consumed,
                    interface_start |-> Len(m.interfaces), declared_end |-> declared_end]
           n == [closed EXCEPT !.sections = Append(@, entry), !.current = open]
           valid == ValidVersion(block) /\ ValidSection(block) /\ SectionBoundaryMatches(m, m.consumed)
           room == Reserve(m, m.sections, 1, "Sections").holds
<1>1. r = IF ~valid THEN Fails(m, "StopMalformed")
          ELSE IF ~room THEN Fails(closed, "Sections") ELSE Continue(n)
  BY DEF ProcessSectionHeader
<1>2. /\ m \in Builders /\ WithinLimits(m) /\ Position(m) /\ Skeleton(m) /\ Trees(m) /\ Told(m)
  BY SoundTyped
<1>3. /\ ~Legacy /\ IsBlock(block) /\ m.consumed \in Nat /\ file.length \in Nat
      /\ m.consumed + Declared(block) <= file.length /\ Declared(block) \in Nat
  BY <1>2, ReadablePlace
<1>4. ~Retains(m)
  BY DEF Retains
<1>5. Pending(m) = {}
  BY <1>4, NothingPending
<1>6. closed \in Builders /\ Skeleton(closed) /\ Trees(closed)
  BY <1>3, ClosedHere
<1>7. /\ closed.current = None
      /\ Len(closed.sections) = Len(m.sections) /\ DOMAIN closed.sections = DOMAIN m.sections
      /\ \A s \in DOMAIN m.sections :
            closed.sections[s].byte_range.start = m.sections[s].byte_range.start
      /\ closed.at = m.at /\ closed.consumed = m.consumed /\ closed.records = m.records
      /\ closed.complete = m.complete /\ closed.limits = m.limits
      /\ closed.initialized = m.initialized
      /\ closed.interfaces = m.interfaces /\ closed.packets = m.packets
      /\ closed.layers = m.layers /\ closed.fields = m.fields
      /\ closed.field_children = m.field_children
      /\ closed.diagnostics = m.diagnostics /\ closed.strings = m.strings
  BY <1>3, ClosedHere
<1> HIDE DEF r, closed, open, entry, valid, room
<1>8. /\ Grows(m.interfaces, m.interfaces) /\ Added(m.interfaces, m.interfaces) = {}
      /\ Grows(m.packets, m.packets) /\ Added(m.packets, m.packets) = {}
      /\ Grows(m.diagnostics, m.diagnostics) /\ Added(m.diagnostics, m.diagnostics) = {}
      /\ Len(m.sections) \in Nat /\ Len(m.interfaces) \in Nat
  BY <1>2, ArenasTyped, GrowsItself
<1>9. CASE ~valid
  BY <1>1, <1>4, <1>9, ProcessMalformed DEF r
<1>10. CASE valid /\ ~room
  <2>1. r.b = closed /\ r.out = "Sections" /\ r \in Results
    BY <1>1, <1>6, <1>10 DEF Fails, Results, Outcomes
  <2>2. WithinLimits(closed)
    BY <1>2, <1>7 DEF WithinLimits
  <2>3. Held(closed)
    BY <1>5, <1>7 DEF Held, Pending
  <2>4. Added(m.sections, closed.sections) = {}
    BY <1>7, <1>8 DEF Added
  <2>5. Extends(m, closed)
    BY <1>7, <1>8, <2>4 DEF Extends
  <2>6. Still(m, closed)
    BY <1>3, <1>6, <1>7, <1>8, <2>2, <2>3, <2>5 DEF Still, SamePlace, Quiet
  <2>7. Processed(m, r)
    BY <2>1, <2>6 DEF Processed
  <2> QED BY <2>7 DEF r
<1>11. CASE valid /\ room
  <2>1. r.b = n /\ r.out = "Continue"
    BY <1>1, <1>11 DEF Continue
  <2>2. Len(m.sections) + 1 <= m.limits["Sections"]
    BY <1>11 DEF room, Reserve, Condition
  <2>3. entry \in SectionMetadata /\ entry.byte_range.start = m.consumed
    BY <1>3, <1>8 DEF entry, SectionMetadata, Ranges, ByteRange
  <2>4. open \in OpenSections
    <3>1. block.section_length \in Int /\ block.declared \in Nat
      BY <1>3 DEF IsBlock
    <3>2. (IF block.section_length < 0 THEN None
           ELSE m.consumed + block.declared + block.section_length) \in Optional(Nat)
      BY <1>3, <3>1 DEF Optional
    <3> QED BY <1>3, <1>8, <3>2 DEF open, OpenSections
  <2>5. closed.sections \in Seq(SectionMetadata)
    BY <1>6, ArenasTyped
  <2>6. /\ Append(closed.sections, entry) \in Seq(SectionMetadata)
        /\ Len(Append(closed.sections, entry)) = Len(m.sections) + 1
        /\ \A s \in 1 .. Len(m.sections) : Append(closed.sections, entry)[s] = closed.sections[s]
        /\ Append(closed.sections, entry)[Len(m.sections) + 1] = entry
    BY <1>7, <2>3, <2>5, GrowsAppended
  <2>7. n \in Builders
    BY <1>6, <2>4, <2>6 DEF Builders, Optional
  <2>8. /\ n.sections = Append(closed.sections, entry) /\ n.current = open
        /\ n.at = m.at /\ n.consumed = m.consumed /\ n.records = m.records
        /\ n.complete = m.complete /\ n.limits = m.limits
        /\ n.started_at = closed.started_at /\ n.ended_at = closed.ended_at
        /\ n.interfaces = m.interfaces /\ n.packets = m.packets
        /\ n.layers = m.layers /\ n.fields = m.fields
        /\ n.field_children = m.field_children
        /\ n.diagnostics = m.diagnostics /\ n.strings = m.strings
    BY <1>6, <1>7 DEF Builders
  <2> HIDE DEF n
  <2>9. Trees(n)
    BY <1>6, <1>7, <2>7, <2>8, TreesElsewhere
  <2>10. Skeleton(n)
    <3>1. open # None
      BY <2>4, NoImporterAssumption
    <3>2. /\ open.index = Len(closed.sections) + 1 /\ open.start = closed.consumed
          /\ open.interface_start = Len(closed.interfaces)
      BY <1>7 DEF open
    <3>3. entry = [byte_range |-> ByteRange(closed.consumed, 0),
                   interfaces |-> ByteRange(Len(closed.interfaces), 0)]
      BY <1>7 DEF entry
    <3>4. closed.consumed <= file.length
      BY <1>2, <1>7 DEF Position
    <3>5. n.sections = Append(closed.sections, [byte_range |-> ByteRange(closed.consumed, 0),
                                                interfaces |-> ByteRange(Len(closed.interfaces), 0)])
      BY <2>8, <3>3
    <3>6. n.current # None /\ n.current.index = Len(closed.sections) + 1
          /\ n.current.start = closed.consumed /\ n.current.interface_start = Len(closed.interfaces)
      BY <2>8, <3>1, <3>2
    <3>7. n.interfaces = closed.interfaces /\ n.packets = closed.packets
          /\ n.strings = closed.strings /\ n.consumed = closed.consumed
          /\ ~closed.complete /\ ~n.complete
      BY <1>7, <2>8
    <3> QED BY <1>3, <1>6, <1>7, <2>7, <3>4, <3>5, <3>6, <3>7, SkeletonOpened
  <2>11. Skeleton(Moved(m, n))
    BY <1>2, <2>7, <2>8, <2>10, SkeletonForward
  <2>12. WithinLimits(n)
    BY <1>2, <2>2, <2>6, <2>8 DEF WithinLimits
  <2>13. Added(m.sections, n.sections) = {Len(m.sections) + 1}
    BY <1>8, <2>6, <2>8 DEF Added
  <2>14. Fresh(m, n) = {Len(m.sections) + 1}
    BY <2>13 DEF Fresh
  <2>15. Extends(m, n)
    <3>1. \A s \in DOMAIN m.sections :
              n.sections[s].byte_range.start = m.sections[s].byte_range.start
      BY <1>2, <1>7, <2>6, <2>8, ArenasTyped, SMTT(30)
    <3>2. Len(m.sections) <= Len(n.sections)
      BY <1>8, <2>6, <2>8
    <3>3. \A s \in Added(m.sections, n.sections) : n.sections[s].byte_range.start = m.consumed
      BY <2>3, <2>6, <2>8, <2>13
    <3> QED BY <1>8, <2>8, <3>1, <3>2, <3>3 DEF Extends
  <2>16. Pending(n) = {}
    BY <1>5, <2>8 DEF Pending
  <2>17. Forward(m, n)
    BY <1>3, <1>8, <2>7, <2>8, <2>9, <2>11, <2>12, <2>14, <2>15, <2>16 DEF Forward
  <2>18. r \in Results
    BY <1>1, <1>11, <2>7 DEF Continue, Results, Outcomes
  <2>19. Processed(m, r)
    BY <2>1, <2>17, <2>18 DEF Processed
  <2> QED BY <2>19 DEF r
<1> QED BY <1>9, <1>10, <1>11

\* The header of a legacy file.
LEMMA HeaderProcessed ==
    ASSUME file \in Captures, NEW m, Sound(m), Readable(m), ~m.complete,
           Upcoming(m).kind = "Header"
    PROVE  Processed(m, ProcessLegacyHeader(m))
<1> DEFINE r == ProcessLegacyHeader(m)
           section == [byte_range |-> ByteRange(0, file.length), interfaces |-> ByteRange(0, 1)]
           interface == [section |-> 1, section_index |-> 1, byte_range |-> ByteRange(0, 24),
                         snap |-> Upcoming(m).snap, offset |-> 0, name |-> None,
                         resolution |-> file.resolution]
           n == [m EXCEPT !.sections = <<section>>, !.interfaces = <<interface>>,
                          !.initialized = TRUE]
<1>1. r = Continue(n)
  BY DEF ProcessLegacyHeader
<1>2. /\ m \in Builders /\ WithinLimits(m) /\ Position(m) /\ Skeleton(m) /\ Trees(m) /\ Told(m)
  BY SoundTyped
<1>3. /\ Legacy /\ m.at = 1 /\ IsRecord(Upcoming(m)) /\ file.length \in Nat
      /\ m.consumed + Declared(Upcoming(m)) <= file.length
  BY <1>2, ReadablePlace
<1>4. /\ m.consumed = 0 /\ Declared(Upcoming(m)) = 24 /\ 24 <= file.length
  <2>1. m.consumed = 0
    BY <1>2, <1>3, OffsetSteps DEF Position
  <2>2. Declared(Upcoming(m)) = 24
    BY DEF Declared, DeclaredIn
  <2> QED BY <1>3, <2>1, <2>2
<1>5. m.sections = <<>> /\ m.interfaces = <<>> /\ m.current = None
  BY <1>2, <1>3 DEF Position, Skeleton, CurrentSection
<1>6. /\ section \in SectionMetadata /\ section.byte_range = ByteRange(0, file.length)
      /\ section.byte_range.start = 0 /\ End(section.byte_range) = file.length
      /\ section.interfaces.start = 0 /\ End(section.interfaces) = 1
  BY <1>3 DEF SectionMetadata, Ranges, ByteRange, End
<1>7. /\ interface \in InterfaceMetadata
      /\ interface.section = 1 /\ interface.section_index = 1 /\ interface.name = None
      /\ interface.byte_range.start = 0 /\ End(interface.byte_range) = 24
      /\ interface.byte_range = BlockRange(m)
  <2>1. file.resolution \in Resolutions /\ Upcoming(m).snap \in Nat
    BY <1>3, FileTyped DEF IsRecord
  <2>2. ByteRange(0, 24) \in Ranges /\ ByteRange(0, 24).start = 0 /\ End(ByteRange(0, 24)) = 24
    BY DEF Ranges, ByteRange, End
  <2>3. ByteRange(0, 24) = BlockRange(m)
    BY <1>4 DEF BlockRange
  <2> QED BY <2>1, <2>2, <2>3 DEF InterfaceMetadata, Optional
<1> HIDE DEF section, interface, r
<1>8. n \in Builders
  <2>1. <<section>> \in Seq(SectionMetadata) /\ <<interface>> \in Seq(InterfaceMetadata)
    BY <1>6, <1>7
  <2> QED BY <1>2, <2>1 DEF Builders
<1>9. /\ n.sections = <<section>> /\ n.interfaces = <<interface>> /\ n.initialized
      /\ n.at = m.at /\ n.consumed = m.consumed /\ n.records = m.records
      /\ n.complete = m.complete /\ n.limits = m.limits /\ n.current = None
      /\ n.started_at = m.started_at /\ n.ended_at = m.ended_at
      /\ n.packets = m.packets /\ n.layers = m.layers /\ n.fields = m.fields
      /\ n.field_children = m.field_children
      /\ n.diagnostics = m.diagnostics /\ n.strings = m.strings
  BY <1>2, <1>5 DEF Builders
<1> HIDE DEF n
<1>10. Trees(n)
  BY <1>2, <1>8, <1>9, TreesElsewhere
<1>11. /\ DOMAIN n.sections = {1} /\ n.sections[1] = section /\ Len(n.sections) = 1
       /\ DOMAIN n.interfaces = {1} /\ n.interfaces[1] = interface /\ Len(n.interfaces) = 1
  BY <1>9
<1>12. DOMAIN m.packets = {}
  <2>1. \A i \in DOMAIN m.packets : m.packets[i].section \in DOMAIN m.sections
    BY <1>2 DEF Skeleton, PacketWhole
  <2> QED BY <1>5, <2>1
<1>13. Skeleton(n)
  <2>1. CurrentSection(n)
    BY <1>9 DEF CurrentSection
  <2>2. SectionEnd(n, 1) = file.length /\ InterfaceStart(n, 1) = 0 /\ InterfaceEnd(n, 1) = 1
    BY <1>6, <1>9, <1>11 DEF SectionEnd, InterfaceStart, InterfaceEnd
  <2>3. Sections(n)
    BY <1>3, <1>11, <2>2 DEF Sections
  <2>4. Interfaces(n)
    <3> SUFFICES /\ interface.section \in {1}
                 /\ \A s \in {1} : 1 \in InterfaceStart(n, s) + 1 .. InterfaceEnd(n, s)
                                   <=> s = interface.section
                 /\ interface.section_index = 1 - InterfaceStart(n, interface.section)
                 /\ interface.byte_range.start >= n.sections[interface.section].byte_range.start
                 /\ End(interface.byte_range) <= SectionEnd(n, interface.section)
                 /\ interface.name # None => HasString(n, interface.name)
      BY <1>11 DEF Interfaces
    <3> QED BY <1>4, <1>6, <1>7, <1>11, <2>2
  <2>5. \A i \in DOMAIN n.packets : PacketWhole(n, n.packets[i])
    BY <1>9, <1>12
  <2> QED BY <2>1, <2>3, <2>4, <2>5 DEF Skeleton
<1>14. Skeleton(Moved(m, n))
  BY <1>2, <1>8, <1>9, <1>13, SkeletonForward
<1>15. WithinLimits(n)
  <2>1. /\ m.limits = Limits /\ Limits["Sections"] > 0 /\ Limits["Interfaces"] > 0
        /\ Limits["Sections"] \in Nat /\ Limits["Interfaces"] \in Nat
    BY <1>2, LimitsAssumption DEF Position, Limits, LimitKinds
  <2> QED BY <1>2, <1>9, <1>11, <2>1 DEF WithinLimits
<1>16. /\ Added(m.sections, n.sections) = {1} /\ Added(m.interfaces, n.interfaces) = {1}
  BY <1>5, <1>11 DEF Added
<1>17. /\ Grows(m.packets, m.packets) /\ Added(m.packets, m.packets) = {}
       /\ Grows(m.diagnostics, m.diagnostics) /\ Added(m.diagnostics, m.diagnostics) = {}
  BY <1>2, ArenasTyped, GrowsItself
<1>18. Extends(m, n)
  <2>1. Grows(m.interfaces, n.interfaces)
    BY <1>5, <1>11 DEF Grows
  <2> QED BY <1>4, <1>5, <1>6, <1>7, <1>9, <1>11, <1>16, <1>17, <2>1 DEF Extends
<1>19. Fresh(m, n) = {1}
  BY <1>16 DEF Fresh
<1>20. Pending(n) = {}
  <2>1. ~Retains(m)
    BY DEF Retains
  <2>2. Pending(m) = {}
    BY <2>1, NothingPending
  <2> QED BY <1>9, <2>2 DEF Pending
<1>21. Forward(m, n)
  BY <1>6, <1>8, <1>9, <1>10, <1>11, <1>14, <1>15, <1>17, <1>18, <1>19, <1>20 DEF Forward
<1>22. r \in Results /\ r.b = n /\ r.out = "Continue"
  BY <1>1, <1>8 DEF Continue, Results, Outcomes
<1>23. Processed(m, r)
  BY <1>21, <1>22 DEF Processed
<1> QED BY <1>23 DEF r

-----------------------------------------------------------------------------
\* An interface and its options.

\* The options of an interface have their types, with the defaults where they are absent.
LEMMA OptionsTyped ==
    ASSUME NEW block, IsBlock(block)
    PROVE  /\ InterfaceOptions(block).resolution \in Resolutions
           /\ InterfaceOptions(block).offset \in Int
           /\ InterfaceOptions(block).name \in Optional(Texts)
<1> DEFINE found(code) == OptionsOf(block, code)
           first(code, width, default) ==
               CASE found(code) = {} -> [value |-> default, malformed |-> FALSE]
                 [] OTHER -> IF block.options[Least(found(code))].length = width
                             THEN [value |-> block.options[Least(found(code))].value, malformed |-> FALSE]
                             ELSE [value |-> default, malformed |-> TRUE]
           named == {i \in found("name") : block.options[i].value # None}
           name == IF named = {} THEN None ELSE block.options[Least(named)].value
<1>1. /\ Len(block.options) \in Nat /\ DOMAIN block.options = 1 .. Len(block.options)
      /\ \A i \in DOMAIN block.options : IsOption(block.options[i])
  BY DEF IsBlock, IsSequence, Range
<1>2. ASSUME NEW S \in SUBSET DOMAIN block.options, S # {}
      PROVE  Least(S) \in S
  <2>1. S \in SUBSET Nat
    BY <1>1
  <2>2. \E i \in S : \A j \in S : i <= j
    BY <1>2, <2>1, LeastExists
  <2> QED BY <2>2 DEF Least
<1>3. \A code : found(code) \in SUBSET DOMAIN block.options
  BY DEF OptionsOf
<1>4. \A code : found(code) # {} => /\ Least(found(code)) \in found(code)
                                    /\ block.options[Least(found(code))].code = code
                                    /\ IsOption(block.options[Least(found(code))])
  <2> SUFFICES ASSUME NEW code, found(code) # {}
               PROVE  /\ Least(found(code)) \in found(code)
                      /\ block.options[Least(found(code))].code = code
                      /\ IsOption(block.options[Least(found(code))])
    OBVIOUS
  <2>1. Least(found(code)) \in found(code)
    BY <1>2, <1>3
  <2> QED BY <1>1, <1>3, <2>1 DEF OptionsOf
<1>5. first("tsresol", 1, DefaultResolution).value \in Resolutions
  <2>1. CASE found("tsresol") = {}
    BY <2>1, ResolutionAssumption
  <2>2. CASE found("tsresol") # {}
    <3>1. LET o == block.options[Least(found("tsresol"))]
          IN  o.length = 1 => o.value \in Resolutions
      BY <1>4, <2>2 DEF IsOption
    <3> HIDE DEF found
    <3> QED BY <2>2, <3>1, ResolutionAssumption
  <2> QED BY <2>1, <2>2
<1>6. first("tsoffset", 8, 0).value \in Int
  <2>1. CASE found("tsoffset") = {}
    BY <2>1
  <2>2. CASE found("tsoffset") # {}
    <3>1. LET o == block.options[Least(found("tsoffset"))]
          IN  o.length = 8 => o.value \in Int
      BY <1>4, <2>2 DEF IsOption
    <3> HIDE DEF found
    <3> QED BY <2>2, <3>1
  <2> QED BY <2>1, <2>2
<1>7. name \in Optional(Texts)
  <2>1. CASE named = {}
    BY <2>1 DEF Optional
  <2>2. CASE named # {}
    <3>1. Least(named) \in named
      BY <1>2, <1>3, <2>2
    <3>2. IsOption(block.options[Least(named)]) /\ block.options[Least(named)].code = "name"
      BY <1>1, <1>3, <3>1 DEF OptionsOf
    <3>3. block.options[Least(named)].value \in Optional(Texts)
      BY <3>2 DEF IsOption
    <3> QED BY <2>2, <3>3
  <2> QED BY <2>1, <2>2
<1>8. /\ InterfaceOptions(block).resolution = first("tsresol", 1, DefaultResolution).value
      /\ InterfaceOptions(block).offset = first("tsoffset", 8, 0).value
      /\ InterfaceOptions(block).name = name
  BY DEF InterfaceOptions
<1> QED BY <1>5, <1>6, <1>7, <1>8

\* An interned string can be found again.
LEMMA NameFound ==
    ASSUME NEW b \in Builders, NEW v \in Texts, InternRoom(b, v).holds
    PROVE  \E id \in DOMAIN Intern(b, v).strings : Intern(b, v).strings[id] = v
<1>1. b.strings \in Seq(Texts) /\ Len(b.strings) \in Nat
  BY ArenasTyped
<1>2. CASE Contains(b.strings, v)
  <2>1. Intern(b, v) = b
    BY <1>2 DEF Intern
  <2>2. \E id \in DOMAIN b.strings : b.strings[id] = v
    BY <1>1, <1>2 DEF Contains
  <2> QED BY <2>1, <2>2
<1>3. CASE ~Contains(b.strings, v)
  <2>1. Intern(b, v) = [b EXCEPT !.strings = Append(@, v)]
    BY <1>3 DEF Intern
  <2>2. Intern(b, v).strings = Append(b.strings, v)
    BY <2>1 DEF Builders
  <2>3. Append(b.strings, v)[Len(b.strings) + 1] = v
        /\ Len(b.strings) + 1 \in DOMAIN Append(b.strings, v)
    BY <1>1
  <2> QED BY <2>2, <2>3
<1> QED BY <1>2, <1>3

\* process_interface keeps the builder sound: also when the name or the diagnostic of it
\* meets a ceiling.
LEMMA InterfaceProcessed ==
    ASSUME file \in Captures, NEW m, Sound(m), Readable(m), ~m.complete,
           Upcoming(m).kind = "IDB"
    PROVE  Processed(m, ProcessInterface(m))
<1> DEFINE r == ProcessInterface(m)
           block == Upcoming(m)
           options == InterfaceOptions(block)
           named == IF options.name = None THEN m ELSE Intern(m, options.name)
           conditions == <<Condition(m.current # None, "StopMalformed"),
                           Reserve(m, m.interfaces, 1, "Interfaces"),
                           Condition(options.name # None => InternRoom(m, options.name).holds, "StringBytes")>>
           refusal == FirstRefusal(conditions)
           w == IF options.malformed
                THEN AddDiagnostic(named, "INVALID_TIMESTAMP", None, BlockRange(m))
                ELSE Continue(named)
           b == w.b
           interface == [section |-> b.current.index,
                         section_index |-> Len(b.interfaces) + 1 - b.current.interface_start,
                         byte_range |-> BlockRange(m), snap |-> block.snap,
                         offset |-> options.offset, resolution |-> options.resolution,
                         name |-> IF options.name = None THEN None ELSE StringId(b, options.name)]
           n == [b EXCEPT !.interfaces = Append(@, interface)]
<1>1. r = IF refusal # "Continue" THEN Fails(m, refusal)
          ELSE IF w.out # "Continue" THEN w ELSE Continue(n)
  BY DEF ProcessInterface, OpenInterface, PushInterface
<1>2. /\ m \in Builders /\ WithinLimits(m) /\ Position(m) /\ Skeleton(m) /\ Trees(m) /\ Told(m)
  BY SoundTyped
<1>3. /\ ~Legacy /\ IsBlock(block) /\ m.consumed \in Nat /\ Declared(block) \in Nat
      /\ BlockRange(m).start = m.consumed /\ BlockRange(m) \in Ranges
      /\ End(BlockRange(m)) = m.consumed + Declared(block)
      /\ IsWithin(BlockRange(m), file.length)
  BY <1>2, ReadablePlace
<1>4. /\ options.resolution \in Resolutions /\ options.offset \in Int
      /\ options.name \in Optional(Texts)
  BY <1>3, OptionsTyped
<1> HIDE DEF options, r
<1>5. /\ refusal = "Continue" <=> /\ m.current # None
                                  /\ Len(m.interfaces) + 1 <= m.limits["Interfaces"]
                                  /\ options.name # None => InternRoom(m, options.name).holds
      /\ refusal # "Continue" => refusal \in {"StopMalformed", "Interfaces", "StringBytes"}
  <2>1. DOMAIN conditions = 1 .. 3
    OBVIOUS
  <2>2. /\ conditions[1].error = "StopMalformed" /\ conditions[1].holds = (m.current # None)
        /\ conditions[2].error = "Interfaces"
        /\ conditions[2].holds = (Len(m.interfaces) + 1 <= m.limits["Interfaces"])
        /\ conditions[3].error = "StringBytes"
        /\ conditions[3].holds = (options.name # None => InternRoom(m, options.name).holds)
    BY DEF Condition, Reserve
  <2> HIDE DEF conditions
  <2>3. \A i \in 1 .. 3 : i = 1 \/ i = 2 \/ i = 3
    OBVIOUS
  <2>4. \A i \in 1 .. 3 : conditions[i].error # "Continue"
    BY <2>2, <2>3
  <2>5. /\ refusal = "Continue" <=> \A i \in 1 .. 3 : conditions[i].holds
        /\ refusal # "Continue" => \E i \in 1 .. 3 : refusal = conditions[i].error
    BY <2>1, <2>4, RefusalIsFirst
  <2> HIDE DEF refusal
  <2>6. (\A i \in 1 .. 3 : conditions[i].holds)
        <=> conditions[1].holds /\ conditions[2].holds /\ conditions[3].holds
    BY <2>3
  <2> QED BY <2>2, <2>3, <2>5, <2>6
<1> HIDE DEF refusal
<1>6. Annotated(m, m) /\ Scoped(m, m)
  BY AnnotatedItself
<1>7. ~Retains(m)
  BY DEF Retains
<1>8. CASE refusal # "Continue"
  <2>1. r = Fails(m, refusal)
    BY <1>1, <1>8
  <2>2. CASE refusal = "StopMalformed"
    BY <1>7, <2>1, <2>2, ProcessMalformed DEF r
  <2>3. CASE refusal \in {"Interfaces", "StringBytes"}
    <3>1. r \in Results /\ r.b = m /\ r.out \notin {"Continue", "StopMalformed"}
      BY <1>2, <2>1, <2>3 DEF Fails, Results, Outcomes, SinkErrors
    <3>2. Processed(m, r)
      BY <1>6, <3>1, ProcessRefused
    <3> QED BY <3>2 DEF r
  <2> QED BY <1>5, <1>8, <2>2, <2>3
<1>9. CASE refusal = "Continue"
  <2>1. /\ m.current # None /\ Len(m.interfaces) + 1 <= m.limits["Interfaces"]
        /\ options.name # None => InternRoom(m, options.name).holds
    BY <1>5, <1>9
  <2>2. Annotated(m, named) /\ Scoped(m, named) /\ named.diagnostics = m.diagnostics
    <3>1. CASE options.name = None
      BY <1>6, <3>1
    <3>2. CASE options.name # None
      <4>1. options.name \in Texts
        BY <1>4, <3>2 DEF Optional
      <4>2. Intern(m, options.name).diagnostics = m.diagnostics
        BY <1>2, <4>1, Interned
      <4> QED BY <3>2, <4>1, <4>2, AnnotatedIntern
    <3> QED BY <3>1, <3>2
  <2>3. options.name # None => \E id \in DOMAIN named.strings : named.strings[id] = options.name
    BY <1>2, <1>4, <2>1, NameFound DEF Optional
  <2> HIDE DEF named
  <2>4. /\ w \in Results /\ Annotated(m, w.b)
        /\ w.out # "Continue" => w.b = named /\ w.out \in {"Diagnostics", "StringBytes"}
        /\ Grows(named.strings, w.b.strings)
        /\ w.out = "Continue" =>
              \/ w.b.diagnostics = m.diagnostics
              \/ \E d \in DiagnosticRecord :
                    /\ w.b.diagnostics = Append(m.diagnostics, d)
                    /\ d.code = "INVALID_TIMESTAMP" /\ d.scope = None
    <3>0. named \in Builders
      BY <2>2 DEF Annotated
    <3>1. CASE ~options.malformed
      <4>1. w.b = named /\ w.out = "Continue" /\ w \in Results
        BY <3>0, <3>1 DEF Continue, Results, Outcomes
      <4>2. Grows(named.strings, named.strings)
        BY <3>0, ArenasTyped, GrowsItself
      <4> QED BY <2>2, <4>1, <4>2
    <3>2. CASE options.malformed
      <4>1. w = AddDiagnostic(named, "INVALID_TIMESTAMP", None, BlockRange(m))
        BY <3>2
      <4>2. "INVALID_TIMESTAMP" \in Texts /\ None \in Optional(Nat) /\ None \in {None, Len(m.packets) + 1}
        BY DEF Texts, ImporterCodes, Optional
      <4> HIDE DEF w
      <4>3. Noted(named, "INVALID_TIMESTAMP", None, BlockRange(m), w)
        BY <1>3, <3>0, <4>1, <4>2, DiagnosticAdded
      <4>4. /\ Annotated(m, w.b) /\ (w.out # "Continue" => w.b = named)
            /\ w.out = "Continue" =>
                  \E d \in DiagnosticRecord :
                    /\ w.b.diagnostics = Append(named.diagnostics, d)
                    /\ d.code = "INVALID_TIMESTAMP" /\ d.scope = None
        BY <1>2, <1>3, <2>2, <4>2, <4>3, AnnotatedNoted
      <4>5. Grows(named.strings, named.strings)
        BY <3>0, ArenasTyped, GrowsItself
      <4>6. Grows(named.strings, w.b.strings) /\ w \in Results
            /\ (w.out # "Continue" => w.out \in {"Diagnostics", "StringBytes"})
        BY <4>3, <4>4, <4>5 DEF Noted
      <4> QED BY <2>2, <4>4, <4>6
    <3> QED BY <3>1, <3>2
  <2> HIDE DEF w
  <2>5. CASE w.out # "Continue"
    <3>1. r = w
      BY <1>1, <1>9, <2>5
    <3>2. r.b = named /\ r.out \notin {"Continue", "StopMalformed"} /\ r \in Results
      BY <2>4, <2>5, <3>1
    <3>3. Processed(m, r)
      BY <2>2, <3>2, ProcessRefused
    <3> QED BY <3>3 DEF r
  <2>6. CASE w.out = "Continue"
    <3>0. /\ Annotated(m, b) /\ b \in Builders /\ Steady(m, b) /\ Ceilings(b)
          /\ Grows(m.strings, b.strings) /\ Grows(m.diagnostics, b.diagnostics)
      BY <2>4 DEF Annotated, Kept
    <3>1. /\ \/ b.diagnostics = m.diagnostics
             \/ \E d \in DiagnosticRecord :
                    /\ b.diagnostics = Append(m.diagnostics, d)
                    /\ d.code = "INVALID_TIMESTAMP" /\ d.scope = None
      BY <2>4, <2>6
    <3>2. options.name # None => StringId(b, options.name) \in DOMAIN b.strings
      <4> SUFFICES ASSUME options.name # None
                   PROVE  StringId(b, options.name) \in DOMAIN b.strings
        OBVIOUS
      <4>1. PICK id \in DOMAIN named.strings : named.strings[id] = options.name
        BY <2>3
      <4>2. named.strings \in Seq(Texts) /\ b.strings \in Seq(Texts)
        BY <2>2, <3>0, ArenasTyped DEF Annotated
      <4>3. id \in DOMAIN b.strings /\ b.strings[id] = options.name
        BY <2>4, <4>1, <4>2, OldAndNew
      <4> QED BY <4>3 DEF StringId
    <3> HIDE DEF b
    <3>3. /\ b.at = m.at /\ b.consumed = m.consumed /\ b.records = m.records
          /\ b.complete = m.complete /\ b.limits = m.limits /\ b.current = m.current
          /\ b.sections = m.sections /\ b.interfaces = m.interfaces /\ b.packets = m.packets
      BY <3>0 DEF Steady
    <3>4. /\ m.current.index \in Nat /\ m.current.start \in Nat
          /\ m.current.interface_start \in Nat /\ Len(m.interfaces) \in Nat
          /\ m.current.start <= m.consumed
          /\ b.strings \in Seq(Texts) /\ b.interfaces \in Seq(InterfaceMetadata)
      BY <1>2, <2>1, <3>0, EntriesTyped, ArenasTyped DEF Skeleton, CurrentSection
    <3>5. /\ interface \in InterfaceMetadata
          /\ interface.section = m.current.index
          /\ interface.section_index = Len(m.interfaces) + 1 - m.current.interface_start
          /\ interface.byte_range = BlockRange(m)
          /\ interface.name # None => HasString(b, interface.name)
      <4>1. block.snap \in Nat
        BY <1>3 DEF IsBlock
      <4>2. interface.name \in Optional(Nat)
        <5>1. DOMAIN b.strings \subseteq Nat
          BY <3>4
        <5> QED BY <3>2, <5>1 DEF Optional
      <4>3. interface.name # None => HasString(b, interface.name)
        BY <3>2 DEF HasString
      <4>4. Len(b.interfaces) + 1 - b.current.interface_start \in Int
        BY <3>3, <3>4
      <4> QED BY <1>3, <1>4, <3>3, <3>4, <4>1, <4>2, <4>3, <4>4 DEF InterfaceMetadata
    <3> HIDE DEF interface
    <3>6. /\ Append(b.interfaces, interface) \in Seq(InterfaceMetadata)
          /\ Len(Append(b.interfaces, interface)) = Len(m.interfaces) + 1
          /\ Grows(b.interfaces, Append(b.interfaces, interface))
          /\ Append(b.interfaces, interface)[Len(m.interfaces) + 1] = interface
      BY <3>3, <3>4, <3>5, GrowsAppended
    <3>7. n \in Builders
      BY <3>0, <3>6 DEF Builders
    <3>8. /\ n.interfaces = Append(b.interfaces, interface)
          /\ n.at = m.at /\ n.consumed = m.consumed /\ n.records = m.records
          /\ n.complete = m.complete /\ n.limits = m.limits /\ n.current = m.current
          /\ n.started_at = b.started_at /\ n.ended_at = b.ended_at
          /\ n.sections = m.sections /\ n.packets = m.packets /\ n.layers = b.layers
          /\ n.fields = b.fields /\ n.field_children = b.field_children
          /\ n.diagnostics = b.diagnostics /\ n.strings = b.strings
      BY <3>0, <3>3 DEF Builders
    <3> HIDE DEF n
    <3>9. Trees(n)
      <4>1. Trees(b)
        BY <1>2, <3>0, TreesAnnotated
      <4> QED BY <3>0, <3>3, <3>7, <3>8, <4>1, TreesElsewhere
    <3>10. Skeleton(Moved(m, n))
      <4>1. Skeleton(b)
        BY <1>2, <3>0, SkeletonAnnotated
      <4>2. Skeleton(Moved(m, b))
        BY <1>2, <3>0, <3>3, <4>1, SkeletonForward
      <4> DEFINE x == Moved(m, b)
                 y == Moved(m, n)
      <4>3. /\ x \in Builders /\ x.sections = b.sections /\ x.interfaces = b.interfaces
            /\ x.packets = b.packets /\ x.strings = b.strings /\ x.current = b.current
            /\ x.complete = b.complete /\ x.consumed = b.consumed + Declared(block)
        BY <1>3, <3>0, MovedTyped
      <4>4. /\ y \in Builders /\ y.sections = n.sections /\ y.interfaces = n.interfaces
            /\ y.packets = n.packets /\ y.strings = n.strings /\ y.current = n.current
            /\ y.complete = n.complete /\ y.consumed = n.consumed + Declared(block)
        BY <1>3, <3>7, MovedTyped
      <4> HIDE DEF x, y
      <4>5. /\ y.sections = x.sections /\ y.packets = x.packets /\ y.strings = x.strings
            /\ y.current = x.current /\ y.consumed = x.consumed /\ y.complete = x.complete
            /\ y.interfaces = Append(x.interfaces, interface) /\ x.current # None
        BY <2>1, <3>3, <3>8, <4>3, <4>4
      <4>6. /\ interface.section = x.current.index
            /\ interface.section_index = Len(x.interfaces) + 1 - x.current.interface_start
        BY <3>3, <3>5, <4>3
      <4>7. interface.byte_range.start >= x.current.start
            /\ End(interface.byte_range) <= x.consumed
        BY <1>3, <3>3, <3>4, <3>5, <4>3
      <4>8. interface.name # None => HasString(x, interface.name)
        BY <3>5, <4>3 DEF HasString
      <4>9. Skeleton(x)
        BY <4>2 DEF x
      <4>10. Skeleton(y)
        BY <3>5, <4>3, <4>4, <4>5, <4>6, <4>7, <4>8, <4>9, SkeletonWithInterface
      <4> QED BY <4>10 DEF y
    <3>11. WithinLimits(n)
      BY <1>2, <2>1, <3>0, <3>3, <3>6, <3>8 DEF WithinLimits, Ceilings
    <3>12. Added(m.interfaces, n.interfaces) = {Len(m.interfaces) + 1}
      BY <3>4, <3>6, <3>8 DEF Added
    <3>13. Fresh(m, n) = {Len(m.interfaces) + 1}
      BY <3>12 DEF Fresh
    <3>14. /\ Grows(m.packets, m.packets) /\ Added(m.packets, m.packets) = {}
           /\ Grows(m.sections, m.sections) /\ Added(m.sections, m.sections) = {}
           /\ m.diagnostics \in Seq(DiagnosticRecord) /\ b.diagnostics \in Seq(DiagnosticRecord)
      BY <1>2, <3>0, ArenasTyped, GrowsItself
    <3>15. \A g \in Added(m.diagnostics, b.diagnostics) :
              b.diagnostics[g].scope = None /\ b.diagnostics[g].code = "INVALID_TIMESTAMP"
      <4>1. CASE b.diagnostics = m.diagnostics
        BY <3>14, <4>1, GrowsItself
      <4>2. CASE \E d \in DiagnosticRecord :
                    /\ b.diagnostics = Append(m.diagnostics, d)
                    /\ d.code = "INVALID_TIMESTAMP" /\ d.scope = None
        <5>1. PICK d \in DiagnosticRecord :
                    /\ b.diagnostics = Append(m.diagnostics, d)
                    /\ d.code = "INVALID_TIMESTAMP" /\ d.scope = None
          BY <4>2
        <5>2. Len(b.diagnostics) = Len(m.diagnostics) + 1 /\ b.diagnostics[Len(m.diagnostics) + 1] = d
              /\ Len(m.diagnostics) \in Nat
          BY <3>14, <5>1, GrowsAppended
        <5>3. Added(m.diagnostics, b.diagnostics) = {Len(m.diagnostics) + 1}
          BY <5>2 DEF Added
        <5> QED BY <5>1, <5>2, <5>3
      <4> QED BY <3>1, <4>1, <4>2
    <3>16. Extends(m, n)
      <4>1. \A s \in DOMAIN m.sections :
                n.sections[s].byte_range.start = m.sections[s].byte_range.start
        BY <3>8
      <4>2. \A e \in Added(m.interfaces, n.interfaces) : n.interfaces[e].byte_range = BlockRange(m)
        BY <3>5, <3>6, <3>8, <3>12
      <4>3. \A g \in Added(m.diagnostics, n.diagnostics) :
                n.diagnostics[g].code \notin {"INCONSISTENT_LENGTH", "UNSUPPORTED_BLOCK"}
        BY <3>8, <3>15
      <4> QED BY <3>0, <3>3, <3>6, <3>8, <3>14, <4>1, <4>2, <4>3 DEF Extends, Grows
    <3>17. Pending(n) = {}
      <4>1. Len(m.packets) + 1 # None
        <5>1. Len(m.packets) + 1 \in Nat
          BY <1>2, ArenasTyped
        <5> QED BY <5>1, NoneAssumption
      <4>2. \A g \in DOMAIN b.diagnostics : \/ g \in DOMAIN m.diagnostics /\ b.diagnostics[g] = m.diagnostics[g]
                                            \/ b.diagnostics[g].scope = None
        BY <3>0, <3>14, <3>15, OldAndNew
      <4>3. Pending(m) = {}
        BY <1>7, NothingPending
      <4> QED BY <3>8, <4>1, <4>2, <4>3 DEF Pending
    <3>18. Forward(m, n)
      BY <1>3, <3>7, <3>8, <3>9, <3>10, <3>11, <3>13, <3>14, <3>16, <3>17 DEF Forward
    <3>19. r \in Results /\ r.b = n /\ r.out = "Continue"
      <4>1. r = Continue(n)
        BY <1>1, <1>9, <2>6 DEF n, interface, b
      <4> QED BY <3>7, <4>1 DEF Continue, Results, Outcomes
    <3>20. Processed(m, r)
      BY <3>18, <3>19 DEF Processed
    <3> QED BY <3>20 DEF r
  <2> QED BY <2>5, <2>6
<1> QED BY <1>8, <1>9

-----------------------------------------------------------------------------
\* A packet record that is retained.

\* The calls of a record's decoder, with its failure at the end or without.
LEMMA CallsTyped ==
    ASSUME NEW block, HasCalls(block), NEW fails
    PROVE  IsDecoder(block.calls \o (IF fails THEN <<[op |-> "fail"]>> ELSE <<>>))
<1> DEFINE failing == [op |-> "fail"]
           last == IF fails THEN <<failing>> ELSE <<>>
           S == Range(block.calls) \cup {failing}
           calls == block.calls \o last
<1>1. block.calls \in Seq(Range(block.calls)) /\ \A call \in Range(block.calls) : IsCall(call)
  BY DEF HasCalls, IsSequence
<1>2. IsCall(failing)
  BY DEF IsCall
<1> HIDE DEF failing
<1>3. block.calls \in Seq(S) /\ last \in Seq(S)
  <2>1. Range(block.calls) \subseteq S /\ failing \in S
    OBVIOUS
  <2>2. last = <<failing>> \/ last = <<>>
    OBVIOUS
  <2> HIDE DEF S, last
  <2>3. <<failing>> \in Seq(S) /\ <<>> \in Seq(S)
    BY <2>1
  <2>4. block.calls \in Seq(S)
    <3> DEFINE R == Range(block.calls)
    <3>1. R \subseteq S /\ block.calls \in Seq(R)
      BY <1>1, <2>1
    <3> HIDE DEF R
    <3> QED BY <3>1
  <2> QED BY <2>2, <2>3, <2>4
<1>4. \A call \in S : IsCall(call)
  BY <1>1, <1>2
<1> HIDE DEF S, last
<1>5. calls \in Seq(S)
  BY <1>3
<1> HIDE DEF calls
<1>6. /\ Len(calls) \in Nat /\ DOMAIN calls = 1 .. Len(calls)
      /\ \A i \in 1 .. Len(calls) : calls[i] \in S /\ calls[i] \in Range(calls)
      /\ calls = [i \in 1 .. Len(calls) |-> calls[i]]
  BY <1>5 DEF Range
<1>7. calls \in Seq(Range(calls))
  BY <1>6
<1>8. \A call \in Range(calls) : call \in S
  BY <1>6 DEF Range
<1> QED BY <1>4, <1>7, <1>8 DEF IsDecoder, IsSequence, calls, last, failing

\* Where the diagnostics of the packet start.
LEMMA StartFound ==
    ASSUME NEW m \in Builders, Held(m), NEW id, id = Len(m.packets) + 1,
           NEW start, start = DiagnosticStart(m, id)
    PROVE  /\ start \in 0 .. Len(m.diagnostics)
           /\ \A g \in DOMAIN m.diagnostics : g > start <=> m.diagnostics[g].scope = id
<1> DEFINE others == {g \in DOMAIN m.diagnostics : m.diagnostics[g].scope # id}
<1>1. /\ Len(m.diagnostics) \in Nat /\ DOMAIN m.diagnostics = 1 .. Len(m.diagnostics)
  BY ArenasTyped
<1>2. start = IF others = {} THEN 0 ELSE CHOOSE g \in others : \A h \in others : h <= g
  BY DEF DiagnosticStart
<1>3. CASE others = {}
  <2>1. start = 0 /\ \A g \in DOMAIN m.diagnostics : m.diagnostics[g].scope = id
    BY <1>2, <1>3
  <2> QED BY <1>1, <2>1
<1>4. CASE others # {}
  <2>1. others \in SUBSET (0 .. Len(m.diagnostics))
    BY <1>1
  <2>2. \E g \in others : \A h \in others : h <= g
    <3> HIDE DEF others
    <3> QED BY <1>1, <1>4, <2>1, GreatestExists
  <2>3. start \in others /\ \A h \in others : h <= start
    <3> HIDE DEF others
    <3> QED BY <1>2, <1>4, <2>2
  <2>4. start \in 1 .. Len(m.diagnostics) /\ m.diagnostics[start].scope # id
    BY <1>1, <2>3
  <2>5. ASSUME NEW g \in 1 .. Len(m.diagnostics)
        PROVE  g > start <=> m.diagnostics[g].scope = id
    <3>1. CASE g > start
      <4>1. g \notin others
        BY <1>1, <2>3, <2>4, <3>1
      <4> QED BY <1>1, <3>1, <4>1
    <3>2. CASE ~(g > start)
      <4> SUFFICES ASSUME m.diagnostics[g].scope = id PROVE FALSE
        BY <3>2
      <4>1. g \in Pending(m)
        BY <1>1 DEF Pending
      <4>2. g .. Len(m.diagnostics) \subseteq Pending(m)
        BY <4>1 DEF Held
      <4>3. start \in g .. Len(m.diagnostics)
        BY <1>1, <2>4, <3>2
      <4>4. m.diagnostics[start].scope = id
        BY <4>2, <4>3 DEF Pending
      <4> QED BY <2>4, <4>4
    <3> QED BY <3>1, <3>2
  <2> QED BY <1>1, <2>4, <2>5
<1> QED BY <1>3, <1>4

\* The diagnostics of the record itself.
IsNoted(f, m, notes, id, data, n) ==
    f = [i \in 0 .. n |-> IF i = 0 THEN Continue(m) ELSE Note(f[i - 1], notes[i], id, data)]

\* The diagnostics of a record are added one after the other, as long as none fails.
LEMMA NotesExist ==
    ASSUME NEW m, NEW notes, NEW id, NEW data, NEW N \in Nat
    PROVE  \E f : IsNoted(f, m, notes, id, data, N)
<1> DEFINE T == {n \in Nat : \E f : IsNoted(f, m, notes, id, data, n)}
<1>1. 0 \in T
  <2>1. IsNoted([i \in 0 .. 0 |-> Continue(m)], m, notes, id, data, 0)
    BY DEF IsNoted
  <2> QED BY <2>1
<1>2. ASSUME NEW n \in Nat, n \in T PROVE n + 1 \in T
  <2>1. PICK f : IsNoted(f, m, notes, id, data, n)
    BY <1>2
  <2> DEFINE g == [i \in 0 .. n + 1 |-> IF i = n + 1 THEN Note(f[n], notes[n + 1], id, data) ELSE f[i]]
  <2>2. \A i \in 0 .. n : f[i] = IF i = 0 THEN Continue(m) ELSE Note(f[i - 1], notes[i], id, data)
    BY <2>1 DEF IsNoted
  <2>3. ASSUME NEW i \in 0 .. n + 1
        PROVE  g[i] = IF i = 0 THEN Continue(m) ELSE Note(g[i - 1], notes[i], id, data)
    <3>1. CASE i = n + 1
      BY <3>1
    <3>2. CASE i # n + 1
      <4>1. i \in 0 .. n /\ (i # 0 => i - 1 \in 0 .. n /\ i - 1 # n + 1)
        BY <3>2
      <4>2. g[i] = f[i] /\ (i # 0 => g[i - 1] = f[i - 1])
        BY <3>2, <4>1
      <4> QED BY <2>2, <4>1, <4>2
    <3> QED BY <3>1, <3>2
  <2>4. IsNoted(g, m, notes, id, data, n + 1)
    BY <2>3 DEF IsNoted
  <2> QED BY <2>4
<1>3. Nat \subseteq T
  <2> HIDE DEF T
  <2> QED BY <1>1, <1>2, Induction
<1> QED BY <1>3

\* What writing them leaves.
Remarked(m, r) ==
    /\ r \in Results
    /\ r.out \in {"Continue", "Diagnostics", "StringBytes"}
    /\ Annotated(m, r.b) /\ Scoped(m, r.b)

\* One more diagnostic of the record at the reader.
LEMMA NoteRemarked ==
    ASSUME NEW m, Sound(m), Readable(m), Retains(m), NEW r, Remarked(m, r), NEW code \in ImporterCodes,
           NEW data \in Ranges, data = DataOf(m), IsWithin(data, file.length)
    PROVE  Remarked(m, Note(r, code, Len(m.packets) + 1, data))
<1> DEFINE id == Len(m.packets) + 1
           s == Note(r, code, id, data)
<1>1. CASE r.out # "Continue"
  BY <1>1 DEF Note
<1>2. CASE r.out = "Continue"
  <2>1. s = AddDiagnostic(r.b, code, id, data)
    BY <1>2 DEF Note
  <2>2. /\ m \in Builders /\ r.b \in Builders /\ Annotated(m, r.b) /\ Scoped(m, r.b)
        /\ r.b.packets = m.packets
    BY SoundTyped DEF Remarked, Annotated, Kept, Steady
  <2>3. id \in Nat /\ id \in Optional(Nat) /\ code \in Texts /\ id \in {None, Len(m.packets) + 1}
    BY <2>2, ArenasTyped DEF Optional, Texts
  <2> HIDE DEF s
  <2>4. Noted(r.b, code, id, data, s)
    BY <2>1, <2>2, <2>3, DiagnosticAdded
  <2>5. /\ Annotated(m, s.b)
        /\ s.out # "Continue" => s.b = r.b
        /\ s.out = "Continue" =>
              \E d \in DiagnosticRecord :
                 /\ s.b.diagnostics = Append(r.b.diagnostics, d)
                 /\ d.code = code /\ d.scope = id /\ d.byte_range = data
    BY <2>2, <2>3, <2>4, AnnotatedNoted, SMTT(30)
  <2>6. s \in Results /\ s.out \in {"Continue", "Diagnostics", "StringBytes"}
    BY <2>4 DEF Noted
  <2>7. Scoped(m, s.b)
    <3>1. CASE s.out # "Continue"
      BY <2>2, <2>5, <3>1
    <3>2. CASE s.out = "Continue"
      <4>1. PICK d \in DiagnosticRecord :
                 /\ s.b.diagnostics = Append(r.b.diagnostics, d)
                 /\ d.code = code /\ d.scope = id /\ d.byte_range = data
        BY <2>5, <3>2
      <4>2. r.b.diagnostics \in Seq(DiagnosticRecord) /\ m.diagnostics \in Seq(DiagnosticRecord)
            /\ Len(m.diagnostics) \in Nat /\ Len(r.b.diagnostics) \in Nat
        BY <2>2, ArenasTyped
      <4>3. /\ Len(s.b.diagnostics) = Len(r.b.diagnostics) + 1
            /\ s.b.diagnostics[Len(r.b.diagnostics) + 1] = d
            /\ \A i \in 1 .. Len(r.b.diagnostics) : s.b.diagnostics[i] = r.b.diagnostics[i]
        BY <4>1, <4>2, GrowsAppended
      <4>4. \A g \in Added(m.diagnostics, s.b.diagnostics) :
                \/ g \in Added(m.diagnostics, r.b.diagnostics) /\ s.b.diagnostics[g] = r.b.diagnostics[g]
                \/ s.b.diagnostics[g] = d
        BY <4>2, <4>3, SMTT(30) DEF Added
      <4>5. Covers(data, data)
        BY DEF Covers, End, Ranges
      <4> QED BY <2>2, <4>1, <4>4, <4>5 DEF Scoped
    <3> QED BY <3>1, <3>2
  <2>8. Remarked(m, s)
    BY <2>5, <2>6, <2>7 DEF Remarked
  <2> QED BY <2>8 DEF s
<1> QED BY <1>1, <1>2

\* Any number of diagnostics of the record at the reader.
LEMMA NotesRemarked ==
    ASSUME NEW m, Sound(m), Readable(m), Retains(m), NEW notes \in Seq(ImporterCodes),
           NEW data \in Ranges, data = DataOf(m), IsWithin(data, file.length),
           NEW f, IsNoted(f, m, notes, Len(m.packets) + 1, data, Len(notes)), NEW k \in 0 .. Len(notes)
    PROVE  Remarked(m, f[k])
<1> DEFINE id == Len(m.packets) + 1
           T == {n \in Nat : n <= Len(notes) => Remarked(m, f[n])}
<1>1. Len(notes) \in Nat /\ \A i \in 1 .. Len(notes) : notes[i] \in ImporterCodes
  OBVIOUS
<1>2. \A i \in 0 .. Len(notes) : f[i] = IF i = 0 THEN Continue(m) ELSE Note(f[i - 1], notes[i], id, data)
  BY DEF IsNoted
<1>3. 0 \in T
  <2>1. f[0] = Continue(m)
    BY <1>1, <1>2
  <2>2. Continue(m) \in Results /\ Continue(m).b = m /\ Continue(m).out = "Continue"
    BY SoundTyped DEF Continue, Results, Outcomes
  <2>3. Remarked(m, f[0])
    BY <2>1, <2>2, AnnotatedItself DEF Remarked
  <2> QED BY <2>3
<1>4. ASSUME NEW n \in Nat, n \in T PROVE n + 1 \in T
  <2> SUFFICES ASSUME n + 1 <= Len(notes) PROVE Remarked(m, f[n + 1])
    OBVIOUS
  <2>1. n + 1 \in 1 .. Len(notes) /\ n + 1 \in 0 .. Len(notes) /\ n + 1 # 0 /\ (n + 1) - 1 = n
    BY <1>1
  <2>2. Remarked(m, f[n]) /\ f[n + 1] = Note(f[n], notes[n + 1], id, data)
    BY <1>1, <1>2, <1>4, <2>1
  <2>3. notes[n + 1] \in ImporterCodes
    BY <1>1, <2>1
  <2> QED BY <2>2, <2>3, NoteRemarked
<1>5. Nat \subseteq T
  <2> HIDE DEF T
  <2> QED BY <1>3, <1>4, Induction
<1>6. k \in T /\ k <= Len(notes)
  BY <1>1, <1>5
<1> QED BY <1>6

\* A packet record as the reader hands it over: its data are in the record, and in a
\* section and an interface that go together.
Retaining(m, p) ==
    /\ p.data = DataOf(m) /\ p.data \in Ranges /\ p.data.length \in Nat
    /\ p.data.start > m.consumed /\ End(p.data) <= m.consumed + Declared(Upcoming(m))
    /\ p.section \in DOMAIN m.sections /\ p.interface \in DOMAIN m.interfaces
    /\ m.interfaces[p.interface].section = p.section
    /\ m.sections[p.section].byte_range.start <= m.consumed
    /\ IF m.current # None THEN p.section = m.current.index
       ELSE End(p.data) <= End(m.sections[p.section].byte_range)
    /\ p.timestamp \in Optional(CaptureTimestamp)
    /\ p.timestamp # None => p.timestamp.resolution = m.interfaces[p.interface].resolution
    /\ p.original \in Nat
    /\ HasCalls(Upcoming(m))

PacketOf(m, b, p, start) ==
    [section |-> p.section, interface |-> p.interface, timestamp |-> p.timestamp,
     captured_length |-> p.data.length, original_length |-> p.original, data |-> p.data,
     layers |-> SpanFrom(Len(m.layers), b.layers),
     diagnostics |-> SpanFrom(start, b.diagnostics)]

\* The packet of a record has its type.
LEMMA PacketTyped ==
    ASSUME NEW m \in Builders, NEW b \in Builders, NEW p, Retaining(m, p),
           NEW start \in Nat, NEW packet, packet = PacketOf(m, b, p, start)
    PROVE  packet \in PacketRecord
<1>1. /\ p.section \in Nat /\ p.interface \in Nat /\ p.timestamp \in Optional(CaptureTimestamp)
      /\ p.data.length \in Nat /\ p.original \in Nat /\ p.data \in Ranges
  BY ArenasTyped DEF Retaining
<1>2. SpanFrom(Len(m.layers), b.layers) \in Ranges /\ SpanFrom(start, b.diagnostics) \in Ranges
  <2>1. Len(m.layers) \in Nat /\ Len(b.layers) \in Nat /\ Len(b.diagnostics) \in Nat
    BY ArenasTyped
  <2> QED BY <2>1 DEF SpanFrom, ByteRange, Ranges
<1> QED BY <1>1, <1>2 DEF PacketOf, PacketRecord

\* The builder with the packet, and with its times.
LEMMA PushTyped ==
    ASSUME NEW b \in Builders, NEW packet \in PacketRecord, Times(b), NEW n, n = PushPacket(b, packet)
    PROVE  /\ n \in Builders /\ n.packets = Append(b.packets, packet) /\ Times(n)
           /\ n.at = b.at /\ n.consumed = b.consumed /\ n.records = b.records
           /\ n.complete = b.complete /\ n.limits = b.limits /\ n.initialized = b.initialized
           /\ n.current = b.current /\ n.sections = b.sections /\ n.interfaces = b.interfaces
           /\ n.layers = b.layers /\ n.fields = b.fields /\ n.field_children = b.field_children
           /\ n.diagnostics = b.diagnostics /\ n.strings = b.strings
<1> DEFINE t == packet.timestamp
           first == IF t # None /\ (b.started_at = None \/ (t # None /\ Earlier(t, b.started_at)))
                    THEN t ELSE b.started_at
           last == IF t # None /\ (b.ended_at = None \/ (t # None /\ Earlier(b.ended_at, t)))
                   THEN t ELSE b.ended_at
           more == Append(b.packets, packet)
<1>1. b.packets \in Seq(PacketRecord) /\ more \in Seq(PacketRecord)
  BY ArenasTyped, GrowsAppended
<1>2. TimesOf(b.packets, b.started_at, b.ended_at)
  BY DEF Times
<1>3. TimesOf(more, first, last) /\ first \in {t, b.started_at} /\ last \in {t, b.ended_at}
  BY <1>1, <1>2, TimesPushed
<1>4. /\ t \in Optional(CaptureTimestamp)
      /\ b.started_at \in Optional(CaptureTimestamp) /\ b.ended_at \in Optional(CaptureTimestamp)
  BY DEF PacketRecord, Builders
<1>5. n = [b EXCEPT !.packets = more, !.started_at = first, !.ended_at = last]
  BY DEF PushPacket
<1>6. first \in Optional(CaptureTimestamp) /\ last \in Optional(CaptureTimestamp)
  BY <1>3, <1>4
<1> HIDE DEF first, last, more
<1>7. /\ n \in Builders /\ n.packets = more /\ n.started_at = first /\ n.ended_at = last
      /\ n.at = b.at /\ n.consumed = b.consumed /\ n.records = b.records
      /\ n.complete = b.complete /\ n.limits = b.limits /\ n.initialized = b.initialized
      /\ n.current = b.current /\ n.sections = b.sections /\ n.interfaces = b.interfaces
      /\ n.layers = b.layers /\ n.fields = b.fields /\ n.field_children = b.field_children
      /\ n.diagnostics = b.diagnostics /\ n.strings = b.strings
  BY <1>1, <1>5, <1>6 DEF Builders
<1>8. Times(n)
  BY <1>3, <1>7 DEF Times
<1> QED BY <1>7, <1>8 DEF more

\* The packet with its layers and diagnostics is retained: the builder is ready to pass the
\* record.
LEMMA PacketPushed ==
    ASSUME file \in Captures, NEW m, Sound(m), Readable(m), ~m.complete, Retains(m),
           NEW p, Retaining(m, p), Reserve(m, m.packets, 1, "Packets").holds,
           NEW a, Annotated(m, a), Scoped(m, a),
           NEW b \in Builders, Decoding(a, b, Len(m.packets) + 1, p.data), EachOnce(a, b),
           NEW start, start = DiagnosticStart(m, Len(m.packets) + 1),
           NEW packet, packet = PacketOf(m, b, p, start), NEW n, n = PushPacket(b, packet)
    PROVE  Forward(m, n)
<1> DEFINE id == Len(m.packets) + 1
           q == Moved(m, n)
<1>1. /\ m \in Builders /\ WithinLimits(m) /\ Position(m) /\ Skeleton(m) /\ Trees(m)
      /\ Held(m) /\ Told(m)
  BY SoundTyped
<1>2. /\ a \in Builders /\ Ceilings(a) /\ Kept(m, a) /\ a.layers = m.layers /\ a.fields = m.fields
      /\ a.field_children = m.field_children
  BY DEF Annotated
<1>3. Kept(a, b) /\ Ceilings(b)
  BY DEF Decoding
<1>4. /\ Steady(m, a) /\ Steady(a, b) /\ Steady(m, b)
      /\ Grows(m.diagnostics, a.diagnostics) /\ Grows(a.diagnostics, b.diagnostics)
      /\ Grows(m.strings, a.strings) /\ Grows(a.strings, b.strings)
  BY <1>2, <1>3 DEF Kept, Steady
<1>5. Skeleton(a) /\ Trees(a)
  BY <1>1, <1>2, <1>4, SkeletonAnnotated, TreesAnnotated
<1>6. id \in Nat /\ id # None /\ Len(a.packets) + 1 = id /\ a.packets = m.packets /\ b.packets = m.packets
  <2>1. a.packets = m.packets /\ b.packets = m.packets /\ Len(m.packets) \in Nat
    BY <1>1, <1>4, ArenasTyped DEF Steady
  <2>2. id \in Nat
    BY <2>1
  <2> QED BY <2>1, <2>2, NoneAssumption
<1>7. /\ start \in 0 .. Len(m.diagnostics)
      /\ \A g \in DOMAIN m.diagnostics : g > start <=> m.diagnostics[g].scope = id
  BY <1>1, StartFound
<1>8. packet \in PacketRecord
  <2>1. Len(m.diagnostics) \in Nat /\ start \in Nat
    BY <1>1, <1>7, ArenasTyped
  <2> QED BY <1>1, <2>1, PacketTyped
<1>9. Times(b)
  BY <1>1, <1>4 DEF Trees, Times, Steady
<1>10. /\ n \in Builders /\ n.packets = Append(b.packets, packet) /\ Times(n)
       /\ n.at = b.at /\ n.consumed = b.consumed /\ n.records = b.records
       /\ n.complete = b.complete /\ n.limits = b.limits /\ n.initialized = b.initialized
       /\ n.current = b.current /\ n.sections = b.sections /\ n.interfaces = b.interfaces
       /\ n.layers = b.layers /\ n.fields = b.fields /\ n.field_children = b.field_children
       /\ n.diagnostics = b.diagnostics /\ n.strings = b.strings
  BY <1>8, <1>9, PushTyped
<1>11. /\ packet.data = p.data /\ packet.section = p.section /\ packet.interface = p.interface
       /\ packet.timestamp = p.timestamp /\ packet.captured_length = p.data.length
       /\ packet.layers = SpanFrom(Len(m.layers), b.layers)
       /\ packet.diagnostics = SpanFrom(start, b.diagnostics)
  BY DEF PacketOf
<1>12. /\ file.length \in Nat /\ m.consumed \in Nat /\ Declared(Upcoming(m)) \in Nat
       /\ m.consumed + Declared(Upcoming(m)) <= file.length
       /\ BlockRange(m).start = m.consumed
       /\ End(BlockRange(m)) = m.consumed + Declared(Upcoming(m))
  BY <1>1, ReadablePlace
<1>13. /\ p.data = DataOf(m) /\ p.data \in Ranges /\ p.data.length \in Nat /\ p.data.start \in Int
       /\ p.data.start > m.consumed /\ End(p.data) <= m.consumed + Declared(Upcoming(m))
       /\ End(p.data) \in Int
  BY DEF Retaining, Ranges, End
<1> HIDE DEF id, q
<1>14. Covers(BlockRange(m), p.data) /\ IsWithin(p.data, file.length)
  BY <1>12, <1>13 DEF Covers, IsWithin
<1>15. /\ m.diagnostics \in Seq(DiagnosticRecord) /\ a.diagnostics \in Seq(DiagnosticRecord)
       /\ b.diagnostics \in Seq(DiagnosticRecord)
       /\ Len(m.diagnostics) \in Nat /\ Len(a.diagnostics) \in Nat /\ Len(b.diagnostics) \in Nat
       /\ m.packets \in Seq(PacketRecord)
  BY <1>1, <1>2, ArenasTyped
<1>16. Grows(m.diagnostics, b.diagnostics)
  BY <1>4, <1>15, GrowsAgain
<1>17. Committed(a, b, n, packet, start)
  <2>1. start \in 0 .. Len(a.diagnostics)
    BY <1>4, <1>7, <1>15 DEF Grows
  <2>2. ASSUME NEW g \in DOMAIN a.diagnostics
        PROVE  /\ g > start <=> a.diagnostics[g].scope = id
               /\ g > start => Covers(p.data, a.diagnostics[g].byte_range)
    <3>1. CASE g \in DOMAIN m.diagnostics
      <4>1. a.diagnostics[g] = m.diagnostics[g]
        BY <1>4, <1>15, <3>1, OldAndNew
      <4>2. m.diagnostics[g].scope = id => Covers(p.data, m.diagnostics[g].byte_range)
        <5>1. m.diagnostics[g].scope = id => g \in Pending(m)
          BY <3>1 DEF Pending, id
        <5> QED BY <1>1, <1>13, <5>1 DEF Held
      <4> QED BY <1>7, <3>1, <4>1, <4>2
    <3>2. CASE g \notin DOMAIN m.diagnostics
      <4>1. g \in Added(m.diagnostics, a.diagnostics) /\ g > Len(m.diagnostics) /\ g \in Nat
        BY <1>4, <1>15, <3>2, OldAndNew
      <4>2. a.diagnostics[g].scope = id /\ Covers(p.data, a.diagnostics[g].byte_range)
        BY <1>13, <4>1 DEF Scoped, id
      <4>3. g > start
        BY <1>7, <1>15, <4>1
      <4> QED BY <4>2, <4>3
    <3> QED BY <3>1, <3>2
  <2>3. Decoding(a, b, id, packet.data) /\ EachOnce(a, b)
    BY <1>11 DEF id
  <2>4. n.packets = Append(a.packets, packet) /\ packet.layers = SpanFrom(Len(a.layers), b.layers)
    BY <1>2, <1>6, <1>10, <1>11
  <2> QED BY <1>2, <1>6, <1>8, <1>10, <1>11, <1>12, <1>14, <2>1, <2>2, <2>3, <2>4 DEF Committed
<1>18. Trees(n)
  BY <1>5, <1>10, <1>17, TreesCommitted
<1>19. /\ n.at = m.at /\ n.consumed = m.consumed /\ n.records = m.records /\ n.limits = m.limits
       /\ n.complete = m.complete /\ n.initialized = m.initialized /\ n.current = m.current
       /\ n.sections = m.sections /\ n.interfaces = m.interfaces
       /\ n.packets = Append(m.packets, packet)
  BY <1>4, <1>6, <1>10 DEF Steady
<1>20. Skeleton(q)
  <2> DEFINE o == Moved(m, a)
  <2>1. a.consumed = m.consumed
    BY <1>4 DEF Steady
  <2>2. Skeleton(o)
    BY <1>1, <1>2, <1>5, <2>1, SkeletonForward
  <2>3. /\ o \in Builders /\ o.consumed = m.consumed + Declared(Upcoming(m))
        /\ o.complete = m.complete /\ o.current = m.current
        /\ o.sections = m.sections /\ o.interfaces = m.interfaces /\ o.packets = m.packets
        /\ o.strings = a.strings
    <3>1. /\ o \in Builders
          /\ o.consumed = a.consumed + Declared(Upcoming(m))
          /\ o.complete = a.complete /\ o.current = a.current
          /\ o.sections = a.sections /\ o.interfaces = a.interfaces /\ o.packets = a.packets
          /\ o.strings = a.strings
      BY <1>2, <1>12, MovedTyped
    <3> HIDE DEF o
    <3> QED BY <1>4, <3>1 DEF Steady
  <2>4. /\ q \in Builders /\ q.consumed = m.consumed + Declared(Upcoming(m))
        /\ q.complete = m.complete /\ q.current = m.current
        /\ q.sections = m.sections /\ q.interfaces = m.interfaces
        /\ q.packets = Append(m.packets, packet) /\ q.strings = b.strings
    <3>1. /\ q \in Builders
          /\ q.consumed = n.consumed + Declared(Upcoming(m))
          /\ q.complete = n.complete /\ q.current = n.current
          /\ q.sections = n.sections /\ q.interfaces = n.interfaces /\ q.packets = n.packets
          /\ q.strings = n.strings
      BY <1>10, <1>12, MovedTyped DEF q
    <3> QED BY <1>10, <1>19, <3>1
  <2> HIDE DEF o
  <2>5. PacketWhole(o, packet)
    <3>1. /\ p.section \in DOMAIN m.sections /\ p.interface \in DOMAIN m.interfaces
          /\ m.interfaces[p.interface].section = p.section
          /\ p.timestamp # None => p.timestamp.resolution = m.interfaces[p.interface].resolution
      BY DEF Retaining
    <3>2. p.data.start >= m.sections[p.section].byte_range.start
      <4>1. m.sections[p.section].byte_range.start \in Int
        BY <1>1, <3>1, EntriesTyped
      <4>2. m.sections[p.section].byte_range.start <= m.consumed
        BY DEF Retaining
      <4> QED BY <1>12, <1>13, <4>1, <4>2
    <3>3. End(p.data) <= SectionEnd(o, p.section)
      <4>1. CASE m.current # None
        <5>1. SectionEnd(o, p.section) = m.consumed + Declared(Upcoming(m))
          BY <2>3, <4>1 DEF SectionEnd, Retaining
        <5> QED BY <1>13, <5>1
      <4>2. CASE m.current = None
        <5>1. SectionEnd(o, p.section) = End(m.sections[p.section].byte_range)
          BY <2>3, <4>2 DEF SectionEnd
        <5> QED BY <4>2, <5>1 DEF Retaining
      <4> QED BY <4>1, <4>2
    <3> QED BY <1>11, <2>3, <3>1, <3>2, <3>3 DEF PacketWhole
  <2> QED BY <1>4, <1>8, <2>2, <2>3, <2>4, <2>5, SkeletonWithPacket
<1>21. WithinLimits(n)
  <2>1. Len(n.packets) = Len(m.packets) + 1
    BY <1>8, <1>15, <1>19, GrowsAppended
  <2>2. Len(n.packets) <= n.limits["Packets"]
    BY <1>19, <2>1 DEF Reserve, Condition
  <2>3. /\ Len(n.sections) <= n.limits["Sections"] /\ Len(n.interfaces) <= n.limits["Interfaces"]
    BY <1>1, <1>19 DEF WithinLimits
  <2> QED BY <1>3, <1>10, <2>2, <2>3 DEF WithinLimits, Ceilings
<1>22. /\ Grows(m.packets, n.packets) /\ Added(m.packets, n.packets) = {id} /\ n.packets[id] = packet
       /\ Len(n.packets) = id
  <2>1. /\ Len(n.packets) = Len(m.packets) + 1 /\ Grows(m.packets, n.packets)
        /\ n.packets[Len(m.packets) + 1] = packet
    <3> DEFINE more == Append(m.packets, packet)
    <3>1. Len(more) = Len(m.packets) + 1 /\ Grows(m.packets, more) /\ more[Len(m.packets) + 1] = packet
      BY <1>8, <1>15, GrowsAppended
    <3>2. n.packets = more
      BY <1>19
    <3> HIDE DEF more
    <3> QED BY <3>1, <3>2
  <2>2. Len(m.packets) \in Nat
    BY <1>15
  <2> QED BY <2>1, <2>2 DEF Added, id
<1>23. \A g \in Added(m.diagnostics, n.diagnostics) : n.diagnostics[g].scope = id
  <2> SUFFICES ASSUME NEW g \in Added(m.diagnostics, b.diagnostics) PROVE b.diagnostics[g].scope = id
    BY <1>10
  <2>1. CASE g \in DOMAIN a.diagnostics
    <3>1. g \in Added(m.diagnostics, a.diagnostics)
      BY <1>15, <2>1 DEF Added
    <3>2. b.diagnostics[g] = a.diagnostics[g]
      BY <1>4, <1>15, <2>1, OldAndNew
    <3> QED BY <3>1, <3>2 DEF Scoped, id
  <2>2. CASE g \notin DOMAIN a.diagnostics
    <3>1. g \in DOMAIN b.diagnostics
      BY <1>15, <1>16, OldAndNew
    <3>2. g \in Added(a.diagnostics, b.diagnostics)
      BY <1>4, <1>15, <2>2, <3>1, OldAndNew
    <3> QED BY <3>2 DEF Decoding, NewDiagnostic, id
  <2> QED BY <2>1, <2>2
<1>24. Extends(m, n)
  <2>1. /\ Grows(m.interfaces, n.interfaces) /\ Added(m.interfaces, n.interfaces) = {}
        /\ Grows(m.sections, n.sections) /\ Added(m.sections, n.sections) = {}
    BY <1>1, <1>19, ArenasTyped, GrowsItself
  <2>2. \A i \in Added(m.packets, n.packets) : n.packets[i].data.start > m.consumed /\ n.packets[i].data.length >= 0
    BY <1>11, <1>13, <1>22
  <2>3. \A s \in DOMAIN m.sections : n.sections[s].byte_range.start = m.sections[s].byte_range.start
    BY <1>19
  <2>4. Grows(m.diagnostics, n.diagnostics)
    BY <1>10, <1>16
  <2>5. \A g \in Added(m.diagnostics, n.diagnostics) : n.diagnostics[g].scope # None
    BY <1>6, <1>23
  <2> QED BY <1>22, <2>1, <2>2, <2>3, <2>4, <2>5 DEF Extends, Grows
<1>25. \A i \in Added(m.packets, n.packets) : Covers(BlockRange(m), n.packets[i].data)
  BY <1>11, <1>14, <1>22
<1>26. Fresh(m, n) = {id}
  <2>1. {i \in Added(m.packets, n.packets) : Covers(BlockRange(m), n.packets[i].data)} = {id}
    BY <1>22, <1>25
  <2>2. {g \in Added(m.diagnostics, n.diagnostics) :
            n.diagnostics[g].scope = None /\ n.diagnostics[g].code = "INCONSISTENT_LENGTH"} = {}
    BY <1>6, <1>23
  <2>3. Upcoming(m).kind \in {"Record", "EPB", "SPB"}
    BY DEF Retains
  <2> QED BY <2>1, <2>2, <2>3 DEF Fresh
<1>27. Pending(n) = {}
  <2>1. Grows(m.diagnostics, n.diagnostics) /\ n.diagnostics \in Seq(DiagnosticRecord)
    BY <1>10, <1>15, <1>16
  <2>2. \A g \in DOMAIN n.diagnostics : \/ g \in DOMAIN m.diagnostics /\ n.diagnostics[g] = m.diagnostics[g]
                                        \/ n.diagnostics[g].scope = id
    BY <1>15, <1>23, <2>1, OldAndNew
  <2>3. \A g \in DOMAIN m.diagnostics : m.diagnostics[g].scope # None => m.diagnostics[g].scope \in 1 .. id
    BY <1>1 DEF Trees, Diagnostics, id
  <2>4. id + 1 # None /\ id + 1 \notin 1 .. id
    <3>1. id + 1 \in Nat
      BY <1>6
    <3> QED BY <1>6, <3>1, NoneAssumption
  <2>5. \A g \in DOMAIN n.diagnostics : n.diagnostics[g].scope # id + 1
    BY <1>6, <2>2, <2>3, <2>4
  <2> QED BY <1>22, <2>5 DEF Pending
<1>28. Legacy => /\ n.initialized /\ Len(n.sections) = 1 /\ Len(n.interfaces) = 1
                 /\ n.sections[1].byte_range = ByteRange(0, file.length)
  <2> SUFFICES ASSUME Legacy PROVE /\ m.initialized /\ Len(m.sections) = 1 /\ Len(m.interfaces) = 1
                                   /\ m.sections[1].byte_range = ByteRange(0, file.length)
    BY <1>19
  <2>1. (Upcoming(m).kind = "Header" <=> m.at = 1) /\ m.at \in 1 .. Len(file.blocks)
        /\ Len(file.blocks) \in Nat
    BY <1>1, ReadablePlace
  <2>2. Upcoming(m).kind # "Header"
    BY DEF Retains
  <2>3. m.at > 1
    BY <2>1, <2>2
  <2> QED BY <1>1, <2>3 DEF Position
<1> QED BY <1>10, <1>18, <1>19, <1>20, <1>21, <1>24, <1>25, <1>26, <1>27, <1>28 DEF Forward, q

\* From ensure_packet_capacity to push_packet: on the first attempt or on a retry, the
\* builder is sound whether the record's diagnostics, its decode or a ceiling fails or
\* nothing does.
LEMMA RetainProcessed ==
    ASSUME file \in Captures, NEW m, Sound(m), Readable(m), ~m.complete, Retains(m),
           NEW p, Retaining(m, p), NEW notes \in Seq(ImporterCodes), NEW fails
    PROVE  Processed(m, Retain(m, p, notes, fails))
<1> DEFINE id == Len(m.packets) + 1
           start == DiagnosticStart(m, id)
           calls == Upcoming(m).calls \o (IF fails THEN <<[op |-> "fail"]>> ELSE <<>>)
           P(f) == f = [n \in 0 .. Len(notes) |->
                           IF n = 0 THEN Continue(m) ELSE Note(f[n - 1], notes[n], id, p.data)]
           noted == CHOOSE f : P(f)
           chosen == IF start # Len(m.diagnostics) THEN 0 ELSE Len(notes)
           w == noted[chosen]
           d == Decode(w, id, p.data, calls)
           r == Retain(m, p, notes, fails)
<1>1. r = IF ~Reserve(m, m.packets, 1, "Packets").holds THEN Fails(m, "Packets")
          ELSE Commit(d, m, p, start)
  BY DEF Retain
<1>2. /\ m \in Builders /\ WithinLimits(m) /\ Position(m) /\ Annotated(m, m) /\ Scoped(m, m)
      /\ Len(m.packets) \in Nat /\ Len(m.diagnostics) \in Nat
  <2>1. m \in Builders /\ WithinLimits(m) /\ Position(m)
    BY SoundTyped
  <2>2. Annotated(m, m) /\ Scoped(m, m)
    BY AnnotatedItself
  <2> QED BY <2>1, <2>2, ArenasTyped
<1>3. /\ p.data = DataOf(m) /\ p.data \in Ranges /\ IsWithin(p.data, file.length)
  <2>1. /\ file.length \in Nat /\ m.consumed \in Nat /\ Declared(Upcoming(m)) \in Nat
        /\ m.consumed + Declared(Upcoming(m)) <= file.length
    BY <1>2, ReadablePlace
  <2>2. p.data \in Ranges /\ End(p.data) <= m.consumed + Declared(Upcoming(m)) /\ End(p.data) \in Int
    BY DEF Retaining, Ranges, End
  <2> QED BY <2>1, <2>2 DEF Retaining, IsWithin
<1>4. IsNoted(noted, m, notes, id, p.data, Len(notes))
  <2>1. Len(notes) \in Nat
    OBVIOUS
  <2>2. \E f : P(f)
    <3>1. PICK f : IsNoted(f, m, notes, id, p.data, Len(notes))
      BY <2>1, NotesExist
    <3>2. P(f)
      BY <3>1 DEF IsNoted
    <3> QED BY <3>2
  <2>3. P(noted)
    BY <2>2
  <2> HIDE DEF noted
  <2> QED BY <2>3 DEF IsNoted
<1>5. Remarked(m, w)
  <2>1. chosen \in 0 .. Len(notes)
    OBVIOUS
  <2> HIDE DEF noted, chosen
  <2> QED BY <1>3, <1>4, <2>1, NotesRemarked
<1>6. IsDecoder(calls)
  BY CallsTyped DEF Retaining
<1> HIDE DEF r, w, calls, d
<1>7. CASE ~Reserve(m, m.packets, 1, "Packets").holds
  <2>1. r = Fails(m, "Packets")
    BY <1>1, <1>7
  <2>2. r \in Results /\ r.b = m /\ r.out = "Packets"
    BY <1>2, <2>1 DEF Fails, Results, Outcomes
  <2>3. Processed(m, r)
    BY <1>2, <2>2, ProcessRefused
  <2> QED BY <2>3 DEF r
<1>8. CASE Reserve(m, m.packets, 1, "Packets").holds /\ w.out # "Continue"
  <2>1. d = w
    BY <1>8 DEF Decode, d
  <2>2. r = w
    BY <1>1, <1>8, <2>1 DEF Commit
  <2>3. r \in Results /\ Annotated(m, r.b) /\ Scoped(m, r.b) /\ r.out \notin {"Continue", "StopMalformed"}
    BY <1>5, <1>8, <2>2 DEF Remarked
  <2>4. Processed(m, r)
    BY <2>3, ProcessRefused
  <2> QED BY <2>4 DEF r
<1>9. CASE Reserve(m, m.packets, 1, "Packets").holds /\ w.out = "Continue"
  <2> DEFINE a == w.b
  <2>1. Annotated(m, a) /\ Scoped(m, a)
    BY <1>5 DEF Remarked
  <2>2. d = DecodePacket(a, id, p.data, calls)
    BY <1>9 DEF Decode, d
  <2> HIDE DEF a
  <2>3. a \in Builders /\ Ceilings(a) /\ id \in Nat
    BY <1>2, <2>1 DEF Annotated
  <2>4. Decoded(a, id, p.data, d)
    BY <1>3, <1>6, <2>2, <2>3, DecodeSettles
  <2>5. CASE d.out # "Continue"
    <3>1. r = d
      BY <1>1, <1>9, <2>5 DEF Commit
    <3>2. r \in Results /\ r.b = a /\ r.out \in SinkErrors
      BY <2>4, <2>5, <3>1 DEF Decoded
    <3>3. r.out \notin {"Continue", "StopMalformed"}
      BY <3>2 DEF SinkErrors
    <3>4. Processed(m, r)
      BY <2>1, <3>2, <3>3, ProcessRefused
    <3> QED BY <3>4 DEF r
  <2>6. CASE d.out = "Continue"
    <3> DEFINE b == d.b
               packet == PacketOf(m, b, p, start)
               n == PushPacket(b, packet)
    <3>1. d \in Results /\ b \in Builders
      BY <2>4 DEF Decoded, Results
    <3>2. Decoding(a, b, id, p.data) /\ EachOnce(a, b)
      BY <2>4, <2>6 DEF Decoded
    <3>3. r = Continue(n)
      BY <1>1, <1>9, <2>6 DEF Commit, PacketOf
    <3>4. Forward(m, n)
      <4> HIDE DEF b
      <4> QED BY <1>9, <2>1, <3>1, <3>2, PacketPushed
    <3> HIDE DEF n
    <3>5. r \in Results /\ r.b = n /\ r.out = "Continue"
      BY <3>3, <3>4 DEF Continue, Results, Outcomes, Forward
    <3>6. Processed(m, r)
      BY <3>4, <3>5 DEF Processed
    <3> QED BY <3>6 DEF r
  <2> QED BY <2>5, <2>6
<1> QED BY <1>7, <1>8, <1>9

\* Padding never makes data shorter.
LEMMA PaddedCovers ==
    ASSUME NEW n \in Nat
    PROVE  Padded(n) \in Nat /\ Padded(n) >= n
  BY DEF Padded

\* CaptureTimestamp::new keeps the resolution it is given.
LEMMA TimestampTyped ==
    ASSUME NEW seconds \in Int, NEW fraction \in Nat, NEW resolution \in Resolutions
    PROVE  /\ Timestamp(seconds, fraction, resolution) \in Optional(CaptureTimestamp)
           /\ Timestamp(seconds, fraction, resolution) # None =>
                 Timestamp(seconds, fraction, resolution).resolution = resolution
<1> DEFINE t == [seconds |-> seconds, fraction |-> fraction, resolution |-> resolution]
<1>1. t \in CaptureTimestamp /\ t.resolution = resolution
  BY DEF CaptureTimestamp
<1>2. Timestamp(seconds, fraction, resolution) = None \/ Timestamp(seconds, fraction, resolution) = t
  BY DEF Timestamp
<1> HIDE DEF t
<1> QED BY <1>1, <1>2 DEF Optional

\* A time of PCAPNG has the resolution of its interface.
LEMMA PcapngTimestampTyped ==
    ASSUME NEW ticks \in Nat, NEW interface \in InterfaceMetadata
    PROVE  /\ PcapngTimestamp(ticks, interface) \in Optional(CaptureTimestamp)
           /\ PcapngTimestamp(ticks, interface) # None =>
                 PcapngTimestamp(ticks, interface).resolution = interface.resolution
<1> DEFINE second == TicksPerSecond(interface.resolution)
           whole == IF second = None THEN 0 ELSE ticks \div second
           fraction == IF second = None THEN ticks ELSE ticks % second
           seconds == whole + interface.offset
           t == Timestamp(seconds, fraction, interface.resolution)
<1>1. interface.resolution \in Resolutions /\ interface.offset \in Int
  BY DEF InterfaceMetadata
<1>2. second = None \/ second \in Nat \ {0}
  BY <1>1 DEF TicksPerSecond, Resolutions
<1> HIDE DEF second
<1>3. whole \in Nat /\ fraction \in Nat
  <2>1. CASE second = None
    BY <2>1
  <2>2. CASE second # None
    <3>1. second \in Nat /\ second > 0
      BY <1>2, <2>2
    <3> QED BY <2>2, <3>1
  <2> QED BY <2>1, <2>2
<1> HIDE DEF whole, fraction
<1>4. seconds \in Int
  BY <1>1, <1>3
<1>5. PcapngTimestamp(ticks, interface) = None \/ PcapngTimestamp(ticks, interface) = t
  BY DEF PcapngTimestamp, second, whole, fraction
<1> HIDE DEF seconds
<1>6. t \in Optional(CaptureTimestamp) /\ (t # None => t.resolution = interface.resolution)
  BY <1>1, <1>3, <1>4, TimestampTyped
<1> HIDE DEF t
<1> QED BY <1>5, <1>6 DEF Optional

\* The diagnostics of a record have codes of the importer.
LEMMA NotesTyped ==
    ASSUME NEW inconsistent, NEW timestamp
    PROVE  Notes(inconsistent, timestamp) \in Seq(ImporterCodes)
<1> DEFINE one == "INCONSISTENT_LENGTH"
           two == "INVALID_TIMESTAMP"
           s == IF inconsistent THEN <<one>> ELSE <<>>
           t == IF timestamp = None THEN <<two>> ELSE <<>>
<1>1. one \in ImporterCodes /\ two \in ImporterCodes
  BY DEF ImporterCodes
<1>2. Notes(inconsistent, timestamp) = s \o t
  BY DEF Notes
<1> HIDE DEF one, two
<1>3. <<one>> \in Seq(ImporterCodes) /\ <<two>> \in Seq(ImporterCodes) /\ <<>> \in Seq(ImporterCodes)
  BY <1>1
<1>4. s \in Seq(ImporterCodes) /\ t \in Seq(ImporterCodes)
  BY <1>3
<1> HIDE DEF s, t
<1> QED BY <1>2, <1>4

\* process_legacy_packet keeps the builder sound.
LEMMA LegacyPacketProcessed ==
    ASSUME file \in Captures, NEW m, Sound(m), Readable(m), ~m.complete,
           Upcoming(m).kind = "Record", NEW fails
    PROVE  Processed(m, ProcessLegacyPacket(m, fails))
<1> DEFINE block == Upcoming(m)
           interface == m.interfaces[1]
           timestamp == Timestamp(block.seconds, block.fraction, interface.resolution)
           inconsistent == \/ block.captured > interface.snap
                           \/ block.captured > block.original
           data == ByteRange(m.consumed + LegacyHeaderLength, block.captured)
           notes == Notes(inconsistent, timestamp)
           p == [section |-> 1, interface |-> 1, timestamp |-> timestamp,
                 original |-> block.original, data |-> data]
<1>1. m \in Builders /\ Position(m) /\ Skeleton(m)
  BY SoundTyped
<1>2. /\ Legacy /\ IsRecord(block) /\ m.at \in 1 .. Len(file.blocks) /\ m.at # 1
      /\ Len(file.blocks) \in Nat /\ m.consumed \in Nat /\ file.length \in Nat
      /\ Declared(block) \in Nat /\ m.consumed + Declared(block) <= file.length
  BY <1>1, ReadablePlace
<1>3. /\ Len(m.sections) = 1 /\ Len(m.interfaces) = 1
      /\ m.sections[1].byte_range = ByteRange(0, file.length)
  <2>1. m.at > 1
    BY <1>2
  <2> QED BY <1>1, <1>2, <2>1 DEF Position
<1>4. /\ DOMAIN m.sections = {1} /\ DOMAIN m.interfaces = {1} /\ interface \in InterfaceMetadata
  BY <1>1, <1>3, ArenasTyped
<1>5. m.current = None
  BY <1>1, <1>2 DEF Skeleton, CurrentSection
<1>6. interface.section = 1
  BY <1>1, <1>4 DEF Skeleton, Interfaces
<1>7. /\ block.captured \in Nat /\ block.original \in Nat
      /\ block.seconds \in Int /\ block.fraction \in Nat /\ HasCalls(block)
  BY <1>2 DEF IsRecord
<1>8. interface.resolution \in Resolutions
  BY <1>4 DEF InterfaceMetadata
<1>9. timestamp \in Optional(CaptureTimestamp) /\ (timestamp # None => timestamp.resolution = interface.resolution)
  BY <1>7, <1>8, TimestampTyped
<1>10. LegacyHeaderLength \in {16, 24} /\ Declared(block) = LegacyHeaderLength + block.captured
  <2>1. LegacyHeaderLength \in {16, 24}
    BY DEF LegacyHeaderLength, RecordHeader
  <2> QED BY <2>1 DEF Declared, DeclaredIn, LegacyHeaderLength
<1>11. notes \in Seq(ImporterCodes)
  BY NotesTyped
<1>12. data = DataOf(m) /\ Retains(m)
  BY DEF DataOf, Retains
<1>13. /\ data.start = m.consumed + LegacyHeaderLength /\ data.length = block.captured
       /\ data \in Ranges /\ End(data) = m.consumed + Declared(block)
  <2>1. data.start = m.consumed + LegacyHeaderLength /\ data.length = block.captured
    BY DEF ByteRange
  <2>2. data \in Ranges
    <3>1. m.consumed + LegacyHeaderLength \in Int /\ block.captured \in Int
      BY <1>2, <1>7, <1>10
    <3> QED BY <3>1 DEF ByteRange, Ranges
  <2>3. End(data) = m.consumed + Declared(block)
    <3>1. End(data) = (m.consumed + LegacyHeaderLength) + block.captured
      BY <2>1 DEF End
    <3>2. LegacyHeaderLength \in Nat /\ block.captured \in Nat /\ m.consumed \in Nat
      BY <1>2, <1>7, <1>10
    <3> HIDE DEF data, block
    <3> QED BY <1>10, <3>1, <3>2
  <2> QED BY <2>1, <2>2, <2>3
<1> HIDE DEF data, timestamp, notes
<1>14. End(data) <= End(m.sections[1].byte_range) /\ m.sections[1].byte_range.start <= m.consumed
  BY <1>2, <1>3, <1>13 DEF End, ByteRange
<1>15. Retaining(m, p)
  <2>1. data.start > m.consumed
    BY <1>2, <1>10, <1>13
  <2> HIDE DEF block, interface
  <2>2. /\ p.data = data /\ p.section = 1 /\ p.interface = 1 /\ p.timestamp = timestamp
        /\ p.original = block.original
    OBVIOUS
  <2> HIDE DEF p
  <2>3. End(data) <= m.consumed + Declared(block)
    BY <1>2, <1>13
  <2> QED BY <1>4, <1>5, <1>6, <1>7, <1>9, <1>12, <1>13, <1>14, <2>1, <2>2, <2>3 DEF Retaining, block, interface
<1>16. ProcessLegacyPacket(m, fails) = Retain(m, p, notes, fails)
  BY DEF ProcessLegacyPacket, notes, timestamp, data
<1> HIDE DEF p
<1> QED BY <1>11, <1>12, <1>15, <1>16, RetainProcessed

\* A packet of the current section: where its interface is.
LEMMA EnhancedProcessed ==
    ASSUME file \in Captures, NEW m, Sound(m), Readable(m), ~m.complete,
           Upcoming(m).kind = "EPB", NEW fails
    PROVE  Processed(m, ProcessEnhancedPacket(m, fails))
<1> DEFINE block == Upcoming(m)
           index == m.current.interface_start + block.interface + 1
           interface == m.interfaces[index]
           timestamp == PcapngTimestamp(block.ticks, interface)
           inconsistent == \/ interface.snap # 0 /\ block.captured > interface.snap
                           \/ block.captured > block.original
           data == ByteRange(m.consumed + 28, block.captured)
           notes == Notes(inconsistent, timestamp)
           p == [section |-> interface.section, interface |-> index, timestamp |-> timestamp,
                 original |-> block.original, data |-> data]
           r == ProcessEnhancedPacket(m, fails)
<1>1. m \in Builders /\ Position(m) /\ Skeleton(m)
  BY SoundTyped
<1>2. /\ ~Legacy /\ IsBlock(block) /\ m.consumed \in Nat /\ file.length \in Nat
      /\ Declared(block) = block.declared /\ Declared(block) \in Nat
  BY <1>1, ReadablePlace
<1>3. /\ block.captured \in Nat /\ block.original \in Nat /\ block.interface \in Nat
      /\ block.ticks \in Nat /\ HasCalls(block) /\ block.declared \in Nat
  BY <1>2 DEF IsBlock
<1>4. r = IF m.current = None THEN Fails(m, "StopMalformed")
          ELSE IF index \notin DOMAIN m.interfaces THEN MissingInterface(m)
          ELSE IF interface.section # m.current.index \/ block.declared < 32 + Padded(block.captured)
               THEN Fails(m, "StopMalformed")
          ELSE Retain(m, p, notes, fails)
  BY DEF ProcessEnhancedPacket
<1>5. m.current # None => m.current.interface_start \in Nat /\ IndexOf(m) = index
  <2>1. m.current # None => m.current.interface_start \in Nat
    BY <1>1, EntriesTyped
  <2>2. m.current # None => IndexOf(m) = m.current.interface_start + 1 + block.interface
    BY DEF IndexOf
  <2> QED BY <1>3, <2>1, <2>2
<1> HIDE DEF r, p, index, notes
<1>6. Retains(m) <=> /\ m.current # None
                     /\ index \in DOMAIN m.interfaces
                     /\ interface.section = m.current.index
                     /\ block.declared >= 32 + Padded(block.captured)
  BY <1>5 DEF Retains
<1>7. Padded(block.captured) \in Nat /\ Padded(block.captured) >= block.captured
  BY <1>3, PaddedCovers
<1>8. CASE m.current = None \/ ( /\ m.current # None /\ index \in DOMAIN m.interfaces
                                 /\ \/ interface.section # m.current.index
                                    \/ block.declared < 32 + Padded(block.captured))
  <2>1. r = Fails(m, "StopMalformed")
    BY <1>4, <1>8
  <2>2. ~Retains(m)
    <3>1. block.declared < 32 + Padded(block.captured) => ~(block.declared >= 32 + Padded(block.captured))
      BY <1>3, <1>7
    <3> QED BY <1>6, <1>8, <3>1
  <2> QED BY <2>1, <2>2, ProcessMalformed DEF r
<1>9. CASE m.current # None /\ index \notin DOMAIN m.interfaces
  <2>1. r = AddDiagnostic(m, "INCONSISTENT_LENGTH", None, BlockRange(m))
    BY <1>4, <1>9 DEF MissingInterface
  <2>2. ~Retains(m)
    BY <1>6, <1>9
  <2>3. Processed(m, r)
    <3>1. Upcoming(m).kind \in {"EPB", "SPB"}
      OBVIOUS
    <3> HIDE DEF block
    <3>2. Processed(m, AddDiagnostic(m, "INCONSISTENT_LENGTH", None, BlockRange(m)))
      BY <2>2, <3>1, SpokenOf
    <3> QED BY <2>1, <3>2
  <2> QED BY <2>3 DEF r
<1>10. CASE /\ m.current # None /\ index \in DOMAIN m.interfaces
            /\ interface.section = m.current.index
            /\ ~(block.declared < 32 + Padded(block.captured))
  <2>1. r = Retain(m, p, notes, fails)
    BY <1>4, <1>10
  <2>2. Retains(m)
    <3>1. block.declared >= 32 + Padded(block.captured)
      BY <1>3, <1>7, <1>10
    <3> QED BY <1>6, <1>10, <3>1
  <2>3. interface \in InterfaceMetadata
    BY <1>1, <1>10, ArenasTyped
  <2>4. timestamp \in Optional(CaptureTimestamp) /\ (timestamp # None => timestamp.resolution = interface.resolution)
    BY <1>3, <2>3, PcapngTimestampTyped
  <2>5. notes \in Seq(ImporterCodes)
    BY NotesTyped DEF notes
  <2>6. data = DataOf(m)
    BY DEF DataOf
  <2>7. /\ data.start = m.consumed + 28 /\ data.length = block.captured
        /\ data \in Ranges /\ End(data) = m.consumed + 28 + block.captured
    <3>1. data.start = m.consumed + 28 /\ data.length = block.captured
      BY DEF ByteRange
    <3>2. data \in Ranges
      BY <1>2, <1>3 DEF ByteRange, Ranges
    <3> QED BY <1>2, <1>3, <3>1, <3>2 DEF End
  <2>8. data.start > m.consumed /\ End(data) <= m.consumed + Declared(block)
    BY <1>2, <1>3, <1>7, <1>10, <2>7
  <2>9. /\ m.current.index \in DOMAIN m.sections
        /\ m.sections[m.current.index].byte_range.start <= m.consumed
    BY <1>1, <1>10 DEF Skeleton, CurrentSection
  <2>10. /\ p.data = data /\ p.section = interface.section /\ p.interface = index
         /\ p.timestamp = timestamp /\ p.original = block.original
    BY DEF p
  <2> HIDE DEF data, timestamp
  <2>11. Retaining(m, p)
    BY <1>3, <1>10, <2>4, <2>6, <2>7, <2>8, <2>9, <2>10 DEF Retaining
  <2>12. Processed(m, Retain(m, p, notes, fails))
    BY <2>2, <2>5, <2>11, RetainProcessed
  <2> QED BY <2>1, <2>12 DEF r
<1> QED BY <1>8, <1>9, <1>10

\* process_simple_packet keeps the builder sound.
LEMMA SimpleProcessed ==
    ASSUME file \in Captures, NEW m, Sound(m), Readable(m), ~m.complete,
           Upcoming(m).kind = "SPB", NEW fails
    PROVE  Processed(m, ProcessSimplePacket(m, fails))
<1> DEFINE block == Upcoming(m)
           index == m.current.interface_start + 1
           interface == m.interfaces[index]
           captured == IF interface.snap = 0 \/ block.original < interface.snap THEN block.original
                       ELSE interface.snap
           data == ByteRange(m.consumed + 12, captured)
           notes == <<>>
           p == [section |-> interface.section, interface |-> index, timestamp |-> None,
                 original |-> block.original, data |-> data]
           r == ProcessSimplePacket(m, fails)
<1>1. m \in Builders /\ Position(m) /\ Skeleton(m)
  BY SoundTyped
<1>2. /\ ~Legacy /\ IsBlock(block) /\ m.consumed \in Nat /\ file.length \in Nat
      /\ Declared(block) = block.declared /\ Declared(block) \in Nat
  BY <1>1, ReadablePlace
<1>3. block.original \in Nat /\ HasCalls(block) /\ block.declared \in Nat
  BY <1>2 DEF IsBlock
<1>4. r = IF m.current = None THEN Fails(m, "StopMalformed")
          ELSE IF index \notin DOMAIN m.interfaces THEN MissingInterface(m)
          ELSE IF interface.section # m.current.index \/ Padded(captured) # block.declared - 16
               THEN Fails(m, "StopMalformed")
          ELSE Retain(m, p, notes, fails)
  BY DEF ProcessSimplePacket
<1>5. m.current # None => m.current.interface_start \in Nat /\ IndexOf(m) = index
  <2>1. m.current # None => m.current.interface_start \in Nat
    BY <1>1, EntriesTyped
  <2>2. m.current # None => IndexOf(m) = m.current.interface_start + 1 + 0
    BY DEF IndexOf
  <2> QED BY <2>1, <2>2
<1>6. m.current # None => data = DataOf(m)
  BY <1>5 DEF DataOf
<1>7. data.length = captured /\ data.start = m.consumed + 12
  BY DEF ByteRange
<1> HIDE DEF r, p, index, captured, data
<1>8. Retains(m) <=> /\ m.current # None
                     /\ index \in DOMAIN m.interfaces
                     /\ interface.section = m.current.index
                     /\ Padded(captured) = block.declared - 16
  BY <1>5, <1>6, <1>7 DEF Retains
<1>9. CASE m.current = None \/ ( /\ m.current # None /\ index \in DOMAIN m.interfaces
                                 /\ \/ interface.section # m.current.index
                                    \/ Padded(captured) # block.declared - 16)
  <2>1. r = Fails(m, "StopMalformed")
    BY <1>4, <1>9
  <2>2. ~Retains(m)
    BY <1>8, <1>9
  <2> QED BY <2>1, <2>2, ProcessMalformed DEF r
<1>10. CASE m.current # None /\ index \notin DOMAIN m.interfaces
  <2>1. r = AddDiagnostic(m, "INCONSISTENT_LENGTH", None, BlockRange(m))
    BY <1>4, <1>10 DEF MissingInterface
  <2>2. ~Retains(m)
    BY <1>8, <1>10
  <2>3. Processed(m, r)
    <3>1. Upcoming(m).kind \in {"EPB", "SPB"}
      OBVIOUS
    <3> HIDE DEF block
    <3>2. Processed(m, AddDiagnostic(m, "INCONSISTENT_LENGTH", None, BlockRange(m)))
      BY <2>2, <3>1, SpokenOf
    <3> QED BY <2>1, <3>2
  <2> QED BY <2>3 DEF r
<1>11. CASE /\ m.current # None /\ index \in DOMAIN m.interfaces
            /\ interface.section = m.current.index
            /\ Padded(captured) = block.declared - 16
  <2>1. r = Retain(m, p, notes, fails)
    BY <1>4, <1>11
  <2>2. Retains(m)
    BY <1>8, <1>11
  <2>3. interface \in InterfaceMetadata
    BY <1>1, <1>11, ArenasTyped
  <2>4. captured \in Nat
    BY <1>3, <2>3 DEF captured, InterfaceMetadata
  <2>5. Padded(captured) \in Nat /\ Padded(captured) >= captured
    BY <2>4, PaddedCovers
  <2>6. data \in Ranges /\ End(data) = m.consumed + 12 + captured
    <3>1. data \in Ranges
      BY <1>2, <2>4 DEF data, ByteRange, Ranges
    <3> QED BY <1>2, <1>7, <2>4, <3>1 DEF End
  <2>7. data.start > m.consumed /\ End(data) <= m.consumed + Declared(block)
    BY <1>2, <1>3, <1>7, <1>11, <2>4, <2>5, <2>6
  <2>8. /\ m.current.index \in DOMAIN m.sections
        /\ m.sections[m.current.index].byte_range.start <= m.consumed
    BY <1>1, <1>11 DEF Skeleton, CurrentSection
  <2>9. /\ p.data = data /\ p.section = interface.section /\ p.interface = index
        /\ p.timestamp = None /\ p.original = block.original
    BY DEF p
  <2>10. None \in Optional(CaptureTimestamp)
    BY DEF Optional
  <2>11. Retaining(m, p)
    BY <1>3, <1>6, <1>7, <1>11, <2>4, <2>6, <2>7, <2>8, <2>9, <2>10 DEF Retaining
  <2>12. notes \in Seq(ImporterCodes)
    OBVIOUS
  <2> HIDE DEF notes
  <2>13. Processed(m, Retain(m, p, notes, fails))
    BY <2>2, <2>11, <2>12, RetainProcessed
  <2> QED BY <2>1, <2>13 DEF r
<1> QED BY <1>9, <1>10, <1>11

\* DatasetBuilder::process: every kind of record keeps the builder sound.
LEMMA RecordProcessed ==
    ASSUME file \in Captures, NEW m, Sound(m), Readable(m), ~m.complete, NEW fails
    PROVE  Processed(m, Process(m, fails))
<1> DEFINE kind == Upcoming(m).kind
<1>1. CASE kind = "Header"
  <2>1. Process(m, fails) = ProcessLegacyHeader(m)
    BY <1>1 DEF Process
  <2> QED BY <1>1, <2>1, HeaderProcessed
<1>2. CASE kind = "Record"
  <2>1. Process(m, fails) = ProcessLegacyPacket(m, fails)
    BY <1>2 DEF Process
  <2> QED BY <1>2, <2>1, LegacyPacketProcessed
<1>3. CASE kind = "SHB"
  <2>1. Process(m, fails) = ProcessSectionHeader(m)
    BY <1>3 DEF Process
  <2> QED BY <1>3, <2>1, SectionProcessed
<1>4. CASE kind = "IDB"
  <2>1. Process(m, fails) = ProcessInterface(m)
    BY <1>4 DEF Process
  <2> QED BY <1>4, <2>1, InterfaceProcessed
<1>5. CASE kind = "EPB"
  <2>1. Process(m, fails) = ProcessEnhancedPacket(m, fails)
    BY <1>5 DEF Process
  <2> QED BY <1>5, <2>1, EnhancedProcessed
<1>6. CASE kind = "SPB"
  <2>1. Process(m, fails) = ProcessSimplePacket(m, fails)
    BY <1>6 DEF Process
  <2> QED BY <1>6, <2>1, SimpleProcessed
<1>7. CASE kind \notin {"Header", "Record", "SHB", "IDB", "EPB", "SPB"}
  <2>1. Process(m, fails) = AddDiagnostic(m, "UNSUPPORTED_BLOCK", None, BlockRange(m))
    BY <1>7 DEF Process
  <2>2. ~Retains(m)
    BY <1>7 DEF Retains
  <2>3. Processed(m, AddDiagnostic(m, "UNSUPPORTED_BLOCK", None, BlockRange(m)))
    BY <1>7, <2>2, SpokenOf
  <2> QED BY <2>1, <2>3
<1> QED BY <1>1, <1>2, <1>3, <1>4, <1>5, <1>6, <1>7

-----------------------------------------------------------------------------
\* The reader stops for good.

\* A builder without an open section may be complete.
LEMMA SkeletonCompleted ==
    ASSUME NEW m \in Builders, NEW n \in Builders, Skeleton(m), m.current = None, n.current = None,
           n.complete, n.sections = m.sections, n.interfaces = m.interfaces,
           n.packets = m.packets, n.strings = m.strings
    PROVE  Skeleton(n)
<1>1. \A s \in DOMAIN m.sections :
          /\ SectionEnd(n, s) = SectionEnd(m, s)
          /\ InterfaceStart(n, s) = InterfaceStart(m, s)
          /\ InterfaceEnd(n, s) = InterfaceEnd(m, s)
  BY DEF SectionEnd, InterfaceStart, InterfaceEnd
<1>2. Sections(n)
  BY <1>1 DEF Skeleton, Sections
<1>3. Interfaces(n)
  <2> SUFFICES ASSUME NEW e \in DOMAIN m.interfaces
               PROVE  LET interface == m.interfaces[e]
                          section == interface.section
                      IN  /\ section \in DOMAIN n.sections
                          /\ \A s \in DOMAIN n.sections :
                                e \in InterfaceStart(n, s) + 1 .. InterfaceEnd(n, s) <=> s = section
                          /\ interface.section_index = e - InterfaceStart(n, section)
                          /\ interface.byte_range.start >= n.sections[section].byte_range.start
                          /\ End(interface.byte_range) <= SectionEnd(n, section)
                          /\ interface.name # None => HasString(n, interface.name)
    BY DEF Interfaces
  <2>1. m.interfaces[e].section \in DOMAIN m.sections
    BY DEF Skeleton, Interfaces
  <2> QED BY <1>1, <2>1 DEF Skeleton, Interfaces, HasString
<1>4. \A i \in DOMAIN n.packets : PacketWhole(n, n.packets[i])
  <2> SUFFICES ASSUME NEW i \in DOMAIN m.packets PROVE PacketWhole(n, m.packets[i])
    OBVIOUS
  <2>1. PacketWhole(m, m.packets[i])
    BY DEF Skeleton
  <2> QED BY <1>1, <2>1 DEF PacketWhole
<1> QED BY <1>2, <1>3, <1>4 DEF Skeleton, CurrentSection

\* The code of the diagnostic with which the reader stops.
StopCodes == {"TRUNCATED_RECORD", "INVALID_CAPTURE_HEADER"}

\* A reader that stops closes its section.
LEMMA CompletedTyped ==
    ASSUME NEW b \in Builders, NEW end \in Nat,
           b.current # None => /\ b.current.index \in DOMAIN b.sections
                               /\ b.sections[b.current.index].byte_range.start = b.current.start,
           NEW c, c = CloseSectionAt([b EXCEPT !.complete = TRUE], end)
    PROVE  /\ c \in Builders /\ c.current = None /\ c.complete
           /\ b.current = None => c.sections = b.sections
           /\ b.current # None =>
                 c.sections = [b.sections EXCEPT ![b.current.index] =
                     [byte_range |-> ByteRange(b.current.start, end - b.current.start),
                      interfaces |-> SpanFrom(b.current.interface_start, b.interfaces)]]
           /\ Len(c.sections) = Len(b.sections) /\ DOMAIN c.sections = DOMAIN b.sections
           /\ \A s \in DOMAIN b.sections :
                 c.sections[s].byte_range.start = b.sections[s].byte_range.start
           /\ c.at = b.at /\ c.consumed = b.consumed /\ c.records = b.records
           /\ c.limits = b.limits /\ c.initialized = b.initialized
           /\ c.started_at = b.started_at /\ c.ended_at = b.ended_at
           /\ c.interfaces = b.interfaces /\ c.packets = b.packets /\ c.layers = b.layers
           /\ c.fields = b.fields /\ c.field_children = b.field_children
           /\ c.diagnostics = b.diagnostics /\ c.strings = b.strings
<1> DEFINE e == [b EXCEPT !.complete = TRUE]
<1>1. /\ e \in Builders /\ e.complete = TRUE
      /\ e.at = b.at /\ e.consumed = b.consumed /\ e.records = b.records
      /\ e.limits = b.limits /\ e.initialized = b.initialized /\ e.current = b.current
      /\ e.started_at = b.started_at /\ e.ended_at = b.ended_at /\ e.sections = b.sections
      /\ e.interfaces = b.interfaces /\ e.packets = b.packets /\ e.layers = b.layers
      /\ e.fields = b.fields /\ e.field_children = b.field_children
      /\ e.diagnostics = b.diagnostics /\ e.strings = b.strings
  BY DEF Builders
<1>2. c = CloseSectionAt(e, end)
  OBVIOUS
<1> HIDE DEF e
<1>3. e.current # None => /\ e.current.index \in DOMAIN e.sections
                          /\ e.sections[e.current.index].byte_range.start = e.current.start
  BY <1>1
<1>4. /\ c \in Builders /\ c.current = None
      /\ e.current = None => c = e
      /\ e.current # None =>
            c.sections = [e.sections EXCEPT ![e.current.index] =
                [byte_range |-> ByteRange(e.current.start, end - e.current.start),
                 interfaces |-> SpanFrom(e.current.interface_start, e.interfaces)]]
      /\ Len(c.sections) = Len(e.sections) /\ DOMAIN c.sections = DOMAIN e.sections
      /\ \A s \in DOMAIN e.sections :
            c.sections[s].byte_range.start = e.sections[s].byte_range.start
      /\ c.at = e.at /\ c.consumed = e.consumed /\ c.records = e.records
      /\ c.complete = e.complete /\ c.limits = e.limits /\ c.initialized = e.initialized
      /\ c.started_at = e.started_at /\ c.ended_at = e.ended_at
      /\ c.interfaces = e.interfaces /\ c.packets = e.packets /\ c.layers = e.layers
      /\ c.fields = e.fields /\ c.field_children = e.field_children
      /\ c.diagnostics = e.diagnostics /\ c.strings = e.strings
  BY <1>1, <1>2, <1>3, ClosedTyped
<1>5. /\ b.current = None => c.sections = b.sections
      /\ b.current # None =>
            c.sections = [b.sections EXCEPT ![b.current.index] =
                [byte_range |-> ByteRange(b.current.start, end - b.current.start),
                 interfaces |-> SpanFrom(b.current.interface_start, b.interfaces)]]
  BY <1>1, <1>4
<1>6. /\ Len(c.sections) = Len(b.sections) /\ DOMAIN c.sections = DOMAIN b.sections
      /\ \A s \in DOMAIN b.sections :
            c.sections[s].byte_range.start = b.sections[s].byte_range.start
  <2>1. /\ Len(c.sections) = Len(e.sections) /\ DOMAIN c.sections = DOMAIN e.sections
        /\ \A s \in DOMAIN e.sections :
              c.sections[s].byte_range.start = e.sections[s].byte_range.start
    BY <1>4
  <2>2. e.sections = b.sections
    BY <1>1
  <2> QED BY <2>1, <2>2
<1>7. /\ c \in Builders /\ c.current = None /\ c.complete
      /\ c.at = b.at /\ c.consumed = b.consumed /\ c.records = b.records
      /\ c.limits = b.limits /\ c.initialized = b.initialized
      /\ c.started_at = b.started_at /\ c.ended_at = b.ended_at
      /\ c.interfaces = b.interfaces /\ c.packets = b.packets /\ c.layers = b.layers
      /\ c.fields = b.fields /\ c.field_children = b.field_children
      /\ c.diagnostics = b.diagnostics /\ c.strings = b.strings
  BY <1>1, <1>4
<1> QED BY <1>5, <1>6, <1>7

\* A builder that ends with a diagnostic of what is left, its last section closed, is
\* sound.
LEMMA SoundCompleted ==
    ASSUME file \in Captures, NEW m, Sound(m), ~m.complete, Pending(m) = {},
           NEW b, Annotated(m, b),
           \A g \in Added(m.diagnostics, b.diagnostics) :
              b.diagnostics[g].scope = None /\ b.diagnostics[g].code \in StopCodes,
           Left(m) > 0 => \E g \in DOMAIN b.diagnostics :
                             /\ b.diagnostics[g].scope = None
                             /\ b.diagnostics[g].byte_range.start = m.consumed
                             /\ b.diagnostics[g].code \in StopCodes,
           NEW end \in Nat, m.consumed <= end, end <= file.length,
           NEW c, c = CloseSectionAt([b EXCEPT !.complete = TRUE], end)
    PROVE  Sound(c) /\ c.complete /\ SamePlace(m, c)
<1>1. /\ m \in Builders /\ WithinLimits(m) /\ Position(m) /\ Skeleton(m) /\ Trees(m) /\ Told(m)
  BY SoundTyped
<1>2. b \in Builders /\ Ceilings(b) /\ Kept(m, b) /\ Steady(m, b) /\ Grows(m.strings, b.strings)
      /\ Grows(m.diagnostics, b.diagnostics)
  BY DEF Annotated, Kept
<1>3. Skeleton(b) /\ Trees(b)
  BY <1>1, <1>2, SkeletonAnnotated, TreesAnnotated
<1>4. b.current # None => /\ b.current.index \in DOMAIN b.sections
                          /\ b.sections[b.current.index].byte_range.start = b.current.start
  BY <1>3 DEF Skeleton, CurrentSection
<1>7. /\ c \in Builders /\ c.current = None /\ c.complete
      /\ b.current = None => c.sections = b.sections
      /\ b.current # None =>
            c.sections = [b.sections EXCEPT ![b.current.index] =
                [byte_range |-> ByteRange(b.current.start, end - b.current.start),
                 interfaces |-> SpanFrom(b.current.interface_start, b.interfaces)]]
      /\ Len(c.sections) = Len(b.sections) /\ DOMAIN c.sections = DOMAIN b.sections
      /\ \A s \in DOMAIN b.sections :
            c.sections[s].byte_range.start = b.sections[s].byte_range.start
      /\ c.at = b.at /\ c.consumed = b.consumed /\ c.records = b.records
      /\ c.limits = b.limits /\ c.initialized = b.initialized
      /\ c.started_at = b.started_at /\ c.ended_at = b.ended_at
      /\ c.interfaces = b.interfaces /\ c.packets = b.packets /\ c.layers = b.layers
      /\ c.fields = b.fields /\ c.field_children = b.field_children
      /\ c.diagnostics = b.diagnostics /\ c.strings = b.strings
  BY <1>2, <1>4, CompletedTyped
<1>8. /\ m.consumed \in Nat /\ file.length \in Nat
  BY <1>1, EntriesTyped, FileTyped
<1>9. /\ c.at = m.at /\ c.consumed = m.consumed /\ c.records = m.records /\ c.complete
      /\ c.limits = m.limits /\ c.initialized = m.initialized
      /\ c.interfaces = m.interfaces /\ c.packets = m.packets
      /\ c.diagnostics = b.diagnostics /\ c.strings = b.strings
      /\ Len(c.sections) = Len(m.sections) /\ DOMAIN c.sections = DOMAIN m.sections
      /\ \A s \in DOMAIN m.sections :
            c.sections[s].byte_range.start = m.sections[s].byte_range.start
      /\ b.sections = m.sections /\ b.current = m.current /\ b.interfaces = m.interfaces
      /\ b.packets = m.packets /\ b.limits = m.limits
  <2>1. /\ b.at = m.at /\ b.consumed = m.consumed /\ b.records = m.records
        /\ b.limits = m.limits /\ b.initialized = m.initialized /\ b.current = m.current
        /\ b.sections = m.sections /\ b.interfaces = m.interfaces /\ b.packets = m.packets
    BY <1>2 DEF Steady
  <2>2. /\ Len(c.sections) = Len(m.sections) /\ DOMAIN c.sections = DOMAIN m.sections
        /\ \A s \in DOMAIN m.sections :
              c.sections[s].byte_range.start = m.sections[s].byte_range.start
    <3>1. /\ Len(c.sections) = Len(b.sections) /\ DOMAIN c.sections = DOMAIN b.sections
          /\ \A s \in DOMAIN b.sections :
                c.sections[s].byte_range.start = b.sections[s].byte_range.start
      BY <1>7
    <3>2. b.sections = m.sections
      BY <2>1
    <3> QED BY <3>1, <3>2
  <2>3. /\ c.at = b.at /\ c.consumed = b.consumed /\ c.records = b.records /\ c.complete
        /\ c.limits = b.limits /\ c.initialized = b.initialized
        /\ c.interfaces = b.interfaces /\ c.packets = b.packets
        /\ c.diagnostics = b.diagnostics /\ c.strings = b.strings
    BY <1>7
  <2> QED BY <2>1, <2>2, <2>3
<1>10. Skeleton(c)
  <2>1. CASE b.current = None
    <3> QED BY <1>2, <1>3, <1>7, <2>1, SkeletonCompleted
  <2>2. CASE b.current # None
    <3>1. c.sections = [b.sections EXCEPT ![b.current.index] =
                [byte_range |-> ByteRange(b.current.start, end - b.current.start),
                 interfaces |-> SpanFrom(b.current.interface_start, b.interfaces)]]
      BY <1>7, <2>2
    <3>2. /\ b.consumed <= end /\ c.consumed = b.consumed /\ c.interfaces = b.interfaces
          /\ c.packets = b.packets /\ c.strings = b.strings
      BY <1>7, <1>9
    <3>3. c \in Builders /\ c.current = None /\ c.complete
      BY <1>7
    <3> QED BY <1>2, <1>3, <1>8, <2>2, <3>1, <3>2, <3>3, SkeletonClosed
  <2> QED BY <2>1, <2>2
<1>11. Trees(c)
  BY <1>2, <1>3, <1>7, TreesElsewhere
<1>12. WithinLimits(c)
  <2>1. /\ Len(c.sections) <= c.limits["Sections"] /\ Len(c.interfaces) <= c.limits["Interfaces"]
        /\ Len(c.packets) <= c.limits["Packets"]
    BY <1>1, <1>9 DEF WithinLimits
  <2>2. Ceilings(c)
    BY <1>2, <1>7 DEF Ceilings
  <2> QED BY <2>1, <2>2 DEF WithinLimits, Ceilings
<1>13. Position(c)
  <2>1. Legacy => c.sections = m.sections
    <3>1. Legacy => b.current = None
      BY <1>3 DEF Skeleton, CurrentSection
    <3> QED BY <1>7, <1>9, <3>1
  <2>2. Legacy => /\ c.initialized <=> c.at > 1
                  /\ c.at = 1 => c.sections = <<>> /\ c.interfaces = <<>>
                  /\ c.at > 1 => /\ Len(c.sections) = 1 /\ Len(c.interfaces) = 1
                                 /\ c.sections[1].byte_range = ByteRange(0, file.length)
    <3> SUFFICES ASSUME Legacy
                 PROVE  /\ m.initialized <=> m.at > 1
                        /\ m.at = 1 => m.sections = <<>> /\ m.interfaces = <<>>
                        /\ m.at > 1 => /\ Len(m.sections) = 1 /\ Len(m.interfaces) = 1
                                       /\ m.sections[1].byte_range = ByteRange(0, file.length)
      BY <1>9, <2>1
    <3> QED BY <1>1 DEF Position
  <2> QED BY <1>1, <1>7, <1>9, <2>2 DEF Position
<1>14. Held(c)
  <2>1. Len(m.packets) \in Nat /\ m.diagnostics \in Seq(DiagnosticRecord) /\ b.diagnostics \in Seq(DiagnosticRecord)
    BY <1>1, <1>2, ArenasTyped
  <2>2. Len(m.packets) + 1 \in Nat /\ Len(m.packets) + 1 # None
    <3>1. Len(m.packets) + 1 \in Nat
      BY <2>1
    <3> QED BY <3>1, NoneAssumption
  <2>3. \A g \in DOMAIN b.diagnostics : \/ g \in DOMAIN m.diagnostics /\ b.diagnostics[g] = m.diagnostics[g]
                                        \/ b.diagnostics[g].scope = None
    BY <1>2, <2>1, OldAndNew
  <2>4. \A g \in DOMAIN m.diagnostics : m.diagnostics[g].scope # Len(m.packets) + 1
    BY DEF Pending
  <2>5. Pending(c) = {}
    BY <1>9, <2>2, <2>3, <2>4 DEF Pending
  <2> QED BY <2>5 DEF Held
<1>15. Extends(m, c)
  <2>1. /\ Grows(m.interfaces, c.interfaces) /\ Added(m.interfaces, c.interfaces) = {}
        /\ Grows(m.packets, c.packets) /\ Added(m.packets, c.packets) = {}
    BY <1>1, <1>9, ArenasTyped, GrowsItself
  <2>2. Added(m.sections, c.sections) = {} /\ Len(m.sections) <= Len(c.sections)
    <3>1. Len(m.sections) \in Nat
      BY <1>1, ArenasTyped
    <3> QED BY <1>9, <3>1 DEF Added
  <2>3. \A g \in Added(m.diagnostics, c.diagnostics) :
            c.diagnostics[g].code \notin {"INCONSISTENT_LENGTH", "UNSUPPORTED_BLOCK"}
    BY <1>9 DEF StopCodes
  <2>4. Grows(m.diagnostics, c.diagnostics)
    BY <1>2, <1>9
  <2> QED BY <1>9, <2>1, <2>2, <2>3, <2>4 DEF Extends
<1>16. Told(c)
  <2>1. \A g \in Added(m.diagnostics, c.diagnostics) :
            ~ /\ c.diagnostics[g].scope = None
              /\ c.diagnostics[g].code \in {"INCONSISTENT_LENGTH", "UNSUPPORTED_BLOCK"}
    BY <1>9 DEF StopCodes
  <2>2. Left(c) > 0 =>
            \E g \in DOMAIN c.diagnostics :
               /\ c.diagnostics[g].scope = None
               /\ c.diagnostics[g].byte_range.start = c.consumed
               /\ c.diagnostics[g].code \in {"TRUNCATED_RECORD", "INVALID_CAPTURE_HEADER"}
    BY <1>9 DEF Left, StopCodes
  <2> QED BY <1>1, <1>7, <1>9, <1>15, <2>1, <2>2, ToldStays, ZenonT(40)
<1> QED BY <1>7, <1>9, <1>10, <1>11, <1>12, <1>13, <1>14, <1>16 DEF Sound, Whole, SamePlace

\* Either the reader has stopped, or its builder is as it was.
Stopped(m, r) ==
    /\ r \in Results
    /\ r.out = "Continue" => Sound(r.b) /\ SamePlace(m, r.b)
    /\ r.out # "Continue" => r.b = m /\ r.out \in {"Diagnostics", "StringBytes"}

\* stop_truncated and stop_malformed: the end of an import that is damaged.
LEMMA StopStopped ==
    ASSUME file \in Captures, NEW m, Sound(m), ~m.complete, Pending(m) = {},
           NEW code \in StopCodes, NEW evidence \in Ranges, IsWithin(evidence, file.length),
           evidence.start = m.consumed, NEW end \in Nat, m.consumed <= end, end <= file.length
    PROVE  Stopped(m, Stop(m, code, evidence, end))
<1> DEFINE d == AddDiagnostic(m, code, None, evidence)
           c == CloseSectionAt([d.b EXCEPT !.complete = TRUE], end)
           r == Stop(m, code, evidence, end)
<1>1. m \in Builders /\ Annotated(m, m)
  BY SoundTyped, AnnotatedItself
<1>2. code \in Texts /\ None \in Optional(Nat) /\ None \in {None, Len(m.packets) + 1}
  BY DEF Texts, ImporterCodes, StopCodes, Optional
<1>3. Noted(m, code, None, evidence, d)
  BY <1>1, <1>2, DiagnosticAdded
<1>4. r = IF d.out # "Continue" THEN d ELSE Continue(c)
  BY DEF Stop, Close
<1> HIDE DEF d, r
<1>5. /\ Annotated(m, d.b)
      /\ d.out # "Continue" => d.b = m
      /\ d.out = "Continue" =>
            \E e \in DiagnosticRecord :
               /\ d.b.diagnostics = Append(m.diagnostics, e)
               /\ e.code = code /\ e.scope = None /\ e.byte_range = evidence
  BY <1>1, <1>2, <1>3, AnnotatedNoted
<1>6. CASE d.out # "Continue"
  <2>1. r = d /\ d \in Results /\ d.out \in {"Diagnostics", "StringBytes"}
    BY <1>3, <1>4, <1>6 DEF Noted
  <2>2. Stopped(m, r)
    BY <1>5, <1>6, <2>1 DEF Stopped
  <2> QED BY <2>2 DEF r
<1>7. CASE d.out = "Continue"
  <2>1. PICK e \in DiagnosticRecord :
               /\ d.b.diagnostics = Append(m.diagnostics, e)
               /\ e.code = code /\ e.scope = None /\ e.byte_range = evidence
    BY <1>5, <1>7
  <2>2. m.diagnostics \in Seq(DiagnosticRecord) /\ Len(m.diagnostics) \in Nat
        /\ d.b.diagnostics \in Seq(DiagnosticRecord)
    BY <1>1, <1>5, ArenasTyped DEF Annotated
  <2>3. /\ Len(d.b.diagnostics) = Len(m.diagnostics) + 1
        /\ d.b.diagnostics[Len(m.diagnostics) + 1] = e
    BY <2>1, <2>2, GrowsAppended
  <2>4. Added(m.diagnostics, d.b.diagnostics) = {Len(m.diagnostics) + 1}
        /\ Len(m.diagnostics) + 1 \in DOMAIN d.b.diagnostics
    BY <2>2, <2>3 DEF Added
  <2>5. \A g \in Added(m.diagnostics, d.b.diagnostics) :
              d.b.diagnostics[g].scope = None /\ d.b.diagnostics[g].code \in StopCodes
    BY <2>1, <2>3, <2>4
  <2>6. \E g \in DOMAIN d.b.diagnostics :
                             /\ d.b.diagnostics[g].scope = None
                             /\ d.b.diagnostics[g].byte_range.start = m.consumed
                             /\ d.b.diagnostics[g].code \in StopCodes
    BY <2>1, <2>3, <2>4
  <2>7. Sound(c) /\ c.complete /\ SamePlace(m, c)
    BY <1>5, <2>5, <2>6, SoundCompleted
  <2> HIDE DEF c
  <2>8. r = Continue(c)
    BY <1>4, <1>7
  <2>9. r \in Results /\ r.b = c /\ r.out = "Continue"
    BY <2>7, <2>8 DEF Sound, Continue, Results, Outcomes
  <2>10. Stopped(m, r)
    BY <2>7, <2>9 DEF Stopped
  <2> QED BY <2>10 DEF r
<1> QED BY <1>6, <1>7

\* The reader is within the file.
LEMMA PlaceTyped ==
    ASSUME file \in Captures, NEW m, Sound(m)
    PROVE  /\ m.consumed \in Nat /\ m.records \in Nat /\ m.at \in Nat /\ file.length \in Nat
           /\ m.consumed <= file.length
           /\ Left(m) \in Nat /\ m.consumed + Left(m) = file.length
<1>1. m \in Builders /\ Position(m)
  BY SoundTyped
<1>2. m.consumed \in Nat /\ m.records \in Nat /\ m.at \in Nat
  BY <1>1 DEF Builders
<1>3. file.length \in Nat
  BY FileTyped
<1>4. m.consumed <= file.length
  BY <1>1 DEF Position
<1> QED BY <1>2, <1>3, <1>4 DEF Left

\* stop_truncated leaves a sound builder, complete or without room for the diagnostic.
LEMMA TruncatedStopped ==
    ASSUME file \in Captures, NEW m, Sound(m), ~m.complete, Pending(m) = {}
    PROVE  Stopped(m, StopTruncated(m))
<1> DEFINE evidence == ByteRange(m.consumed, Left(m))
<1>1. /\ m.consumed \in Nat /\ file.length \in Nat /\ m.consumed <= file.length
      /\ Left(m) \in Nat /\ m.consumed + Left(m) = file.length
  BY PlaceTyped
<1>2. evidence \in Ranges /\ evidence.start = m.consumed /\ IsWithin(evidence, file.length)
  BY <1>1 DEF ByteRange, Ranges, IsWithin, End
<1>3. "TRUNCATED_RECORD" \in StopCodes
  BY DEF StopCodes
<1> HIDE DEF evidence
<1>4. Stopped(m, Stop(m, "TRUNCATED_RECORD", evidence, file.length))
  BY <1>1, <1>2, <1>3, StopStopped
<1> QED BY <1>4 DEF StopTruncated, evidence

\* stop_malformed leaves a sound builder, complete or without room for the diagnostic.
LEMMA MalformedStopped ==
    ASSUME file \in Captures, NEW m, Sound(m), ~m.complete, Pending(m) = {}, NEW parsed \in Nat
    PROVE  Stopped(m, StopMalformed(m, parsed))
<1> DEFINE count == IF parsed < Left(m) THEN parsed ELSE Left(m)
           evidence == ByteRange(m.consumed, count)
<1>1. /\ m.consumed \in Nat /\ file.length \in Nat /\ m.consumed <= file.length
      /\ Left(m) \in Nat /\ m.consumed + Left(m) = file.length
  BY PlaceTyped
<1>2. count \in Nat /\ count <= Left(m)
  BY <1>1
<1> HIDE DEF count
<1>3. evidence \in Ranges /\ evidence.start = m.consumed /\ IsWithin(evidence, file.length)
  BY <1>1, <1>2 DEF ByteRange, Ranges, IsWithin, End
<1>4. "INVALID_CAPTURE_HEADER" \in StopCodes
  BY DEF StopCodes
<1> HIDE DEF evidence
<1>5. Stopped(m, Stop(m, "INVALID_CAPTURE_HEADER", evidence, m.consumed))
  BY <1>1, <1>3, <1>4, StopStopped
<1> QED BY <1>5 DEF StopMalformed, evidence, count

\* The end of the file leaves a sound builder.
LEMMA EndStopped ==
    ASSUME file \in Captures, NEW m, Sound(m), ~m.complete, Pending(m) = {}
    PROVE  Stopped(m, AtEndOfFile(m))
<1>1. CASE ~SectionBoundaryMatches(m, file.length)
  <2>1. AtEndOfFile(m) = StopMalformed(m, 0)
    BY <1>1 DEF AtEndOfFile
  <2> QED BY <2>1, MalformedStopped
<1>2. CASE SectionBoundaryMatches(m, file.length) /\ Left(m) > 0
  <2>1. AtEndOfFile(m) = StopTruncated(m)
    BY <1>2 DEF AtEndOfFile
  <2> QED BY <2>1, TruncatedStopped
<1>3. CASE SectionBoundaryMatches(m, file.length) /\ ~(Left(m) > 0)
  <2> DEFINE c == CloseSectionAt([m EXCEPT !.complete = TRUE], file.length)
  <2>1. AtEndOfFile(m) = Continue(c)
    BY <1>3 DEF AtEndOfFile
  <2>2. Annotated(m, m) /\ m \in Builders
    BY AnnotatedItself, SoundTyped
  <2>3. Added(m.diagnostics, m.diagnostics) = {}
    BY <2>2, ArenasTyped, GrowsItself
  <2>4. file.length \in Nat /\ m.consumed <= file.length
    BY PlaceTyped
  <2>5. Sound(c) /\ c.complete /\ SamePlace(m, c)
    BY <1>3, <2>2, <2>3, <2>4, SoundCompleted
  <2> HIDE DEF c
  <2>6. Continue(c) \in Results /\ Continue(c).b = c /\ Continue(c).out = "Continue"
    BY <2>5 DEF Sound, Continue, Results, Outcomes
  <2>7. Stopped(m, Continue(c))
    BY <2>5, <2>6 DEF Stopped
  <2> QED BY <2>1, <2>7
<1> QED BY <1>1, <1>2, <1>3

-----------------------------------------------------------------------------
\* The loop of a step.

\* What has been scanned of the options of a block.
IsScan(f, start, options, end, n) ==
    f = [i \in 0 .. n |-> IF i = 0 THEN start ELSE ScanItem(f[i - 1], options[i], end)]

\* The prevalidation of options is a function of their number: there is one for any number.
LEMMA ScansExist ==
    ASSUME NEW start, NEW options, NEW end, NEW N \in Nat
    PROVE  \E f : IsScan(f, start, options, end, N)
<1> DEFINE T == {n \in Nat : \E f : IsScan(f, start, options, end, n)}
<1>1. 0 \in T
  <2>1. IsScan([i \in 0 .. 0 |-> start], start, options, end, 0)
    BY DEF IsScan
  <2> QED BY <2>1
<1>2. ASSUME NEW n \in Nat, n \in T PROVE n + 1 \in T
  <2>1. PICK f : IsScan(f, start, options, end, n)
    BY <1>2
  <2> DEFINE g == [i \in 0 .. n + 1 |-> IF i = n + 1 THEN ScanItem(f[n], options[n + 1], end) ELSE f[i]]
  <2>2. \A i \in 0 .. n : f[i] = IF i = 0 THEN start ELSE ScanItem(f[i - 1], options[i], end)
    BY <2>1 DEF IsScan
  <2>3. ASSUME NEW i \in 0 .. n + 1
        PROVE  g[i] = IF i = 0 THEN start ELSE ScanItem(g[i - 1], options[i], end)
    <3>1. CASE i = n + 1
      BY <3>1
    <3>2. CASE i # n + 1
      <4>1. i \in 0 .. n /\ (i # 0 => i - 1 \in 0 .. n /\ i - 1 # n + 1)
        BY <3>2
      <4>2. g[i] = f[i] /\ (i # 0 => g[i - 1] = f[i - 1])
        BY <3>2, <4>1
      <4> QED BY <2>2, <4>1, <4>2
    <3> QED BY <3>1, <3>2
  <2>4. IsScan(g, start, options, end, n + 1)
    BY <2>3 DEF IsScan
  <2> QED BY <2>4
<1>3. Nat \subseteq T
  <2> HIDE DEF T
  <2> QED BY <1>1, <1>2, Induction
<1> QED BY <1>3

ScanOutcomes == {"Continue", "InvalidHeader", "ItemsPerBlock"}

Scanned(s, N) ==
    /\ \E cursor : s = [cursor |-> cursor, items |-> s.items, out |-> s.out]
    /\ s.items \in 0 .. N
    /\ s.out \in ScanOutcomes

\* checked_decoded_item: the items of a block stay under their ceiling.
LEMMA ScanItemBounded ==
    ASSUME NEW N \in Nat, Limits.ItemsPerBlock = N, NEW scan, Scanned(scan, N), NEW item, NEW end
    PROVE  Scanned(ScanItem(scan, item, end), N)
<1> DEFINE header == scan.cursor + 4
           next == header + Padded(item.length)
           s == ScanItem(scan, item, end)
           refused == [scan EXCEPT !.out = "InvalidHeader"]
           full == [scan EXCEPT !.out = "ItemsPerBlock"]
           out == IF next > end \/ (item.code = "EndOfNames" /\ item.length # 0)
                  THEN "InvalidHeader" ELSE "Continue"
           after == [cursor |-> next, items |-> scan.items + 1, out |-> out]
<1>1. \/ s = scan
      \/ s = refused
      \/ s = full
      \/ s = after /\ ~(scan.items >= N)
  BY DEF ScanItem
<1>2. PICK cursor : scan = [cursor |-> cursor, items |-> scan.items, out |-> scan.out]
  BY DEF Scanned
<1>3. scan.items \in 0 .. N /\ scan.out \in ScanOutcomes
  BY DEF Scanned
<1>4. Scanned(refused, N)
  <2>1. refused = [cursor |-> cursor, items |-> scan.items, out |-> "InvalidHeader"]
    BY <1>2
  <2> HIDE DEF refused
  <2> QED BY <1>3, <2>1 DEF Scanned, ScanOutcomes
<1>5. Scanned(full, N)
  <2>1. full = [cursor |-> cursor, items |-> scan.items, out |-> "ItemsPerBlock"]
    BY <1>2
  <2> HIDE DEF full
  <2> QED BY <1>3, <2>1 DEF Scanned, ScanOutcomes
<1>6. ~(scan.items >= N) => Scanned(after, N)
  <2>1. after.cursor = next /\ after.items = scan.items + 1 /\ after.out = out
        /\ after = [cursor |-> next, items |-> after.items, out |-> after.out]
    OBVIOUS
  <2>2. out \in ScanOutcomes
    BY DEF ScanOutcomes
  <2> HIDE DEF after, next, out
  <2> QED BY <1>3, <2>1, <2>2 DEF Scanned
<1> HIDE DEF s, refused, full, after
<1>7. Scanned(s, N)
  BY <1>1, <1>4, <1>5, <1>6
<1> QED BY <1>7 DEF s

\* prevalidate_pcapng_block_bytes counts no more items than a block may have.
LEMMA PrevalidateBounded ==
    ASSUME file \in Captures, NEW block, IsBlock(block)
    PROVE  /\ Prevalidate(block).items \in 0 .. Limits.ItemsPerBlock
           /\ Prevalidate(block).out \in ScanOutcomes
<1> DEFINE N == Limits.ItemsPerBlock
           end == block.declared - 4
           start == [cursor |-> OptionsStart(block), items |-> 0, out |-> "Continue"]
           endless == block.kind = "NRB" /\ \A i \in DOMAIN block.options :
                                               block.options[i].code # "EndOfNames"
           options == block.options
           P(f) == f = [n \in 0 .. Len(block.options) |->
                           IF n = 0 THEN start ELSE ScanItem(f[n - 1], block.options[n], end)]
           scanned == CHOOSE f : P(f)
           scan == scanned[Len(block.options)]
           refused == [items |-> 0, out |-> "InvalidHeader"]
           r == Prevalidate(block)
<1>1. N \in Nat
  BY FileTyped DEF LimitKinds
<1>2. Len(options) \in Nat
  BY DEF IsBlock, IsSequence
<1>3. IsScan(scanned, start, options, end, Len(options))
  <2>1. \E f : P(f)
    <3>1. PICK f : IsScan(f, start, options, end, Len(options))
      BY <1>2, ScansExist
    <3>2. P(f)
      BY <3>1 DEF IsScan
    <3> QED BY <3>2
  <2>2. P(scanned)
    BY <2>1
  <2> HIDE DEF scanned
  <2> QED BY <2>2 DEF IsScan
<1>4. \/ r = refused
      \/ r = [items |-> 0, out |-> "Continue"]
      \/ r = [items |-> scan.items, out |-> scan.out]
  BY DEF Prevalidate
<1>5. Scanned(start, N)
  <2>1. start.items = 0 /\ start.out = "Continue"
        /\ \E cursor : start = [cursor |-> cursor, items |-> start.items, out |-> start.out]
    OBVIOUS
  <2> HIDE DEF start
  <2> QED BY <1>1, <2>1 DEF Scanned, ScanOutcomes
<1> HIDE DEF scanned, start, options, r, N, end
<1>6. Scanned(scanned[Len(options)], N)
  <2> DEFINE T == {n \in Nat : n <= Len(options) => Scanned(scanned[n], N)}
  <2>1. \A i \in 0 .. Len(options) :
            scanned[i] = IF i = 0 THEN start ELSE ScanItem(scanned[i - 1], options[i], end)
    BY <1>3 DEF IsScan
  <2>2. 0 \in T
    BY <1>2, <1>5, <2>1
  <2>3. ASSUME NEW n \in Nat, n \in T PROVE n + 1 \in T
    <3> SUFFICES ASSUME n + 1 <= Len(options) PROVE Scanned(scanned[n + 1], N)
      OBVIOUS
    <3>1. n + 1 \in 0 .. Len(options) /\ n + 1 # 0 /\ (n + 1) - 1 = n /\ n <= Len(options)
      BY <1>2
    <3>2. scanned[n + 1] = ScanItem(scanned[n], options[n + 1], end) /\ Scanned(scanned[n], N)
      BY <2>1, <2>3, <3>1
    <3>3. Limits.ItemsPerBlock = N
      BY DEF N
    <3> QED BY <1>1, <3>2, <3>3, ScanItemBounded
  <2>4. Nat \subseteq T
    <3> HIDE DEF T
    <3> QED BY <2>2, <2>3, Induction
  <2> QED BY <1>2, <2>4
<1>7. scan.items \in 0 .. N /\ scan.out \in ScanOutcomes
  BY <1>6 DEF Scanned, options
<1>8. r.items \in 0 .. N /\ r.out \in ScanOutcomes
  BY <1>1, <1>4, <1>7 DEF ScanOutcomes
<1> QED BY <1>8 DEF r, N

\* Where the length of a record can be read there is one.
LEMMA RecordFound ==
    ASSUME file \in Captures, NEW m, Sound(m), ~NoLengthHint(m)
    PROVE  m.at \in 1 .. Len(file.blocks) /\ Declared(Upcoming(m)) \in Nat
<1>1. /\ m.at \in 1 .. Len(file.blocks) + 1 /\ m.consumed = Offset(m.at)
      /\ (Legacy => (m.initialized <=> m.at > 1))
      /\ ~Legacy => \A i \in 1 .. m.at - 1 : ~BadLength(file.blocks[i])
  BY SoundTyped DEF Position
<1>2. /\ Len(file.blocks) \in Nat /\ Len(file.blocks) >= 1
      /\ \A i \in 1 .. Len(file.blocks) : Declared(file.blocks[i]) \in Nat
      /\ Legacy => file.length - Offset(Len(file.blocks) + 1) < LegacyHeaderLength
      /\ ~Legacy => \/ file.length - Offset(Len(file.blocks) + 1) < 12
                    \/ BadLength(file.blocks[Len(file.blocks)])
  BY FileTyped
<1>3. m.at # Len(file.blocks) + 1
  <2> SUFFICES ASSUME m.at = Len(file.blocks) + 1 PROVE FALSE
    OBVIOUS
  <2>1. Left(m) = file.length - Offset(Len(file.blocks) + 1)
    BY <1>1 DEF Left
  <2>2. CASE Legacy
    <3>1. m.initialized
      BY <1>1, <1>2, <2>2
    <3> QED BY <1>2, <2>1, <2>2, <3>1 DEF NoLengthHint
  <2>3. CASE ~Legacy
    <3>1. ~BadLength(file.blocks[Len(file.blocks)])
      BY <1>1, <1>2, <2>3
    <3>2. Left(m) < 12
      BY <1>2, <2>1, <2>3, <3>1
    <3> QED BY <2>3, <3>2 DEF NoLengthHint
  <2> QED BY <2>2, <2>3
<1>4. m.at \in 1 .. Len(file.blocks)
  BY <1>1, <1>2, <1>3
<1> QED BY <1>2, <1>4 DEF Upcoming

\* How a call ends, and a call that is in progress.
CallKinds == {"Going", "Progress", "Ready", "NeedsBudget", "BlockBytes", "ItemsPerBlock",
              "InvalidStepBudget"} \cup (Outcomes \ {"Continue", "StopMalformed"})

Calls == [m : Builders, records : Nat, bytes : Nat, items : Nat, kind : CallKinds]

\* s: what a step has made of m so far, within its budget.
Running(m, budget, s) ==
    /\ s \in Calls
    /\ Sound(s.m)
    /\ s.m.consumed = m.consumed + s.bytes
    /\ s.m.records = m.records + s.records
    /\ s.bytes <= budget.bytes /\ s.records <= budget.records
    /\ s.records > 0 => s.bytes > 0
    /\ s.kind = "Going" => /\ ~s.m.complete
                           /\ s.records = 0 => s.m = m /\ s.bytes = 0 /\ s.items = 0
    /\ s.kind = "Progress" => s.bytes > 0
    /\ s.kind = "NeedsBudget" => /\ s.m = m /\ s.bytes = 0
                                 /\ Declared(Upcoming(m)) \in Nat
                                 /\ Declared(Upcoming(m)) > budget.bytes

\* A step that returns: progress is only reported by one that has made some.
LEMMA ReturnRuns ==
    ASSUME NEW m, NEW budget, NEW s, Running(m, budget, s), s.kind = "Going",
           NEW kind \in CallKinds \ {"Going"},
           kind = "Progress" => s.records > 0,
           kind = "NeedsBudget" => /\ s.records = 0 /\ Declared(Upcoming(m)) \in Nat
                                   /\ Declared(Upcoming(m)) > budget.bytes
    PROVE  Running(m, budget, Return(s, kind))
<1> DEFINE t == Return(s, kind)
<1>1. s \in Calls
  BY DEF Running
<1>2. /\ t \in Calls /\ t.m = s.m /\ t.records = s.records /\ t.bytes = s.bytes
      /\ t.items = s.items /\ t.kind = kind
  BY <1>1 DEF Calls, Return
<1> HIDE DEF t
<1>3. Running(m, budget, t)
  BY <1>2 DEF Running
<1> QED BY <1>3 DEF t

\* A step at the end of the capture.
LEMMA ReadyRuns ==
    ASSUME NEW m, NEW budget, NEW s, Running(m, budget, s), s.kind = "Going",
           NEW r, Stopped(s.m, r)
    PROVE  Running(m, budget, Ready(s, r))
<1> DEFINE kind == IF r.out = "Continue" THEN "Ready" ELSE r.out
           t == Ready(s, r)
<1>1. s \in Calls /\ r.b \in Builders /\ r.out \in Outcomes
  BY DEF Running, Stopped, Results
<1>2. kind \in CallKinds \ {"Going", "Progress", "NeedsBudget"}
  BY DEF CallKinds, Stopped, Outcomes, SinkErrors
<1>3. t = [s EXCEPT !.m = r.b, !.kind = kind]
  BY DEF Ready
<1>4. Sound(r.b) /\ r.b.consumed = s.m.consumed /\ r.b.records = s.m.records
  BY DEF Stopped, Running, SamePlace
<1> HIDE DEF kind, t
<1>5. /\ t \in Calls /\ t.m = r.b /\ t.records = s.records /\ t.bytes = s.bytes
      /\ t.items = s.items /\ t.kind = kind
  BY <1>1, <1>2, <1>3 DEF Calls
<1>6. Running(m, budget, t)
  BY <1>2, <1>4, <1>5 DEF Running
<1> QED BY <1>6 DEF t

\* A step that passes a record within its budget.
LEMMA AdvanceRuns ==
    ASSUME file \in Captures, NEW m \in Builders, NEW budget \in [records : Nat, bytes : Nat],
           NEW s, Running(m, budget, s), s.kind = "Going",
           Readable(s.m), Declared(Upcoming(s.m)) <= budget.bytes - s.bytes,
           s.records < budget.records, NEW items \in Nat, NEW r, Processed(s.m, r)
    PROVE  Running(m, budget, Advance(s, r, items))
<1> DEFINE length == Declared(Upcoming(s.m))
           kind == IF s.items + items >= Limits.ItemsPerStep THEN "Progress" ELSE "Going"
           moved == [r.b EXCEPT !.at = @ + 1, !.consumed = @ + length, !.records = @ + 1]
           after == [m |-> moved, records |-> s.records + 1, bytes |-> s.bytes + length,
                     items |-> s.items + items, kind |-> kind]
           refused == [s EXCEPT !.m = r.b, !.kind = r.out]
           t == Advance(s, r, items)
<1>1. /\ s \in Calls /\ Sound(s.m) /\ s.m \in Builders /\ ~s.m.complete
      /\ s.records \in Nat /\ s.bytes \in Nat /\ s.items \in Nat
      /\ budget.records \in Nat /\ budget.bytes \in Nat
      /\ r \in Results /\ r.b \in Builders /\ r.out \in Outcomes
  BY DEF Running, Calls, Processed, Results
<1>2. length \in Nat /\ length > 0
  BY <1>1, SoundTyped, ReadablePlace
<1>3. t = IF r.out = "Continue" THEN after
          ELSE IF r.out = "StopMalformed" THEN Ready(s, StopMalformed(r.b, length))
          ELSE refused
  BY DEF Advance
<1>4. CASE r.out = "Continue"
  <2>1. Forward(s.m, r.b)
    BY <1>4 DEF Processed
  <2>2. Sound(Moved(s.m, r.b))
    BY <1>1, <2>1, SoundForward
  <2>3. moved = Moved(s.m, r.b)
    BY DEF Moved
  <2>4. /\ r.b.consumed = s.m.consumed /\ r.b.records = s.m.records /\ ~r.b.complete
    BY <2>1 DEF Forward
  <2>5. /\ moved \in Builders /\ moved.consumed = s.m.consumed + length
        /\ moved.records = s.m.records + 1 /\ ~moved.complete
    <3>1. /\ Moved(s.m, r.b) \in Builders
          /\ Moved(s.m, r.b).records = r.b.records + 1
          /\ Moved(s.m, r.b).consumed = r.b.consumed + Declared(Upcoming(s.m))
          /\ Moved(s.m, r.b).complete = r.b.complete
      BY <1>1, <1>2, MovedTyped
    <3> QED BY <2>3, <2>4, <3>1
  <2>6. kind \in {"Progress", "Going"}
    OBVIOUS
  <2>7. /\ s.m.consumed = m.consumed + s.bytes /\ s.m.records = m.records + s.records
        /\ m.consumed \in Nat /\ m.records \in Nat
    BY DEF Running, Builders
  <2> HIDE DEF moved, kind
  <2>8. /\ after.m = moved /\ after.records = s.records + 1 /\ after.bytes = s.bytes + length
        /\ after.items = s.items + items /\ after.kind = kind /\ after \in Calls
    <3>1. kind \in CallKinds
      BY <2>6 DEF CallKinds
    <3>2. s.records + 1 \in Nat /\ s.bytes + length \in Nat /\ s.items + items \in Nat
      BY <1>1, <1>2
    <3> QED BY <2>5, <3>1, <3>2 DEF Calls
  <2> HIDE DEF after
  <2>9. /\ moved.consumed = m.consumed + after.bytes
        /\ moved.records = m.records + after.records
        /\ after.bytes <= budget.bytes /\ after.records <= budget.records
        /\ after.records > 0 /\ after.bytes > 0
    BY <1>1, <1>2, <2>5, <2>7, <2>8
  <2>10. Running(m, budget, after)
    <3>1. after.records # 0 /\ kind # "NeedsBudget"
      BY <1>1, <2>6, <2>9
    <3>2. Sound(moved)
      BY <2>2, <2>3
    <3> QED BY <2>5, <2>6, <2>8, <2>9, <3>1, <3>2 DEF Running
  <2>11. t = after
    BY <1>3, <1>4
  <2> HIDE DEF t
  <2> QED BY <2>10, <2>11 DEF t
<1>5. CASE r.out = "StopMalformed"
  <2>1. r.b = s.m /\ Pending(s.m) = {}
    BY <1>5 DEF Processed
  <2>2. t = Ready(s, StopMalformed(s.m, length))
    BY <1>3, <1>5, <2>1
  <2>3. Stopped(s.m, StopMalformed(s.m, length))
    BY <1>1, <1>2, <2>1, MalformedStopped
  <2> HIDE DEF t
  <2>4. Running(m, budget, t)
    BY <2>2, <2>3, ReadyRuns
  <2> QED BY <2>4 DEF t
<1>6. CASE r.out \notin {"Continue", "StopMalformed"}
  <2>1. Still(s.m, r.b)
    BY <1>6 DEF Processed
  <2>2. Sound(r.b)
    BY <1>1, <2>1, SoundStill
  <2>3. r.b.consumed = s.m.consumed /\ r.b.records = s.m.records
    BY <2>1 DEF Still, SamePlace
  <2>4. r.out \in CallKinds \ {"Going", "Progress", "NeedsBudget"}
    BY <1>1, <1>6 DEF CallKinds, Outcomes, SinkErrors
  <2>5. /\ refused \in Calls /\ refused.m = r.b /\ refused.records = s.records
        /\ refused.bytes = s.bytes /\ refused.items = s.items /\ refused.kind = r.out
    BY <1>1, <2>4 DEF Calls
  <2>6. t = refused
    BY <1>3, <1>6
  <2> HIDE DEF t, refused
  <2>7. Running(m, budget, t)
    BY <2>2, <2>3, <2>4, <2>5, <2>6 DEF Running
  <2> QED BY <2>7 DEF t
<1> QED BY <1>4, <1>5, <1>6

\* One turn of the loop keeps the builder sound and the step within its budget.
LEMMA TurnRuns ==
    ASSUME file \in Captures, NEW m \in Builders, NEW budget \in [records : Nat, bytes : Nat],
           NEW s, Running(m, budget, s), s.kind = "Going", budget.records > 0, NEW fails
    PROVE  Running(m, budget, Turn(s, budget, fails))
<1> DEFINE b == s.m
           length == Declared(Upcoming(b))
           scan == IF Legacy THEN [items |-> 0, out |-> "Continue"] ELSE Prevalidate(Upcoming(b))
           t == Turn(s, budget, fails)
<1>1. /\ s \in Calls /\ Sound(b) /\ b \in Builders /\ ~b.complete
      /\ s.records \in Nat /\ s.bytes \in Nat /\ s.items \in Nat
      /\ budget.records \in Nat /\ budget.bytes \in Nat
      /\ s.records = 0 => b = m /\ s.bytes = 0 /\ s.items = 0
  BY DEF Running, Calls
<1>2. ~Readable(b) => Pending(b) = {}
  BY <1>1 DEF Sound, Held
<1>3. t = IF s.records >= budget.records THEN Return(s, "Progress")
          ELSE IF NoLengthHint(b) THEN Ready(s, AtEndOfFile(b))
          ELSE IF BadLengthHint(b) THEN Ready(s, StopMalformed(b, 12))
          ELSE IF Oversized(b) THEN Return(s, "BlockBytes")
          ELSE IF ~RespectsSection(b) THEN Ready(s, StopMalformed(b, 12))
          ELSE IF length > Left(b) THEN Ready(s, StopTruncated(b))
          ELSE IF length > RemainingBudget(s, budget)
               THEN Return(s, IF s.records = 0 THEN "NeedsBudget" ELSE "Progress")
          ELSE IF scan.out = "InvalidHeader" THEN Ready(s, StopMalformed(b, length))
          ELSE IF scan.out # "Continue" THEN Return(s, scan.out)
          ELSE IF s.items + scan.items > Limits.ItemsPerStep THEN Return(s, "Progress")
          ELSE IF ~Upcoming(b).readable THEN Ready(s, StopMalformed(b, 0))
          ELSE Advance(s, Process(b, fails), scan.items)
  BY DEF Turn
<1>4. {"Progress", "BlockBytes", "NeedsBudget", "ItemsPerBlock"} \subseteq CallKinds \ {"Going"}
  BY DEF CallKinds
<1> HIDE DEF t, scan
<1>5. ASSUME ~Readable(b), NEW parsed \in Nat
      PROVE  Running(m, budget, Ready(s, StopMalformed(b, parsed)))
  BY <1>1, <1>2, <1>5, MalformedStopped, ReadyRuns
<1>6. CASE s.records >= budget.records
  <2>1. t = Return(s, "Progress")
    BY <1>3, <1>6
  <2>2. s.records > 0
    BY <1>1, <1>6
  <2>3. Running(m, budget, t)
    BY <1>4, <2>1, <2>2, ReturnRuns
  <2> QED BY <2>3 DEF t
<1>7. CASE s.records < budget.records /\ NoLengthHint(b)
  <2>1. t = Ready(s, AtEndOfFile(b))
    BY <1>1, <1>3, <1>7
  <2>2. Pending(b) = {}
    BY <1>2, <1>7 DEF Readable
  <2>3. Stopped(b, AtEndOfFile(b))
    BY <1>1, <2>2, EndStopped
  <2>4. Running(m, budget, t)
    BY <2>1, <2>3, ReadyRuns
  <2> QED BY <2>4 DEF t
<1>8. CASE s.records < budget.records /\ ~NoLengthHint(b)
  <2>0. b.at \in 1 .. Len(file.blocks) /\ length \in Nat /\ Len(file.blocks) \in Nat
        /\ Left(b) \in Nat /\ ~(s.records >= budget.records) /\ b.at <= Len(file.blocks)
    <3>1. b.at \in 1 .. Len(file.blocks) /\ length \in Nat
      BY <1>1, <1>8, RecordFound
    <3>2. Len(file.blocks) \in Nat /\ Left(b) \in Nat
      BY <1>1, FileTyped, PlaceTyped
    <3> HIDE DEF b, length
    <3> QED BY <1>1, <1>8, <3>1, <3>2
  <2>1. /\ scan.items \in Nat /\ scan.out \in ScanOutcomes
        /\ scan.items <= Limits.ItemsPerStep /\ Limits.ItemsPerStep \in Nat
        /\ Legacy => scan.out = "Continue"
        /\ ~Legacy => scan = Prevalidate(Upcoming(b))
    <3>1. Limits.ItemsPerStep \in Nat /\ Limits.ItemsPerBlock \in Nat
          /\ Limits.ItemsPerStep >= Limits.ItemsPerBlock
      BY FileTyped DEF LimitKinds
    <3>2. CASE Legacy
      BY <3>1, <3>2 DEF scan, ScanOutcomes
    <3>3. CASE ~Legacy
      <4>1. IsBlock(Upcoming(b))
        BY <2>0, <3>3, FileTyped DEF Upcoming
      <4>2. scan = Prevalidate(Upcoming(b))
        BY <3>3 DEF scan
      <4>3. scan.items \in 0 .. Limits.ItemsPerBlock /\ scan.out \in ScanOutcomes
        BY <4>1, <4>2, PrevalidateBounded
      <4> QED BY <3>1, <3>3, <4>2, <4>3
    <3> QED BY <3>2, <3>3
  <2>2. CASE BadLengthHint(b) \/ (~BadLengthHint(b) /\ ~Oversized(b) /\ ~RespectsSection(b))
    <3>1. t = Ready(s, StopMalformed(b, 12))
      BY <1>3, <1>8, <2>0, <2>2
    <3>2. ~Readable(b)
      BY <2>2 DEF Readable
    <3>3. Running(m, budget, t)
      BY <1>5, <3>1, <3>2
    <3> QED BY <3>3 DEF t
  <2>3. CASE ~BadLengthHint(b) /\ Oversized(b)
    <3>1. t = Return(s, "BlockBytes")
      BY <1>3, <1>8, <2>0, <2>3
    <3>2. Running(m, budget, t)
      BY <1>4, <3>1, ReturnRuns
    <3> QED BY <3>2 DEF t
  <2>4. CASE ~BadLengthHint(b) /\ ~Oversized(b) /\ RespectsSection(b) /\ length > Left(b)
    <3>1. t = Ready(s, StopTruncated(b))
      BY <1>3, <1>8, <2>0, <2>4
    <3>2. ~Readable(b)
      BY <2>0, <2>4 DEF Readable
    <3>3. Stopped(b, StopTruncated(b))
      BY <1>1, <1>2, <3>2, TruncatedStopped
    <3>4. Running(m, budget, t)
      BY <3>1, <3>3, ReadyRuns
    <3> QED BY <3>4 DEF t
  <2>5. CASE /\ ~BadLengthHint(b) /\ ~Oversized(b) /\ RespectsSection(b) /\ ~(length > Left(b))
             /\ length > RemainingBudget(s, budget)
    <3>1. t = Return(s, IF s.records = 0 THEN "NeedsBudget" ELSE "Progress")
      BY <1>3, <1>8, <2>0, <2>5
    <3>2. CASE s.records = 0
      <4>1. /\ t = Return(s, "NeedsBudget") /\ Declared(Upcoming(m)) > budget.bytes
            /\ Declared(Upcoming(m)) \in Nat
        BY <1>1, <1>8, <2>5, <3>1, <3>2, RecordFound DEF RemainingBudget
      <4>2. Running(m, budget, t)
        BY <1>4, <3>2, <4>1, ReturnRuns
      <4> QED BY <4>2 DEF t
    <3>3. CASE s.records # 0
      <4>1. t = Return(s, "Progress") /\ s.records > 0
        BY <1>1, <3>1, <3>3
      <4>2. Running(m, budget, t)
        BY <1>4, <4>1, ReturnRuns
      <4> QED BY <4>2 DEF t
    <3> QED BY <3>2, <3>3
  <2>6. CASE /\ ~BadLengthHint(b) /\ ~Oversized(b) /\ RespectsSection(b) /\ ~(length > Left(b))
             /\ ~(length > RemainingBudget(s, budget))
    <3>1. t = IF scan.out = "InvalidHeader" THEN Ready(s, StopMalformed(b, length))
              ELSE IF scan.out # "Continue" THEN Return(s, scan.out)
              ELSE IF s.items + scan.items > Limits.ItemsPerStep THEN Return(s, "Progress")
              ELSE IF ~Upcoming(b).readable THEN Ready(s, StopMalformed(b, 0))
              ELSE Advance(s, Process(b, fails), scan.items)
      BY <1>3, <1>8, <2>0, <2>6
    <3>2. scan.out # "Continue" => ~Readable(b)
      BY <2>1 DEF Readable
    <3>3. CASE scan.out = "InvalidHeader"
      <4>1. t = Ready(s, StopMalformed(b, length)) /\ ~Readable(b)
        BY <3>1, <3>2, <3>3
      <4>2. Running(m, budget, t)
        BY <1>5, <2>0, <4>1
      <4> QED BY <4>2 DEF t
    <3>4. CASE scan.out \notin {"InvalidHeader", "Continue"}
      <4>1. t = Return(s, "ItemsPerBlock")
        BY <2>1, <3>1, <3>4 DEF ScanOutcomes
      <4>2. Running(m, budget, t)
        BY <1>4, <4>1, ReturnRuns
      <4> QED BY <4>2 DEF t
    <3>5. CASE scan.out = "Continue" /\ s.items + scan.items > Limits.ItemsPerStep
      <4>1. t = Return(s, "Progress")
        BY <3>1, <3>5
      <4>2. s.records > 0
        BY <1>1, <2>1, <3>5
      <4>3. Running(m, budget, t)
        BY <1>4, <4>1, <4>2, ReturnRuns
      <4> QED BY <4>3 DEF t
    <3>6. CASE scan.out = "Continue" /\ ~(s.items + scan.items > Limits.ItemsPerStep)
               /\ ~Upcoming(b).readable
      <4>1. t = Ready(s, StopMalformed(b, 0))
        BY <3>1, <3>6
      <4>2. ~Readable(b)
        BY <3>6 DEF Readable
      <4>3. Running(m, budget, t)
        BY <1>5, <4>1, <4>2
      <4> QED BY <4>3 DEF t
    <3>7. CASE scan.out = "Continue" /\ ~(s.items + scan.items > Limits.ItemsPerStep)
               /\ Upcoming(b).readable
      <4>1. t = Advance(s, Process(b, fails), scan.items)
        BY <3>1, <3>7
      <4>2. Readable(b)
        BY <1>8, <2>0, <2>1, <2>6, <3>7 DEF Readable
      <4>3. Processed(b, Process(b, fails))
        BY <1>1, <4>2, RecordProcessed
      <4>4. length <= budget.bytes - s.bytes /\ s.records < budget.records
        BY <1>1, <1>8, <2>0, <2>6 DEF RemainingBudget
      <4>5. Running(m, budget, t)
        BY <2>1, <4>1, <4>2, <4>3, <4>4, AdvanceRuns
      <4> QED BY <4>5 DEF t
    <3> QED BY <3>3, <3>4, <3>5, <3>6, <3>7
  <2> QED BY <2>2, <2>3, <2>4, <2>5, <2>6
<1> QED BY <1>1, <1>6, <1>7, <1>8

\* The loop, turn by turn.
IsRun(f, start, budget, fails, n) ==
    f = [i \in 0 .. n |->
            IF i = 0 THEN start
            ELSE IF f[i - 1].kind # "Going" THEN f[i - 1] ELSE Turn(f[i - 1], budget, fails)]

\* A step is a function of the number of its turns: there is one for any number.
LEMMA RunsExist ==
    ASSUME NEW start, NEW budget, NEW fails, NEW N \in Nat
    PROVE  \E f : IsRun(f, start, budget, fails, N)
<1> DEFINE T == {n \in Nat : \E f : IsRun(f, start, budget, fails, n)}
           Again(s) == IF s.kind # "Going" THEN s ELSE Turn(s, budget, fails)
<1>1. 0 \in T
  <2>1. IsRun([i \in 0 .. 0 |-> start], start, budget, fails, 0)
    BY DEF IsRun
  <2> QED BY <2>1
<1>2. ASSUME NEW n \in Nat, n \in T PROVE n + 1 \in T
  <2>1. PICK f : IsRun(f, start, budget, fails, n)
    BY <1>2
  <2> DEFINE g == [i \in 0 .. n + 1 |-> IF i = n + 1 THEN Again(f[n]) ELSE f[i]]
  <2>2. \A i \in 0 .. n : f[i] = IF i = 0 THEN start ELSE Again(f[i - 1])
    BY <2>1 DEF IsRun
  <2> HIDE DEF Again
  <2>3. ASSUME NEW i \in 0 .. n + 1
        PROVE  g[i] = IF i = 0 THEN start ELSE Again(g[i - 1])
    <3>1. CASE i = n + 1
      BY <3>1
    <3>2. CASE i # n + 1
      <4>1. i \in 0 .. n /\ (i # 0 => i - 1 \in 0 .. n /\ i - 1 # n + 1)
        BY <3>2
      <4>2. g[i] = f[i] /\ (i # 0 => g[i - 1] = f[i - 1])
        BY <3>2, <4>1
      <4> QED BY <2>2, <4>1, <4>2
    <3> QED BY <3>1, <3>2
  <2>4. g = [i \in 0 .. n + 1 |-> IF i = 0 THEN start ELSE Again(g[i - 1])]
    <3> DEFINE h == [i \in 0 .. n + 1 |-> IF i = 0 THEN start ELSE Again(g[i - 1])]
    <3>1. \A i \in 0 .. n + 1 : g[i] = h[i]
      BY <2>3
    <3>2. g = [i \in 0 .. n + 1 |-> g[i]] /\ h = [i \in 0 .. n + 1 |-> h[i]]
      OBVIOUS
    <3> HIDE DEF g, h
    <3>3. g = h
      BY <3>1, <3>2
    <3> QED BY <3>3 DEF h
  <2> HIDE DEF g
  <2>5. IsRun(g, start, budget, fails, n + 1)
    BY <2>4 DEF IsRun, Again
  <2> QED BY <2>5
<1>3. Nat \subseteq T
  <2> HIDE DEF T
  <2> QED BY <1>1, <1>2, Induction
<1> QED BY <1>3

\* CaptureImporter::step keeps the builder sound and stays within its budget.
LEMMA StepRuns ==
    ASSUME file \in Captures, NEW m, Sound(m), NEW budget \in [records : Nat, bytes : Nat], NEW fails
    PROVE  Running(m, budget, RunStep(m, budget, fails))
<1> DEFINE start == [m |-> m, records |-> 0, bytes |-> 0, items |-> 0, kind |-> "Going"]
           N == Len(file.blocks) + 1
           P(f) == f = [n \in 0 .. Len(file.blocks) + 1 |->
                           IF n = 0 THEN start
                           ELSE IF f[n - 1].kind # "Going" THEN f[n - 1]
                                ELSE Turn(f[n - 1], budget, fails)]
           after == CHOOSE f : P(f)
           r == RunStep(m, budget, fails)
<1>1. r = IF budget.records = 0 \/ budget.bytes = 0 THEN Return(start, "InvalidStepBudget")
          ELSE IF m.complete THEN Return(start, "Ready")
          ELSE after[Len(file.blocks) + 1]
  BY DEF RunStep
<1>2. /\ m \in Builders /\ m.consumed \in Nat /\ m.records \in Nat /\ N \in Nat
      /\ budget.records \in Nat /\ budget.bytes \in Nat
  BY SoundTyped, PlaceTyped, FileTyped
<1>3. IsRun(after, start, budget, fails, N)
  <2>1. \E f : P(f)
    <3>1. PICK f : IsRun(f, start, budget, fails, N)
      BY <1>2, RunsExist
    <3>2. P(f)
      BY <3>1 DEF IsRun
    <3> QED BY <3>2
  <2>2. P(after)
    BY <2>1
  <2> HIDE DEF after
  <2> QED BY <2>2 DEF IsRun
<1> HIDE DEF after, r
<1>4. ASSUME NEW kind \in {"InvalidStepBudget", "Ready"}
      PROVE  Running(m, budget, Return(start, kind))
  <2> DEFINE t == [m |-> m, records |-> 0, bytes |-> 0, items |-> 0, kind |-> kind]
  <2>1. Return(start, kind) = t
    BY DEF Return
  <2>2. kind \in CallKinds
    BY DEF CallKinds
  <2>3. /\ t \in Calls /\ t.m = m /\ t.records = 0 /\ t.bytes = 0 /\ t.items = 0 /\ t.kind = kind
    BY <1>2, <2>2 DEF Calls
  <2> HIDE DEF t
  <2>4. Running(m, budget, t)
    BY <1>2, <2>3 DEF Running
  <2> QED BY <2>1, <2>4
<1>5. CASE budget.records = 0 \/ budget.bytes = 0
  <2>1. r = Return(start, "InvalidStepBudget")
    BY <1>1, <1>5
  <2>2. Running(m, budget, r)
    BY <1>4, <2>1
  <2> QED BY <2>2 DEF r
<1>6. CASE ~(budget.records = 0 \/ budget.bytes = 0) /\ m.complete
  <2>1. r = Return(start, "Ready")
    BY <1>1, <1>6
  <2>2. Running(m, budget, r)
    BY <1>4, <2>1
  <2> QED BY <2>2 DEF r
<1>7. CASE ~(budget.records = 0 \/ budget.bytes = 0) /\ ~m.complete
  <2> DEFINE T == {n \in Nat : n <= N => Running(m, budget, after[n])}
  <2>1. \A i \in 0 .. N : after[i] = IF i = 0 THEN start
                                     ELSE IF after[i - 1].kind # "Going" THEN after[i - 1]
                                     ELSE Turn(after[i - 1], budget, fails)
    BY <1>3 DEF IsRun
  <2>2. Running(m, budget, start)
    <3>1. start \in Calls /\ start.m = m /\ start.records = 0 /\ start.bytes = 0
          /\ start.items = 0 /\ start.kind = "Going"
      BY <1>2 DEF Calls, CallKinds
    <3> HIDE DEF start
    <3> QED BY <1>2, <1>7, <3>1 DEF Running
  <2> HIDE DEF start
  <2>3. 0 \in T
    <3> HIDE DEF N
    <3> QED BY <1>2, <2>1, <2>2
  <2>4. ASSUME NEW n \in Nat, n \in T PROVE n + 1 \in T
    <3> SUFFICES ASSUME n + 1 <= N PROVE Running(m, budget, after[n + 1])
      OBVIOUS
    <3> HIDE DEF N
    <3>1. n + 1 \in 0 .. N /\ n + 1 # 0 /\ (n + 1) - 1 = n /\ n <= N
      BY <1>2
    <3>2. after[n + 1] = (IF after[n].kind # "Going" THEN after[n] ELSE Turn(after[n], budget, fails))
      BY <2>1, <3>1
    <3>3. Running(m, budget, after[n])
      BY <2>4, <3>1
    <3>4. budget.records > 0
      BY <1>2, <1>7
    <3> QED BY <1>2, <3>2, <3>3, <3>4, TurnRuns
  <2>5. Nat \subseteq T
    <3> HIDE DEF T
    <3> QED BY <2>3, <2>4, Induction
  <2>6. Running(m, budget, after[N])
    BY <1>2, <2>5
  <2>7. r = after[N]
    BY <1>1, <1>7
  <2> QED BY <2>6, <2>7 DEF r
<1> QED BY <1>5, <1>6, <1>7

-----------------------------------------------------------------------------
\* The calls of the owner keep the invariant.

\* DatasetBuilder::new is sound.
LEMMA NewSound ==
    ASSUME file \in Captures
    PROVE  Sound(NewImporter)
<1> DEFINE m == NewImporter
<1>1. /\ file.length \in Nat /\ Limits \in [LimitKinds -> Nat] /\ Offset(1) = 0
      /\ Len(file.blocks) \in Nat
  BY FileTyped, OffsetSteps
<1>2. /\ m.at = 1 /\ m.consumed = 0 /\ m.records = 0 /\ m.complete = FALSE /\ m.limits = Limits
      /\ m.initialized = FALSE /\ m.current = None /\ m.started_at = None /\ m.ended_at = None
      /\ m.sections = <<>> /\ m.interfaces = <<>> /\ m.packets = <<>> /\ m.layers = <<>>
      /\ m.fields = <<>> /\ m.field_children = <<>> /\ m.diagnostics = <<>> /\ m.strings = <<>>
  BY DEF NewImporter
<1>3. m \in Builders
  BY <1>1 DEF NewImporter, Builders, Optional
<1> HIDE DEF m
<1>4. /\ DOMAIN m.sections = {} /\ DOMAIN m.interfaces = {} /\ DOMAIN m.packets = {}
      /\ DOMAIN m.layers = {} /\ DOMAIN m.fields = {} /\ DOMAIN m.field_children = {}
      /\ DOMAIN m.diagnostics = {} /\ DOMAIN m.strings = {}
  BY <1>2
<1>5. WithinLimits(m)
  <2>1. \A kind \in LimitKinds : m.limits[kind] >= 0
    BY <1>1, <1>2
  <2>2. {"Packets", "Sections", "Interfaces", "Diagnostics", "Layers", "Fields", "FieldChildren",
         "StringBytes"} \subseteq LimitKinds
    BY DEF LimitKinds
  <2>3. /\ Len(m.sections) = 0 /\ Len(m.interfaces) = 0 /\ Len(m.packets) = 0 /\ Len(m.layers) = 0
        /\ Len(m.fields) = 0 /\ Len(m.field_children) = 0 /\ Len(m.diagnostics) = 0
        /\ Len(m.strings) = 0
    BY <1>2
  <2> QED BY <2>1, <2>2, <2>3 DEF WithinLimits
<1>6. Position(m)
  BY <1>1, <1>2 DEF Position
<1>7. Skeleton(m)
  BY <1>2, <1>4 DEF Skeleton, CurrentSection, Sections, Interfaces
<1>8. Trees(m)
  <2>1. Times(m)
    BY <1>2, <1>4 DEF Times, TimesOf, Timed
  <2> QED BY <1>4, <2>1 DEF Trees, PacketLayers, PacketDiagnostics, Diagnostics, Layers, Fields, FieldChildren
<1>9. Held(m)
  BY <1>4 DEF Held, Pending
<1>10. Told(m)
  BY <1>2, <1>4 DEF Told
<1> QED BY <1>3, <1>5, <1>6, <1>7, <1>8, <1>9, <1>10 DEF Sound, Whole, m

\* The dataset of a complete builder is made of its arenas as they are: no section is open.
LEMMA DatasetTyped ==
    ASSUME file \in Captures, NEW m, Sound(m), m.complete
    PROVE  /\ DatasetOf(m) \in CaptureDataset
           /\ DatasetOf(m) = [byte_length |-> file.length, packet_count |-> Len(m.packets),
                started_at |-> m.started_at, ended_at |-> m.ended_at,
                sections |-> m.sections, interfaces |-> m.interfaces, packets |-> m.packets,
                layers |-> m.layers, fields |-> m.fields, field_children |-> m.field_children,
                diagnostics |-> m.diagnostics, strings |-> m.strings]
<1>1. m \in Builders /\ m.current = None /\ file.length \in Nat
  BY SoundTyped, FileTyped DEF Position
<1>2. CloseSectionAt(m, file.length) = m
  BY <1>1 DEF CloseSectionAt
<1>3. /\ Len(m.packets) \in Nat /\ m.started_at \in Optional(CaptureTimestamp)
      /\ m.ended_at \in Optional(CaptureTimestamp)
  BY <1>1, ArenasTyped DEF Builders
<1> QED BY <1>1, <1>2, <1>3, ArenasTyped DEF DatasetOf, CaptureDataset

\* What a builder is to be depends on the file, which no call changes.
LEMMA SameFile ==
    ASSUME file' = file
    PROVE  /\ \A m : Sound(m)' <=> Sound(m)
           /\ \A m : Declared(Upcoming(m))' = Declared(Upcoming(m))
<1>1. (Legacy' <=> Legacy) /\ Limits' = Limits
  BY DEF Legacy, Limits
<1>2. LegacyHeaderLength' = LegacyHeaderLength
  BY DEF LegacyHeaderLength
<1>3. \A block : Declared(block)' = Declared(block) /\ Prevalidate(block)' = Prevalidate(block)
  <2>1. \A block : Declared(block)' = Declared(block)
    BY DEF Declared
  <2>2. \A block : Prevalidate(block)' = Prevalidate(block)
    BY DEF Prevalidate, ScanItem, Limits
  <2> QED BY <2>1, <2>2
<1>4. \A m : Upcoming(m)' = Upcoming(m) /\ Left(m)' = Left(m)
  BY DEF Upcoming, Left
<1>5. \A m : Declared(Upcoming(m))' = Declared(Upcoming(m))
  BY DEF Declared, Upcoming
<1>6. \A m : BlockRange(m)' = BlockRange(m)
  BY DEF BlockRange, Declared, Upcoming
<1>7. \A i : Offset(i)' = Offset(i)
  BY DEF Offset
<1>8. \A m : Readable(m)' <=> Readable(m)
  <2>1. \A m : NoLengthHint(m)' <=> NoLengthHint(m)
    BY <1>1, <1>2, <1>4 DEF NoLengthHint
  <2>2. \A m : BadLengthHint(m)' <=> BadLengthHint(m)
    BY DEF BadLengthHint, Upcoming, Legacy
  <2>3. \A m : Oversized(m)' <=> Oversized(m)
    BY <1>1, <1>5 DEF Oversized
  <2>4. \A m : RespectsSection(m)' <=> RespectsSection(m)
    BY <1>1, <1>4, <1>5 DEF RespectsSection
  <2>5. \A m : Prevalidate(Upcoming(m))' = Prevalidate(Upcoming(m))
    BY DEF Prevalidate, ScanItem, Limits, Upcoming
  <2> QED BY <1>1, <1>4, <1>5, <2>1, <2>2, <2>3, <2>4, <2>5 DEF Readable
<1>9. \A m : DataOf(m)' = DataOf(m)
  BY DEF DataOf, IndexOf, Upcoming, LegacyHeaderLength
<1>10. \A m : IndexOf(m)' = IndexOf(m)
  BY DEF IndexOf, Upcoming
<1>11. \A m : Retains(m)' <=> Retains(m)
  BY <1>4, <1>9, <1>10 DEF Retains
<1>12. \A m : Held(m)' <=> Held(m)
  BY <1>8, <1>9, <1>11 DEF Held
<1>13. \A m : Position(m)' <=> Position(m)
  BY <1>1, <1>7 DEF Position
<1>14. \A m, i : Products(m, i)' = Products(m, i)
  BY DEF Products, Offset, Declared
<1>15. \A m : Told(m)' <=> Told(m)
  BY <1>1, <1>4, <1>14 DEF Told
<1>16. \A m : Skeleton(m)' <=> Skeleton(m)
  <2>1. \A m : CurrentSection(m)' <=> CurrentSection(m)
    BY <1>1 DEF CurrentSection
  <2>2. \A m : Sections(m)' <=> Sections(m)
    BY <1>1 DEF Sections
  <2> QED BY <2>1, <2>2 DEF Skeleton
<1>17. \A m : Trees(m)' <=> Trees(m)
  BY DEF Trees, Diagnostics, Layers, Fields
<1>18. \A m : Whole(m)' <=> Whole(m)
  BY <1>16, <1>17 DEF Whole
<1>19. \A m : Sound(m)' <=> Sound(m)
  BY <1>12, <1>13, <1>15, <1>18 DEF Sound
<1> QED BY <1>5, <1>19

\* CaptureImporter::new answers with nothing that belongs to a step.
LEMMA PreflightAnswers ==
    ASSUME file \in Captures
    PROVE  Preflight \notin {"None", "Finished", "NeedsBudget"}
<1> DEFINE first == file.blocks[1]
           out == Prevalidate(first).out
<1>1. ~Legacy => out \in ScanOutcomes
  <2> SUFFICES ASSUME ~Legacy PROVE out \in ScanOutcomes
    OBVIOUS
  <2>1. IsBlock(first)
    BY FileTyped
  <2> QED BY <2>1, PrevalidateBounded
<1>2. \/ Preflight \in {"CaptureBytes", "TruncatedInput", "Created", "InvalidHeader", "BlockBytes"}
      \/ ~Legacy /\ Preflight = out
  BY DEF Preflight
<1> HIDE DEF out
<1> QED BY <1>1, <1>2 DEF ScanOutcomes

\* Before the first call there is no importer, and the invariant holds.
THEOREM Initially == Init => Inv
<1> SUFFICES ASSUME Init PROVE Inv
  OBVIOUS
<1>1. answer.kind = "None"
  BY DEF Init, Answer
<1> QED BY <1>1 DEF Init, Inv

\* CaptureImporter::new keeps the invariant.
LEMMA NewKeeps ==
    ASSUME Inv, New
    PROVE  Inv'
<1>1. /\ file' = file /\ dataset' = dataset /\ answer' = Answer(Preflight)
      /\ importer' = IF Preflight = "Created" THEN NewImporter ELSE None
      /\ answer.kind = "None" /\ file \in Captures
  BY DEF New, Inv
<1>2. answer'.kind = Preflight /\ Preflight \notin {"None", "Finished", "NeedsBudget"}
  BY <1>1, PreflightAnswers DEF Answer
<1>3. (dataset # None => dataset \in CaptureDataset) /\ dataset = None
  BY <1>1 DEF Inv
<1>4. importer' # None => Sound(importer)'
  <2>1. \A m : Sound(m)' <=> Sound(m)
    BY <1>1, SameFile
  <2>2. Sound(NewImporter)
    BY <1>1, NewSound
  <2>3. importer' # None => Sound(importer')
    BY <1>1, <2>2
  <2> QED BY <2>1, <2>3
<1> QED BY <1>1, <1>2, <1>3, <1>4 DEF Inv

\* What a step of an importer has done, by its answer.
LEMMA StepTaken ==
    ASSUME Inv, NEW budget \in Budgets, NEW fails \in BOOLEAN, Step(budget, fails)
    PROVE  /\ importer # None /\ Sound(importer) /\ file \in Captures /\ file' = file
           /\ dataset' = dataset /\ dataset = None
           /\ budget \in [records : Nat, bytes : Nat]
           /\ \E s \in Calls : /\ Running(importer, budget, s)
                               /\ importer' = s.m /\ answer' = StepAnswer(s, budget)
                               /\ answer'.kind = s.kind /\ answer'.budget = budget
                               /\ s.kind = "NeedsBudget" => answer'.minimum = Declared(Upcoming(s.m))
<1> DEFINE s == RunStep(importer, budget, fails)
<1>1. /\ importer # None /\ Sound(importer) /\ file \in Captures /\ file' = file
      /\ dataset' = dataset /\ importer' = s.m /\ answer' = StepAnswer(s, budget)
  BY DEF Step, Inv
<1>2. dataset = None
  BY <1>1 DEF Inv
<1>3. budget \in [records : Nat, bytes : Nat]
  BY BudgetsAssumption
<1>4. Running(importer, budget, s)
  BY <1>1, <1>3, StepRuns
<1> HIDE DEF s
<1>5. s \in Calls
  BY <1>4 DEF Running
<1>6. /\ answer'.kind = s.kind /\ answer'.budget = budget
      /\ s.kind = "NeedsBudget" => answer'.minimum = Declared(Upcoming(s.m))
  BY <1>1 DEF StepAnswer
<1> QED BY <1>1, <1>2, <1>3, <1>4, <1>5, <1>6

\* CaptureImporter::step keeps the invariant.
LEMMA StepKeeps ==
    ASSUME Inv, NEW budget \in Budgets, NEW fails \in BOOLEAN, Step(budget, fails)
    PROVE  Inv'
<1>1. /\ importer # None /\ Sound(importer) /\ file \in Captures /\ file' = file
      /\ dataset' = dataset /\ dataset = None
  BY StepTaken
<1>2. PICK s \in Calls : /\ Running(importer, budget, s)
                         /\ importer' = s.m /\ answer' = StepAnswer(s, budget)
                         /\ answer'.kind = s.kind /\ answer'.budget = budget
                         /\ s.kind = "NeedsBudget" => answer'.minimum = Declared(Upcoming(s.m))
  BY StepTaken
<1>3. Sound(s.m) /\ s.kind \in CallKinds
  BY <1>2 DEF Running, Calls
<1>4. answer'.kind \notin {"None", "Finished"}
  BY <1>2, <1>3 DEF CallKinds, Outcomes, SinkErrors
<1>5. /\ Sound(importer)'
      /\ answer'.kind = "NeedsBudget" => answer'.minimum = Declared(Upcoming(importer))'
  <2>1. /\ \A m : Sound(m)' <=> Sound(m)
        /\ \A m : Declared(Upcoming(m))' = Declared(Upcoming(m))
    BY <1>1, SameFile
  <2> QED BY <1>2, <1>3, <2>1
<1> QED BY <1>1, <1>4, <1>5 DEF Inv

\* CaptureImporter::finish keeps the invariant.
LEMMA FinishKeeps ==
    ASSUME Inv, Finish
    PROVE  Inv'
<1> DEFINE finished == DatasetOf(importer)
<1>1. /\ importer # None /\ importer' = None /\ file' = file /\ Sound(importer) /\ file \in Captures
  BY DEF Finish, Inv
<1>2. dataset = None
  BY <1>1 DEF Inv
<1>3. \/ dataset' = dataset /\ answer'.kind \in {"NotReady", "ModelError"}
      \/ importer.complete /\ dataset' = finished /\ answer'.kind = "Finished"
  BY DEF Finish, Answer
<1>4. importer.complete => finished \in CaptureDataset
  BY <1>1, DatasetTyped
<1> HIDE DEF finished
<1>5. None \notin CaptureDataset
  BY NoneAssumption
<1> QED BY <1>1, <1>2, <1>3, <1>4, <1>5 DEF Inv

\* CaptureImporter::cancel keeps the invariant.
LEMMA CancelKeeps ==
    ASSUME Inv, Cancel
    PROVE  Inv'
<1>1. /\ importer # None /\ importer' = None /\ file' = file /\ dataset' = dataset
      /\ answer'.kind = "Cancelled"
  BY DEF Cancel, Answer
<1> QED BY <1>1 DEF Inv

\* An importer that is left alone stays what it was.
LEMMA StutterKeeps ==
    ASSUME Inv, UNCHANGED vars
    PROVE  Inv'
<1>1. file' = file /\ importer' = importer /\ answer' = answer /\ dataset' = dataset
  BY DEF vars
<1>2. /\ \A m : Sound(m)' <=> Sound(m)
      /\ \A m : Declared(Upcoming(m))' = Declared(Upcoming(m))
  BY <1>1, SameFile
<1>3. /\ importer # None => Sound(importer)'
      /\ answer.kind = "NeedsBudget" /\ importer # None
            => answer.minimum = Declared(Upcoming(importer))'
  BY <1>1, <1>2 DEF Inv
<1> QED BY <1>1, <1>3 DEF Inv

\* No call breaks the invariant.
LEMMA InvNext ==
    ASSUME Inv, [Next]_vars
    PROVE  Inv'
<1>1. CASE New
  BY <1>1, NewKeeps
<1>2. ASSUME NEW budget \in Budgets, NEW fails \in BOOLEAN, Step(budget, fails)
      PROVE  Inv'
  BY <1>2, StepKeeps
<1>3. CASE Finish
  BY <1>3, FinishKeeps
<1>4. CASE Cancel
  BY <1>4, CancelKeeps
<1>5. CASE UNCHANGED vars
  BY <1>5, StutterKeeps
<1> QED BY <1>1, <1>2, <1>3, <1>4, <1>5 DEF Next

\* For files of every content, limits and budgets of every size, and decoders that
\* fail and are tried again: the builder of the importer is sound after every call.
THEOREM Invariance == Spec => []Inv
<1>1. Init => Inv
  BY Initially
<1>2. Inv /\ [Next]_vars => Inv'
  BY InvNext
<1> QED BY <1>1, <1>2, PTL DEF Spec

-----------------------------------------------------------------------------
\* The properties.

\* The types of the importer: its arenas under their ceilings, its reader at the
\* beginning of a record, its counters what they count (step, DatasetBuilder).
THEOREM ImporterTypes == Spec => []TypeOK
<1>1. Inv => TypeOK
  <2> SUFFICES ASSUME Inv PROVE TypeOK
    OBVIOUS
  <2>1. /\ file \in Captures
        /\ dataset # None => dataset \in CaptureDataset
        /\ dataset # None <=> answer.kind = "Finished"
    BY DEF Inv
  <2>2. importer # None => /\ importer \in Builders /\ WithinLimits(importer)
                           /\ Position(importer)
    BY SoundTyped DEF Inv
  <2> QED BY <2>1, <2>2 DEF TypeOK, Position
<1> QED BY <1>1, Invariance, PTL

\* A step spends no more than its budget, reports progress only when it has made
\* some, and never asks twice for the budget it asked for (step, ImportStep).
THEOREM StepsAdvanceShown == Spec => StepsAdvance
<1> DEFINE spent == importer'.consumed - importer.consumed
           Advances ==
              /\ spent <= answer'.budget.bytes
              /\ importer'.records - importer.records <= answer'.budget.records
              /\ answer'.kind = "Progress" => spent > 0
              /\ answer'.kind = "NeedsBudget" => /\ spent = 0
                                                /\ answer'.minimum > answer'.budget.bytes
              /\ /\ answer.kind = "NeedsBudget"
                 /\ answer'.budget.bytes >= answer.minimum
                 /\ answer'.budget.records > 0
                 => answer'.kind # "NeedsBudget"
<1>1. ASSUME Inv, Next, importer # None, importer' # None PROVE Advances
  <2>1. PICK budget \in Budgets, fails \in BOOLEAN : Step(budget, fails)
    <3>1. ~New
      BY <1>1 DEF New, Inv
    <3>2. ~Finish /\ ~Cancel
      BY <1>1 DEF Finish, Cancel
    <3> QED BY <1>1, <3>1, <3>2 DEF Next
  <2>2. PICK s \in Calls : /\ Running(importer, budget, s)
                           /\ importer' = s.m /\ answer' = StepAnswer(s, budget)
                           /\ answer'.kind = s.kind /\ answer'.budget = budget
                           /\ s.kind = "NeedsBudget" => answer'.minimum = Declared(Upcoming(s.m))
    BY <1>1, <2>1, StepTaken
  <2>3. /\ budget \in [records : Nat, bytes : Nat] /\ Sound(importer) /\ file \in Captures
    BY <1>1, <2>1, StepTaken
  <2>4. /\ importer.consumed \in Nat /\ importer.records \in Nat
        /\ budget.bytes \in Nat /\ budget.records \in Nat
        /\ s.bytes \in Nat /\ s.records \in Nat
    BY <2>3, PlaceTyped DEF Calls
  <2>5. /\ importer'.consumed = importer.consumed + s.bytes
        /\ importer'.records = importer.records + s.records
        /\ s.bytes <= budget.bytes /\ s.records <= budget.records
        /\ s.kind = "Progress" => s.bytes > 0
        /\ s.kind = "NeedsBudget" => /\ s.m = importer /\ s.bytes = 0
                                     /\ Declared(Upcoming(importer)) \in Nat
                                     /\ Declared(Upcoming(importer)) > budget.bytes
    BY <2>2 DEF Running
  <2>6. spent = s.bytes /\ importer'.records - importer.records = s.records
    BY <2>4, <2>5
  <2>7. answer.kind = "NeedsBudget" => answer.minimum = Declared(Upcoming(importer))
    BY <1>1 DEF Inv
  <2>8. s.kind = "NeedsBudget" => answer'.minimum > budget.bytes
    BY <2>2, <2>5
  <2>9. answer.kind = "NeedsBudget" /\ answer'.budget.bytes >= answer.minimum
            => answer'.kind # "NeedsBudget"
    <3> SUFFICES ASSUME answer.kind = "NeedsBudget", s.kind = "NeedsBudget", 
                        budget.bytes >= answer.minimum
                 PROVE  FALSE
      BY <2>2
    <3>1. answer.minimum > budget.bytes /\ answer.minimum \in Nat
      BY <2>5, <2>7
    <3> QED BY <2>4, <3>1
  <2> HIDE DEF spent
  <2> QED BY <2>2, <2>5, <2>6, <2>8, <2>9
<1>2. Inv /\ [Next]_vars => [importer # None /\ importer' # None => Advances]_vars
  BY <1>1
<1> HIDE DEF spent, Advances
<1> QED BY <1>2, Invariance, PTL DEF Spec, StepsAdvance, Advances, spent

\* An entry that one span has, and no other, is owned once.
LEMMA OwnedOnceShown ==
    ASSUME NEW owned, NEW spans,
           \A e \in owned : \E k \in DOMAIN spans : \A j \in DOMAIN spans :
               e \in Entries(spans[j]) <=> j = k
    PROVE  OwnedOnce(owned, spans)
<1> SUFFICES ASSUME NEW e \in owned
             PROVE  Cardinality({k \in DOMAIN spans : e \in Entries(spans[k])}) = 1
  BY DEF OwnedOnce
<1>1. PICK k \in DOMAIN spans : \A j \in DOMAIN spans : e \in Entries(spans[j]) <=> j = k
  OBVIOUS
<1>2. {j \in DOMAIN spans : e \in Entries(spans[j])} = {k}
  BY <1>1
<1> QED BY <1>2, FS_Singleton

\* The sections and interfaces of a complete builder pass their validation.
LEMMA SectionsValid ==
    ASSUME file \in Captures, NEW m, Sound(m), m.complete,
           NEW d, d.sections = m.sections, d.interfaces = m.interfaces, d.strings = m.strings,
           d.byte_length = file.length
    PROVE  ValidSections(d) /\ ValidInterfaces(d)
<1>1. /\ m \in Builders /\ m.current = None /\ Sections(m) /\ Interfaces(m)
  BY SoundTyped DEF Position, Skeleton
<1>2. /\ m.sections \in Seq(SectionMetadata) /\ m.interfaces \in Seq(InterfaceMetadata)
      /\ Len(m.sections) \in Nat /\ Len(m.interfaces) \in Nat
  BY <1>1, ArenasTyped
<1>3. /\ DOMAIN m.sections = 1 .. Len(m.sections)
      /\ DOMAIN m.interfaces = 1 .. Len(m.interfaces)
  BY <1>2
<1>4. \A s \in DOMAIN m.sections :
         /\ SectionEnd(m, s) = End(m.sections[s].byte_range)
         /\ InterfaceStart(m, s) = m.sections[s].interfaces.start
         /\ InterfaceEnd(m, s) = End(m.sections[s].interfaces)
         /\ InterfaceStart(m, s) + 1 .. InterfaceEnd(m, s) = Entries(m.sections[s].interfaces)
  BY <1>1 DEF SectionEnd, InterfaceStart, InterfaceEnd, Entries
<1>5. \A s \in DOMAIN m.sections :
         /\ m.sections[s].interfaces.start \in Int /\ End(m.sections[s].interfaces) \in Int
  <2>1. \A s \in DOMAIN m.sections : m.sections[s] \in SectionMetadata
    BY <1>2, <1>3
  <2> QED BY <2>1 DEF SectionMetadata, Ranges, End
<1>6. \A e \in DOMAIN m.interfaces :
         /\ m.interfaces[e].section \in DOMAIN m.sections
         /\ \A s \in DOMAIN m.sections :
               e \in Entries(m.sections[s].interfaces) <=> s = m.interfaces[e].section
         /\ m.interfaces[e].section_index = e - m.sections[m.interfaces[e].section].interfaces.start
         /\ m.interfaces[e].byte_range.start
               >= m.sections[m.interfaces[e].section].byte_range.start
         /\ End(m.interfaces[e].byte_range)
               <= End(m.sections[m.interfaces[e].section].byte_range)
         /\ m.interfaces[e].name # None => HasString(m, m.interfaces[e].name)
  BY <1>1, <1>4 DEF Interfaces
<1>7. ValidInterfaces(d)
  BY <1>6 DEF ValidInterfaces, Covers, HasString
<1>8. \A s \in DOMAIN m.sections :
         /\ IsWithin(m.sections[s].byte_range, file.length)
         /\ s > 1 => m.sections[s].byte_range.start >= End(m.sections[s - 1].byte_range)
         /\ m.sections[s].interfaces.start >= 0
         /\ End(m.sections[s].interfaces) <= Len(m.interfaces)
  BY <1>1, <1>4 DEF Sections, IsWithin
<1>9. \A s \in DOMAIN m.sections : Entries(m.sections[s].interfaces) \subseteq DOMAIN m.interfaces
  BY <1>2, <1>3, <1>5, <1>8 DEF Entries
<1>10. \A s \in DOMAIN m.sections : \A e \in Entries(m.sections[s].interfaces) :
          /\ m.interfaces[e].section = s
          /\ m.interfaces[e].section_index = e - m.sections[s].interfaces.start
  BY <1>6, <1>9
<1>11. OwnedOnce(DOMAIN d.interfaces, [i \in DOMAIN d.sections |-> d.sections[i].interfaces])
  <2> DEFINE spans == [i \in DOMAIN d.sections |-> d.sections[i].interfaces]
  <2>1. /\ DOMAIN spans = DOMAIN m.sections
        /\ \A s \in DOMAIN m.sections : spans[s] = m.sections[s].interfaces
    OBVIOUS
  <2> HIDE DEF spans
  <2>2. \A e \in DOMAIN m.interfaces : \E k \in DOMAIN spans : \A j \in DOMAIN spans :
            e \in Entries(spans[j]) <=> j = k
    <3> TAKE e \in DOMAIN m.interfaces
    <3>1. m.interfaces[e].section \in DOMAIN spans
      BY <1>6, <2>1
    <3> WITNESS m.interfaces[e].section \in DOMAIN spans
    <3> QED BY <1>6, <2>1
  <2>3. OwnedOnce(DOMAIN m.interfaces, spans)
    BY <2>2, OwnedOnceShown
  <2> QED BY <2>3 DEF spans
<1>12. ValidSections(d)
  BY <1>8, <1>10, <1>11 DEF ValidSections, ArenaRangeFits
<1> QED BY <1>7, <1>12

\* The packets, layers and diagnostics of a complete builder pass their validation:
\* no diagnostic of an attempt is left.
LEMMA PacketsValid ==
    ASSUME file \in Captures, NEW m, Sound(m), m.complete,
           NEW d, d.sections = m.sections, d.interfaces = m.interfaces, d.packets = m.packets,
           d.layers = m.layers, d.diagnostics = m.diagnostics, d.strings = m.strings,
           d.byte_length = file.length
    PROVE  ValidPackets(d) /\ ValidLayersAndDiagnostics(d)
<1>1. /\ m \in Builders /\ m.current = None /\ Sections(m) /\ Interfaces(m)
      /\ \A i \in DOMAIN m.packets : PacketWhole(m, m.packets[i])
      /\ PacketLayers(m) /\ PacketDiagnostics(m) /\ Diagnostics(m) /\ Layers(m)
  BY SoundTyped DEF Position, Skeleton, Trees
<1>2. /\ m.packets \in Seq(PacketRecord) /\ m.sections \in Seq(SectionMetadata)
      /\ m.layers \in Seq(LayerFact) /\ m.diagnostics \in Seq(DiagnosticRecord)
      /\ Len(m.packets) \in Nat /\ Len(m.sections) \in Nat /\ Len(m.diagnostics) \in Nat
      /\ Len(m.layers) \in Nat /\ file.length \in Nat
  BY <1>1, ArenasTyped, FileTyped
<1>3. /\ DOMAIN m.packets = 1 .. Len(m.packets) /\ DOMAIN m.sections = 1 .. Len(m.sections)
      /\ DOMAIN m.diagnostics = 1 .. Len(m.diagnostics)
  BY <1>2
<1>4. \A s \in DOMAIN m.sections :
         /\ SectionEnd(m, s) = End(m.sections[s].byte_range)
         /\ End(m.sections[s].byte_range) <= file.length
         /\ End(m.sections[s].byte_range) \in Int
  <2>1. \A s \in DOMAIN m.sections : SectionEnd(m, s) = End(m.sections[s].byte_range)
    BY <1>1 DEF SectionEnd
  <2>2. \A s \in DOMAIN m.sections : SectionEnd(m, s) <= file.length
    BY <1>1 DEF Sections
  <2>3. \A s \in DOMAIN m.sections : End(m.sections[s].byte_range) \in Int
    <3>1. \A s \in DOMAIN m.sections : m.sections[s] \in SectionMetadata
      BY <1>2, <1>3
    <3> QED BY <3>1 DEF SectionMetadata, Ranges, End
  <2> QED BY <2>1, <2>2, <2>3
<1>5. Pending(m) = {}
  BY SoundTyped DEF Held
<1>6. \A g \in DOMAIN m.diagnostics : m.diagnostics[g].scope # None =>
          m.diagnostics[g].scope \in DOMAIN m.packets
  <2> TAKE g \in DOMAIN m.diagnostics
  <2>1. m.diagnostics[g].scope # None => m.diagnostics[g].scope \in 1 .. Len(m.packets) + 1
    BY <1>1 DEF Diagnostics
  <2>2. m.diagnostics[g].scope # Len(m.packets) + 1
    BY <1>5 DEF Pending
  <2> QED BY <1>2, <1>3, <2>1, <2>2
<1>7. \A i \in DOMAIN m.packets :
         LET p == m.packets[i]
         IN  /\ p.layers.start \in Int /\ End(p.layers) \in Int
             /\ p.diagnostics.start \in Int /\ End(p.diagnostics) \in Int
             /\ End(p.data) \in Int
  <2>1. \A i \in DOMAIN m.packets : m.packets[i] \in PacketRecord
    BY <1>2, <1>3
  <2> QED BY <2>1 DEF PacketRecord, Ranges, End
<1>8. ASSUME NEW i \in DOMAIN m.packets
      PROVE  LET p == m.packets[i]
             IN  /\ p.section \in DOMAIN d.sections
                 /\ p.interface \in DOMAIN d.interfaces
                 /\ d.interfaces[p.interface].section = p.section
                 /\ p.timestamp # None =>
                       p.timestamp.resolution = d.interfaces[p.interface].resolution
                 /\ p.data.length = p.captured_length
                 /\ IsWithin(p.data, d.byte_length)
                 /\ Covers(d.sections[p.section].byte_range, p.data)
  <2>1. PacketWhole(m, m.packets[i])
    BY <1>1
  <2>2. End(m.packets[i].data) <= file.length
    BY <1>2, <1>4, <1>7, <2>1 DEF PacketWhole
  <2> QED BY <1>4, <2>1, <2>2 DEF PacketWhole, IsWithin, Covers
<1>9. ASSUME NEW i \in DOMAIN m.packets
      PROVE  LET p == m.packets[i]
             IN  /\ ArenaRangeFits(p.layers, d.layers)
                 /\ ArenaRangeFits(p.diagnostics, d.diagnostics)
                 /\ \A l \in Entries(p.layers) : Covers(p.data, d.layers[l].byte_range)
                 /\ \A g \in Entries(p.diagnostics) :
                       /\ d.diagnostics[g].scope = i
                       /\ d.diagnostics[g].byte_range # None =>
                             Covers(p.data, d.diagnostics[g].byte_range)
  <2> DEFINE p == m.packets[i]
  <2>1. /\ End(p.layers) <= Len(m.layers)
        /\ \A l \in Entries(p.layers) : Covers(p.data, m.layers[l].byte_range)
    BY <1>1 DEF PacketLayers
  <2>2. /\ p.diagnostics.start >= 0 /\ End(p.diagnostics) <= Len(m.diagnostics)
        /\ \A g \in DOMAIN m.diagnostics :
              /\ g \in Entries(p.diagnostics) <=> m.diagnostics[g].scope = i
              /\ m.diagnostics[g].scope = i => Covers(p.data, m.diagnostics[g].byte_range)
    BY <1>1 DEF PacketDiagnostics
  <2>3. Entries(p.diagnostics) \subseteq DOMAIN m.diagnostics
    BY <1>2, <1>3, <1>7, <2>2, SMTT(30) DEF Entries
  <2> QED BY <2>1, <2>2, <2>3 DEF ArenaRangeFits
<1>10. OwnedOnce(DOMAIN d.layers, [i \in DOMAIN d.packets |-> d.packets[i].layers])
  <2> DEFINE spans == [i \in DOMAIN d.packets |-> d.packets[i].layers]
  <2>1. /\ DOMAIN spans = DOMAIN m.packets
        /\ \A i \in DOMAIN m.packets : spans[i] = m.packets[i].layers
    OBVIOUS
  <2> HIDE DEF spans
  <2>2. \A l \in DOMAIN m.layers : \E i \in DOMAIN m.packets : \A j \in DOMAIN m.packets :
            l \in Entries(m.packets[j].layers) <=> j = i
    BY <1>1 DEF PacketLayers
  <2>3. OwnedOnce(DOMAIN m.layers, spans)
    BY <2>1, <2>2, OwnedOnceShown
  <2> QED BY <2>3 DEF spans
<1>11. OwnedOnce({g \in DOMAIN d.diagnostics : d.diagnostics[g].scope # None},
                 [i \in DOMAIN d.packets |-> d.packets[i].diagnostics])
  <2> DEFINE spans == [i \in DOMAIN d.packets |-> d.packets[i].diagnostics]
             owned == {g \in DOMAIN d.diagnostics : d.diagnostics[g].scope # None}
  <2>1. /\ DOMAIN spans = DOMAIN m.packets
        /\ \A i \in DOMAIN m.packets : spans[i] = m.packets[i].diagnostics
    OBVIOUS
  <2> HIDE DEF spans
  <2>2. \A g \in owned : /\ g \in DOMAIN m.diagnostics
                         /\ m.diagnostics[g].scope \in DOMAIN m.packets
    BY <1>6
  <2>3. \A i \in DOMAIN m.packets : \A g \in DOMAIN m.diagnostics :
            g \in Entries(m.packets[i].diagnostics) <=> m.diagnostics[g].scope = i
    BY <1>1 DEF PacketDiagnostics
  <2> HIDE DEF owned
  <2>4. \A g \in owned : \E k \in DOMAIN spans : \A j \in DOMAIN spans :
            g \in Entries(spans[j]) <=> j = k
    <3> TAKE g \in owned
    <3>1. m.diagnostics[g].scope \in DOMAIN spans
      BY <2>1, <2>2
    <3> WITNESS m.diagnostics[g].scope \in DOMAIN spans
    <3> QED BY <2>1, <2>2, <2>3
  <2>5. OwnedOnce(owned, spans)
    BY <2>4, OwnedOnceShown
  <2> QED BY <2>5 DEF spans, owned
<1>12. ValidPackets(d)
  BY <1>8, <1>9, <1>10, <1>11, SMTT(30) DEF ValidPackets
<1>13. ValidLayersAndDiagnostics(d)
  <2>1. \A l \in DOMAIN m.layers : /\ HasString(m, m.layers[l].protocol)
                                   /\ IsWithin(m.layers[l].byte_range, file.length)
    BY <1>1 DEF Layers
  <2>2. \A g \in DOMAIN m.diagnostics : /\ HasString(m, m.diagnostics[g].message)
                                        /\ IsWithin(m.diagnostics[g].byte_range, file.length)
    BY <1>1 DEF Diagnostics
  <2> QED BY <1>6, <2>1, <2>2 DEF ValidLayersAndDiagnostics, HasString
<1> QED BY <1>12, <1>13

\* The fields of a builder pass their validation: they are trees, one for each root.
LEMMA FieldsValid ==
    ASSUME file \in Captures, NEW m, Sound(m),
           NEW d, d.layers = m.layers, d.fields = m.fields, d.field_children = m.field_children,
           d.strings = m.strings, d.byte_length = file.length
    PROVE  ValidFields(d)
<1>1. m \in Builders /\ Layers(m) /\ Fields(m) /\ FieldChildren(m)
  BY SoundTyped DEF Trees
<1>2. /\ \A i \in DOMAIN m.fields : Parents(d, i) = Parents(m, i) /\ Roots(d, i) = Roots(m, i)
      /\ \A id : HasString(d, id) <=> HasString(m, id)
  BY DEF Parents, Roots, HasString
<1>3. \A i \in DOMAIN m.fields :
         LET field == m.fields[i]
         IN  /\ IsWithin(field.byte_range, file.length)
             /\ End(field.children) <= Len(m.field_children)
             /\ \A c \in Entries(field.children) :
                   /\ m.field_children[c] > i
                   /\ m.field_children[c] \in DOMAIN m.fields
                   /\ Covers(field.byte_range, m.fields[m.field_children[c]].byte_range)
             /\ HasString(m, field.name)
             /\ field.text # None => HasString(m, field.text)
             /\ field.bytes # None => Covers(field.byte_range, field.bytes)
             /\ Parents(m, i) + Roots(m, i) = 1
  BY <1>1 DEF Fields
<1>4. OwnedOnce(DOMAIN d.field_children, [i \in DOMAIN d.fields |-> d.fields[i].children])
  <2> DEFINE spans == [i \in DOMAIN d.fields |-> d.fields[i].children]
  <2>1. /\ DOMAIN spans = DOMAIN m.fields
        /\ \A i \in DOMAIN m.fields : spans[i] = m.fields[i].children
    OBVIOUS
  <2> HIDE DEF spans
  <2>2. \A c \in DOMAIN m.field_children : \E f \in DOMAIN m.fields : \A j \in DOMAIN m.fields :
            c \in Entries(m.fields[j].children) <=> j = f
    BY <1>1 DEF FieldChildren
  <2>3. OwnedOnce(DOMAIN m.field_children, spans)
    BY <2>1, <2>2, OwnedOnceShown
  <2> QED BY <2>3 DEF spans
<1>5. \A l \in DOMAIN m.layers : m.layers[l].root # None =>
          /\ m.layers[l].root \in DOMAIN m.fields
          /\ Covers(m.layers[l].byte_range, m.fields[m.layers[l].root].byte_range)
  BY <1>1 DEF Layers
<1> QED BY <1>2, <1>3, <1>4, <1>5 DEF ValidFields, ArenaRangeFits

\* CaptureDataset::validate accepts the dataset of every complete builder.
LEMMA DatasetValid ==
    ASSUME file \in Captures, NEW m, Sound(m), m.complete
    PROVE  Validate(DatasetOf(m))
<1> DEFINE d == DatasetOf(m)
<1>1. d = [byte_length |-> file.length, packet_count |-> Len(m.packets),
           started_at |-> m.started_at, ended_at |-> m.ended_at,
           sections |-> m.sections, interfaces |-> m.interfaces, packets |-> m.packets,
           layers |-> m.layers, fields |-> m.fields, field_children |-> m.field_children,
           diagnostics |-> m.diagnostics, strings |-> m.strings]
  BY DatasetTyped
<1> HIDE DEF d
<1>2. /\ d.byte_length = file.length /\ d.packet_count = Len(m.packets)
      /\ d.started_at = m.started_at /\ d.ended_at = m.ended_at
      /\ d.sections = m.sections /\ d.interfaces = m.interfaces /\ d.packets = m.packets
      /\ d.layers = m.layers /\ d.fields = m.fields /\ d.field_children = m.field_children
      /\ d.diagnostics = m.diagnostics /\ d.strings = m.strings
  BY <1>1
<1>3. ValidMetadata(d)
  <2>1. m.packets \in Seq(PacketRecord) /\ TimesOf(m.packets, m.started_at, m.ended_at)
    BY SoundTyped, ArenasTyped DEF Trees, Times
  <2>2. m.started_at = Earliest(m.packets) /\ m.ended_at = Latest(m.packets)
    BY <2>1, TimesFound
  <2> QED BY <1>2, <2>2 DEF ValidMetadata
<1>4. ValidSections(d) /\ ValidInterfaces(d)
  BY <1>2, SectionsValid
<1>5. ValidPackets(d) /\ ValidLayersAndDiagnostics(d)
  BY <1>2, PacketsValid
<1>6. ValidFields(d)
  BY <1>2, FieldsValid
<1> QED BY <1>3, <1>4, <1>5, <1>6 DEF Validate, d

\* An importer that is ready can always be finished: validate never refuses what the
\* builder holds, whatever the file was and whatever failed on the way (finish).
THEOREM ReadyFinishes == Spec => []FinishSucceeds
<1>1. Inv => FinishSucceeds
  BY DatasetValid DEF Inv, FinishSucceeds
<1> QED BY <1>1, Invariance, PTL

\* Each record the reader has passed left exactly one thing in the builder, at its own
\* bytes, and a diagnostic covers what a ready importer has not read (process, stop).
THEOREM NothingSkipped == Spec => []NothingIsSkippedSilently
<1>1. Inv => NothingIsSkippedSilently
  <2> SUFFICES ASSUME Inv, importer # None
               PROVE  /\ \A i \in 1 .. importer.at - 1 : Cardinality(Products(importer, i)) = 1
                      /\ importer.complete /\ Left(importer) > 0 =>
                            \E g \in DOMAIN importer.diagnostics :
                                /\ importer.diagnostics[g].scope = None
                                /\ importer.diagnostics[g].byte_range.start = importer.consumed
                                /\ importer.diagnostics[g].code
                                      \in {"TRUNCATED_RECORD", "INVALID_CAPTURE_HEADER"}
    BY DEF NothingIsSkippedSilently
  <2>1. Told(importer)
    BY SoundTyped DEF Inv
  <2>2. \A i \in 1 .. importer.at - 1 : \E x : Products(importer, i) = {x}
    BY <2>1 DEF Told
  <2>3. \A i \in 1 .. importer.at - 1 : Cardinality(Products(importer, i)) = 1
    BY <2>2, FS_Singleton
  <2> QED BY <2>1, <2>3 DEF Told
<1> QED BY <1>1, Invariance, PTL
=============================================================================
