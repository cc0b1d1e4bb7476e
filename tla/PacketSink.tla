----------------------------- MODULE PacketSink -----------------------------
(***************************************************************************)
(* The arenas of the dataset builder and the view of them one packet's     *)
(* decoder gets (PacketDecodeSink and DatasetBuilder in                    *)
(* packet-core/src/import.rs).  An operation takes a builder and returns   *)
(* [b |-> builder, out |-> outcome]: an error leaves in the builder what   *)
(* the operation had already written.                                      *)
(*                                                                         *)
(* A decoder is the sequence of calls it makes on its sink, each a record  *)
(* with its byte ranges relative to the packet and its fields counted from *)
(* 1 in the packet.                                                        *)
(***************************************************************************)
EXTENDS CaptureModel, SequencesExt

Continue(b) == [b |-> b, out |-> "Continue"]
Fails(b, error) == [b |-> b, out |-> error]

\* The error of the first condition that does not hold; conditions are [holds, error].
FirstRefusal(conditions) ==
    LET failing == {i \in DOMAIN conditions : ~conditions[i].holds}
    IN  IF failing = {} THEN "Continue"
        ELSE conditions[CHOOSE i \in failing : \A j \in failing : i <= j].error

Condition(holds, error) == [holds |-> holds, error |-> error]

\* Mutant: the ceiling is one too high.
ReserveOneMore(b, arena, additional, kind) ==
    Condition(Len(arena) + additional <= b.limits[kind] + 1, kind)

\* Room for more entries in an arena, under the ceiling of its kind.
Reserve(b, arena, additional, kind) == Condition(Len(arena) + additional <= b.limits[kind], kind)

\* One unit of StringBytes for each string.
InternRoom(b, value) ==
    Condition(Contains(b.strings, value) \/ Len(b.strings) < b.limits["StringBytes"], "StringBytes")

Intern(b, value) ==
    IF Contains(b.strings, value) \/ ~InternRoom(b, value).holds THEN b
    ELSE [b EXCEPT !.strings = Append(@, value)]

StringId(b, value) == CHOOSE id \in DOMAIN b.strings : b.strings[id] = value
-----------------------------------------------------------------------------
(* The calls                                                               *)

IsCall(call) ==
    CASE call.op = "field" ->
            /\ call.name \in Texts /\ call.text \in Optional(Texts)
            /\ call.start \in Nat /\ call.length \in Nat /\ call.bytes \in Optional(Ranges)
      [] call.op = "children" -> call.parent \in Nat /\ call.children \in Seq(Nat)
      [] call.op = "layer" ->
            /\ call.protocol \in Texts /\ call.root \in Optional(Nat)
            /\ call.start \in Nat /\ call.length \in Nat
      [] call.op = "diagnostic" ->
            /\ call.code \in Texts /\ call.start \in Nat /\ call.length \in Nat
      [] OTHER -> call.op = "fail"
-----------------------------------------------------------------------------
(* Diagnostics: of the capture (scope None) or of a packet                 *)

AddDiagnostic(b, code, scope, evidence) ==
    LET room == Reserve(b, b.diagnostics, 1, "Diagnostics")
        interned == Intern(b, code)
    IN  IF ~room.holds THEN Fails(b, room.error)
        ELSE IF ~InternRoom(b, code).holds THEN Fails(b, "StringBytes")
        ELSE Continue([interned EXCEPT !.diagnostics =
                 Append(@, [code |-> code, scope |-> scope, byte_range |-> evidence,
                            message |-> StringId(interned, code)])])

\* Mutant: what an attempt that failed has left behind is not counted to the packet.
DiagnosticStartOfAttempt(b, packet) == Len(b.diagnostics)

\* Where the diagnostics of a packet start: those already there are of an attempt
\* to process the same packet that failed.
DiagnosticStart(b, packet) ==
    LET others == {g \in DOMAIN b.diagnostics : b.diagnostics[g].scope # packet}
    IN  IF others = {} THEN 0 ELSE CHOOSE g \in others : \A h \in others : h <= g
-----------------------------------------------------------------------------
(* The sink: k is what decode_packet gave it, the packet, its bytes and    *)
(* the lengths of the arenas when the decoder was called.                  *)

PerPacket(b, arena, start, additional, kind) ==
    Condition(Len(arena) - start + additional <= b.limits[kind], kind)

LocalField(b, k, f) == f > k.fields /\ f <= Len(b.fields)

\* What the fields of this packet already are: children of a field, roots of a layer.
AssignedChildren(b, k) == {b.field_children[c] : c \in k.field_children + 1 .. Len(b.field_children)}
AssignedRoots(b, k) == {b.layers[l].root : l \in k.layers + 1 .. Len(b.layers)}

\* The packet's own range for one the decoder leaves relative to it.
Evidence(k, call) == ByteRange(k.data.start + call.start, call.length)

AddField(b, k, call) ==
    LET evidence == Evidence(k, call)
        bytes == IF call.bytes = None THEN None
                 ELSE ByteRange(k.data.start + call.bytes.start, call.bytes.length)
        named == Intern(b, call.name)
        c == IF call.text = None THEN named ELSE Intern(named, call.text)
        refusal == FirstRefusal(<<
            InternRoom(b, call.name),
            Condition(call.text # None => InternRoom(named, call.text).holds, "StringBytes"),
            Condition(Covers(k.data, evidence) /\ (bytes # None => Covers(evidence, bytes)), "ByteRange"),
            PerPacket(b, b.fields, k.fields, 1, "FieldsPerPacket"),
            Reserve(b, b.fields, 1, "Fields")>>)
    IN  IF refusal # "Continue" THEN Fails(c, refusal)
        ELSE Continue([c EXCEPT !.fields =
                 Append(@, [name |-> StringId(c, call.name), bytes |-> bytes,
                            text |-> IF call.text = None THEN None ELSE StringId(c, call.text),
                            byte_range |-> evidence, children |-> ByteRange(0, 0)])])

AcceptableChildren(b, k, parent, children) ==
    \A i \in DOMAIN children :
        /\ LocalField(b, k, children[i])
        /\ children[i] > parent
        /\ \A j \in 1 .. i - 1 : children[j] # children[i]
        /\ children[i] \notin AssignedChildren(b, k) \cup AssignedRoots(b, k)
        /\ Covers(b.fields[parent].byte_range, b.fields[children[i]].byte_range)

SetFieldChildren(b, k, call) ==
    LET parent == k.fields + call.parent
        children == [i \in DOMAIN call.children |-> k.fields + call.children[i]]
        childless == LocalField(b, k, parent) /\ b.fields[parent].children.length = 0
        refusal == FirstRefusal(<<
            Condition(childless, "FieldHierarchy"),
            PerPacket(b, b.field_children, k.field_children, Len(children), "FieldChildrenPerPacket"),
            Reserve(b, b.field_children, Len(children), "FieldChildren"),
            Condition(childless => AcceptableChildren(b, k, parent, children), "FieldHierarchy")>>)
    IN  IF refusal # "Continue" THEN Fails(b, refusal)
        ELSE Continue([b EXCEPT !.field_children = @ \o children,
                                !.fields[parent].children =
                                    ByteRange(Len(b.field_children), Len(children))])

AddLayer(b, k, call) ==
    LET evidence == Evidence(k, call)
        root == IF call.root = None THEN None ELSE k.fields + call.root
        c == Intern(b, call.protocol)
        refusal == FirstRefusal(<<
            InternRoom(b, call.protocol),
            Condition(Covers(k.data, evidence), "ByteRange"),
            Condition(root # None => /\ LocalField(b, k, root)
                                     /\ Covers(evidence, b.fields[root].byte_range)
                                     /\ root \notin AssignedChildren(b, k) \cup AssignedRoots(b, k),
                      "FieldHierarchy"),
            PerPacket(b, b.layers, k.layers, 1, "LayersPerPacket"),
            Reserve(b, b.layers, 1, "Layers")>>)
    IN  IF refusal # "Continue" THEN Fails(c, refusal)
        ELSE Continue([c EXCEPT !.layers =
                 Append(@, [protocol |-> StringId(c, call.protocol), byte_range |-> evidence,
                            root |-> root])])

AddPacketDiagnostic(b, k, call) ==
    LET evidence == Evidence(k, call)
    IN  IF ~InternRoom(b, call.code).holds THEN Fails(b, "StringBytes")
        ELSE IF ~Covers(k.data, evidence) THEN Fails(Intern(b, call.code), "ByteRange")
        ELSE AddDiagnostic(Intern(b, call.code), call.code, k.packet, evidence)

\* Every field of the packet is the child of one field or the root of one layer.
ValidateComplete(b, k) ==
    LET parents(f) == {c \in k.field_children + 1 .. Len(b.field_children) : b.field_children[c] = f}
        roots(f) == {l \in k.layers + 1 .. Len(b.layers) : b.layers[l].root = f}
    IN  \A f \in k.fields + 1 .. Len(b.fields) :
            Cardinality(parents(f)) + Cardinality(roots(f)) = 1

SinkCall(b, k, call) ==
    CASE call.op = "field"      -> AddField(b, k, call)
      [] call.op = "children"   -> SetFieldChildren(b, k, call)
      [] call.op = "layer"      -> AddLayer(b, k, call)
      [] call.op = "diagnostic" -> AddPacketDiagnostic(b, k, call)
      [] call.op = "fail"       -> Fails(b, "Decoder")
-----------------------------------------------------------------------------
(* decode_packet                                                           *)

\* Mutant: the field children are forgotten when a decode is undone.
RollbackLeavingChildren(b, k) ==
    [b EXCEPT !.layers = SubSeq(@, 1, k.layers), !.fields = SubSeq(@, 1, k.fields),
              !.diagnostics = SubSeq(@, 1, k.diagnostics), !.strings = SubSeq(@, 1, k.strings)]

RollbackDecode(b, k) ==
    [b EXCEPT !.layers = SubSeq(@, 1, k.layers), !.fields = SubSeq(@, 1, k.fields),
              !.field_children = SubSeq(@, 1, k.field_children),
              !.diagnostics = SubSeq(@, 1, k.diagnostics), !.strings = SubSeq(@, 1, k.strings)]

\* The end of a decode: complete, or undone.
Settle(r, k) ==
    IF r.out # "Continue" THEN Fails(RollbackDecode(r.b, k), r.out)
    ELSE IF ~ValidateComplete(r.b, k) THEN Fails(RollbackDecode(r.b, k), "FieldHierarchy")
    ELSE r

\* One more call of the decoder, unless one before it was refused.
Proceed(r, k, call) == IF r.out # "Continue" THEN r ELSE SinkCall(r.b, k, call)

DecodePacket(b, packet, data, decoder) ==
    LET k == [packet |-> packet, data |-> data, layers |-> Len(b.layers),
              fields |-> Len(b.fields), field_children |-> Len(b.field_children),
              diagnostics |-> Len(b.diagnostics), strings |-> Len(b.strings)]
        decoded[n \in 0 .. Len(decoder)] ==
            IF n = 0 THEN Continue(b) ELSE Proceed(decoded[n - 1], k, decoder[n])
    IN  Settle(decoded[Len(decoder)], k)
=============================================================================
