------------------------------- MODULE Fields -------------------------------
(***************************************************************************)
(* What the protocol decoders say of a packet and how it reaches the sink  *)
(* (the helpers of protocol-decoders/src/lib.rs that every decoder uses).  *)
(*                                                                         *)
(* A decoder describes a layer as a tree: a field, the range it covers     *)
(* relative to the packet, and the fields below it.  Offsets count from 0. *)
(* Of a field's value only what others depend on is kept: whether it is    *)
(* the bytes themselves, and the text of a name; numbers are read again    *)
(* from the packet where the decoder uses them.                            *)
(***************************************************************************)
EXTENDS PacketSink

MAX_CHILDREN == 64

Octet(bytes, at) == bytes[at + 1]

ReadU16(bytes, at) == 256 * Octet(bytes, at) + Octet(bytes, at + 1)

Least(a, b) == IF a <= b THEN a ELSE b
-----------------------------------------------------------------------------
(* Trees                                                                   *)

Field(name, range, bytes, text, leaf, kids) ==
    [name |-> name, range |-> range, bytes |-> bytes, text |-> text, leaf |-> leaf, kids |-> kids]

\* A number or a flag, a run of bytes, a name; a field whose children are set, even to none.
Leaf(name, range) == Field(name, range, FALSE, None, TRUE, <<>>)
Data(name, range) == Field(name, range, TRUE, None, TRUE, <<>>)
Text(name, range, text) == Field(name, range, FALSE, text, TRUE, <<>>)
Node(name, range, kids) == Field(name, range, FALSE, None, FALSE, kids)

\* One entry of a fixed layout: a number, or bytes, at an offset from the header's start.
Number(name, offset, length) == [name |-> name, offset |-> offset, length |-> length, bytes |-> FALSE]
Bytes(name, offset, length) == [name |-> name, offset |-> offset, length |-> length, bytes |-> TRUE]

\* The fields of a layout at start that are complete within the length available.
Leaves(layout, start, available) ==
    LET complete == SelectSeq(layout, LAMBDA e : e.offset + e.length <= available)
    IN  [i \in DOMAIN complete |->
            Field(complete[i].name, ByteRange(start + complete[i].offset, complete[i].length),
                  complete[i].bytes, None, TRUE, <<>>)]

\* The sequence of one element when it is there to be added.
OnlyIf(condition, element) == IF condition THEN <<element>> ELSE <<>>
-----------------------------------------------------------------------------
(* Findings: at most one is kept for a packet, of the highest priority     *)

Finding(priority, code, evidence) == [priority |-> priority, code |-> code, evidence |-> evidence]

Truncated(evidence) == Finding(100, "TRUNCATED_PROTOCOL", evidence)
Malformed(evidence) == Finding(120, "MALFORMED_PROTOCOL", evidence)
OverLimit(evidence) == Finding(110, "RESOURCE_LIMIT", evidence)
Unsupported(evidence) == Finding(80, "UNSUPPORTED_ENCAPSULATION", evidence)
WrongChecksum(evidence) == Finding(10, "INVALID_PROTOCOL_CHECKSUM", evidence)

RecordFinding(current, candidate) ==
    IF candidate # None /\ (current = None \/ candidate.priority > current.priority)
    THEN candidate ELSE current

\* evidence_or_selector
EvidenceOrSelector(range, selector) == IF range.length = 0 THEN selector ELSE range

\* The sum of the 16-bit words, an odd last byte padded: of the bytes after the first
\* `from` up to `to`, half by half.
OctetSum(bytes) ==
    LET sum[from \in 0 .. Len(bytes), to \in 0 .. Len(bytes)] ==
            CASE from = to     -> 0
              [] from + 1 = to -> (IF to % 2 = 1 THEN 256 ELSE 1) * bytes[to]
              [] OTHER -> sum[from, (from + to) \div 2] + sum[(from + to) \div 2, to]
    IN  sum[0, Len(bytes)]

\* Folding the carries leaves all ones exactly when the sum is a positive multiple of 65535.
InternetChecksumValid(bytes) ==
    LET sum == OctetSum(bytes) IN sum > 0 /\ sum % 65535 = 0
-----------------------------------------------------------------------------
(* What a step of a decoder asks of the sink, in order: calls of the sink, *)
(* and trees, with the protocol of the layer whose root they are or None.  *)

Tree(protocol, node) == [op |-> "tree", protocol |-> protocol, node |-> node]

Diagnostic(code, evidence) ==
    [op |-> "diagnostic", code |-> code, start |-> evidence.start, length |-> evidence.length]

SetChildren(parent, children) ==
    IF Len(children) > MAX_CHILDREN THEN [op |-> "fail"]
    ELSE [op |-> "children", parent |-> parent, children |-> children]

Layer(protocol, range, root) ==
    [op |-> "layer", protocol |-> protocol, start |-> range.start, length |-> range.length,
     root |-> root]

AddNamedField(node) ==
    [op |-> "field", name |-> node.name, start |-> node.range.start, length |-> node.range.length,
     bytes |-> IF node.bytes THEN node.range ELSE None, text |-> node.text]

\* The calls that add a tree whose root is numbered id, and the next number: a
\* field is added before those below it, its children are set after them.
RECURSIVE Calls(_, _)
Calls(node, id) ==
    LET below[n \in 0 .. Len(node.kids)] ==
            IF n = 0 THEN [ids |-> <<>>, calls |-> <<AddNamedField(node)>>, next |-> id + 1]
            ELSE LET before == below[n - 1]
                     kid == Calls(node.kids[n], before.next)
                 IN  [ids |-> Append(before.ids, before.next), calls |-> before.calls \o kid.calls,
                      next |-> kid.next]
        all == below[Len(node.kids)]
    IN  [next |-> all.next,
         calls |-> all.calls \o OnlyIf(~node.leaf, SetChildren(id, all.ids))]

\* The number the next field of the packet gets.
NextField(r, k) == Len(r.b.fields) - k.fields + 1

\* finish_layer, when the tree is the root of a layer
CallsOf(e, id) ==
    IF e.op # "tree" THEN <<e>>
    ELSE Calls(e.node, id).calls
             \o OnlyIf(e.protocol # None, Layer(e.protocol, e.node.range, id))

EmitAll(r, k, emits) ==
    LET one(before, e) ==
            LET calls == CallsOf(e, NextField(before, k))
                called[n \in 0 .. Len(calls)] ==
                    IF n = 0 THEN before ELSE Proceed(called[n - 1], k, calls[n])
            IN  called[Len(calls)]
        emitted[n \in 0 .. Len(emits)] ==
            IF n = 0 THEN r ELSE one(emitted[n - 1], emits[n])
    IN  emitted[Len(emits)]
=============================================================================
