---------------------------- MODULE Correlation ----------------------------
(***************************************************************************)
(* Packet-relative traversal of decoded fields and their correlation with  *)
(* a selection of bytes (packet-core/src/correlation.rs), as functions of  *)
(* a dataset.                                                              *)
(***************************************************************************)
EXTENDS CaptureModel, SequencesExt

RelativeTo(packet, range) == ByteRange(range.start - packet.data.start, range.length)

\* A field that is not in the arena, or whose bytes are not in its packet.
Misplaced(d, packet, f) ==
    \/ f \notin DOMAIN d.fields
    \/ ~Covers(packet.data, d.fields[f].byte_range)

\* Mutant: the field whose children these are is counted twice.
ChildrenFitBeside(visited, waiting, children, max_fields) ==
    Len(visited) + Len(waiting) + Len(children) < max_fields

\* Room for the children beside the fields visited and those still on the stack.
ChildrenFit(visited, waiting, children, max_fields) ==
    Len(visited) + Len(waiting) + Len(children) <= max_fields

\* The traversal: the paths so far, the stack and the error that stopped it.
Visit(d, packet, max_fields, t) ==
    LET top == Head(t.stack)
        field == d.fields[top.field]
        children == SubSeq(d.field_children, field.children.start + 1, End(field.children))
        pushed == [i \in DOMAIN children |-> [field |-> children[i], parent |-> top.field,
                                              layer |-> top.layer, depth |-> top.depth + 1]]
        paths == Append(t.paths, [field |-> top.field, parent |-> top.parent, layer |-> top.layer,
                                  depth |-> top.depth, byte_range |-> RelativeTo(packet, field.byte_range)])
    IN  IF t.error # None \/ t.stack = <<>> THEN t
        ELSE IF Len(t.paths) >= max_fields THEN [t EXCEPT !.error = "FieldLimitExceeded"]
        ELSE IF Misplaced(d, packet, top.field) THEN [t EXCEPT !.error = "DatasetInvariant"]
        ELSE IF ~ChildrenFit(paths, Tail(t.stack), children, max_fields)
             THEN [t EXCEPT !.error = "FieldLimitExceeded"]
        ELSE [paths |-> paths, stack |-> pushed \o Tail(t.stack), error |-> None]

\* The stack of a layer is empty when the next one starts.
VisitLayer(d, packet, max_fields, t, layer) ==
    LET root == d.layers[packet.layers.start + layer].root
        start == [t EXCEPT !.stack = <<[field |-> root, parent |-> None, layer |-> layer, depth |-> 0]>>]
        walked[n \in 0 .. Len(d.fields)] ==
            IF n = 0 THEN start ELSE Visit(d, packet, max_fields, walked[n - 1])
    IN  IF t.error # None \/ root = None THEN t
        ELSE IF Len(t.paths) + 1 > max_fields THEN [t EXCEPT !.error = "FieldLimitExceeded"]
        ELSE walked[Len(d.fields)]

PacketFieldPaths(d, packet, max_fields) ==
    LET walked[layer \in 0 .. packet.layers.length] ==
            IF layer = 0 THEN [paths |-> <<>>, stack |-> <<>>, error |-> None]
            ELSE VisitLayer(d, packet, max_fields, walked[layer - 1], layer)
    IN  walked[packet.layers.length]
-----------------------------------------------------------------------------
(* correlate_packet_fields                                                 *)

RangesMatch(field, selection) ==
    IF selection.length = 0 THEN field.length = 0 /\ field.start = selection.start
    ELSE /\ field.length > 0
         /\ field.start < End(selection)
         /\ End(field) > selection.start

OverlapLength(left, right) ==
    LET end == IF End(left) < End(right) THEN End(left) ELSE End(right)
        start == IF left.start > right.start THEN left.start ELSE right.start
    IN  IF end > start THEN end - start ELSE 0

Flag(condition) == IF condition THEN 0 ELSE 1

\* Mutant: of fields with the same bytes the outermost is preferred.
MatchRankByIdentity(match, selection) ==
    LET containing == Covers(match.byte_range, selection)
    IN  <<Flag(match.byte_range = selection),
          Flag(containing),
          IF containing THEN match.byte_range.length ELSE 0,
          - OverlapLength(match.byte_range, selection),
          match.byte_range.length,
          match.field>>

\* The order of the matches, as a tuple compared from the left: exact, containing
\* (the shortest first), by overlap, by depth, by length, by identity.
MatchRank(match, selection) ==
    LET containing == Covers(match.byte_range, selection)
    IN  <<Flag(match.byte_range = selection),
          Flag(containing),
          IF containing THEN match.byte_range.length ELSE 0,
          - OverlapLength(match.byte_range, selection),
          - match.depth,
          match.byte_range.length,
          match.field>>

RanksBefore(r, s) == \E n \in DOMAIN r : /\ r[n] < s[n]
                                         /\ \A k \in 1 .. n - 1 : r[k] = s[k]

CorrelatePacketFields(d, packet, selection, max_fields) ==
    LET walk == PacketFieldPaths(d, packet, max_fields)
        matches == SelectSeq(walk.paths, LAMBDA p : RangesMatch(p.byte_range, selection))
    IN  IF End(selection) > packet.captured_length
        THEN [matches |-> <<>>, error |-> "SelectionOutOfBounds"]
        ELSE IF walk.error # None THEN [matches |-> <<>>, error |-> walk.error]
        ELSE [matches |-> SortSeq(matches, LAMBDA p, q : RanksBefore(MatchRank(p, selection),
                                                                     MatchRank(q, selection))),
              error |-> None]
=============================================================================
