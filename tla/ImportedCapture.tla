-------------------------- MODULE ImportedCapture --------------------------
(***************************************************************************)
(* Imported captures and the queries on their decoded fields: what the     *)
(* importer retains (Importer) is what field correlation walks             *)
(* (Correlation).                                                          *)
(***************************************************************************)
EXTENDS Importer, Correlation

Walk(packet) == PacketFieldPaths(dataset, packet, Len(dataset.fields))

\* The walks of the packets visit every decoded field of the capture exactly once, each
\* after its parent and one level below it; a walk is refused exactly when the caller
\* asks for fewer fields than the packet has, and never because of what was imported.
FieldTreesAreWalkedWhole ==
    dataset # None =>
        LET walked == FlattenSeq([i \in DOMAIN dataset.packets |-> Walk(dataset.packets[i]).paths])
        IN  /\ Len(walked) = Len(dataset.fields)
            /\ {walked[n].field : n \in DOMAIN walked} = DOMAIN dataset.fields
            /\ \A n \in DOMAIN walked : walked[n].parent # None =>
                  \E k \in 1 .. n - 1 : /\ walked[k].field = walked[n].parent
                                        /\ walked[k].depth = walked[n].depth - 1
                                        /\ Covers(walked[k].byte_range, walked[n].byte_range)
            /\ \A i \in DOMAIN dataset.packets :
                  \A max_fields \in 0 .. Len(dataset.fields) :
                      PacketFieldPaths(dataset, dataset.packets[i], max_fields).error
                          = IF max_fields < Len(Walk(dataset.packets[i]).paths)
                            THEN "FieldLimitExceeded" ELSE None

\* The field a selection of bytes resolves to has exactly these bytes if a field has,
\* contains them if a field does, and no field below or inside it would do as well.
PrimaryIsMostSpecific ==
    dataset # None =>
        \A i \in DOMAIN dataset.packets :
        \A start \in 0 .. dataset.packets[i].captured_length :
        \A length \in 0 .. dataset.packets[i].captured_length - start :
            LET packet == dataset.packets[i]
                selection == ByteRange(start, length)
                fields == ToSet(Walk(packet).paths)
                found == CorrelatePacketFields(dataset, packet, selection, Len(dataset.fields))
                touching == {p \in fields :
                                IF length = 0 THEN p.byte_range = selection
                                ELSE \E byte \in start .. start + length - 1 :
                                        Covers(p.byte_range, ByteRange(byte, 1))}
                primary == found.matches[1]
            IN  /\ found.error = None
                /\ ToSet(found.matches) = touching
                /\ found.matches # <<>> => \A p \in touching :
                      /\ p.byte_range = selection => primary.byte_range = selection
                      /\ Covers(p.byte_range, selection) =>
                            /\ Covers(primary.byte_range, selection)
                            /\ p.byte_range.length >= primary.byte_range.length
                      /\ p.byte_range = primary.byte_range => p.depth <= primary.depth
=============================================================================
