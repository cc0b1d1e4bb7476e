--------------------------------- MODULE Dns --------------------------------
(***************************************************************************)
(* The DNS message decoder (protocol-decoders/src/dns.rs): names with      *)
(* compression, questions and resource records.                            *)
(*                                                                         *)
(* m is the message, a sequence of bytes; offsets count from its start.  s *)
(* is what parsing has met so far: how many names and text strings, and    *)
(* the offsets a later pointer may refer to.  A parser gives its fault, or *)
(* None and what it parsed with the next s.                                *)
(***************************************************************************)
EXTENDS Fields

CONSTANTS MAX_QUESTIONS, MAX_RECORDS, MAX_NAMES, MAX_POINTER_HOPS, MAX_TXT_STRINGS,
          MAX_NAME_WIRE_BYTES,      \* of an expanded name
          MAX_NAME_RENDERED_BYTES,  \* of its text
          MAX_NAME_COMPONENTS       \* of its encoding

ASSUME DnsAssumption ==
    {MAX_QUESTIONS, MAX_RECORDS, MAX_NAMES, MAX_POINTER_HOPS, MAX_TXT_STRINGS,
     MAX_NAME_WIRE_BYTES, MAX_NAME_RENDERED_BYTES, MAX_NAME_COMPONENTS} \subseteq Nat

DNS_HEADER_LENGTH == 12

TYPE_A == 1
TYPE_NS == 2
TYPE_CNAME == 5
TYPE_SOA == 6
TYPE_PTR == 12
TYPE_MX == 15
TYPE_TXT == 16
TYPE_AAAA == 28
CLASS_IN == 1

Fault(kind, offset, length) == [kind |-> kind, offset |-> offset, length |-> length]

\* DnsFault::finding, base the message's place in the packet
FaultFinding(fault, base) ==
    LET evidence == ByteRange(base + fault.offset, fault.length)
    IN  CASE fault.kind = "truncated" -> Truncated(evidence)
          [] fault.kind = "malformed" -> Malformed(evidence)
          [] fault.kind = "resource"  -> OverLimit(evidence)

\* as_malformed_rdata: what ends early inside record data contradicts its length.
AsMalformedRdata(fault, length_offset) ==
    IF fault # None /\ fault.kind = "truncated" THEN Fault("malformed", length_offset, 2) ELSE fault

NameState == [boundaries |-> {}, names |-> 0, txt_strings |-> 0]
-----------------------------------------------------------------------------
(* Names                                                                   *)

\* append_label: a byte that is not graphic, a dot or a backslash is rendered as four.
RenderedLength(label) ==
    LET plain(byte) == byte \in 33 .. 126 /\ byte \notin {46, 92}
        escaped == Cardinality({i \in DOMAIN label : ~plain(label[i])})
    IN  Len(label) + 3 * escaped + 1

Name(fault, start, w) ==
    [fault |-> fault, start |-> start, end |-> w.end, labels |-> w.labels,
     components |-> w.components]

\* Where a pointer may lead: before itself, to where a part of a complete name began.
AcceptableTarget(m, s, cursor, target) ==
    target < Len(m) /\ target < cursor /\ target \in s.boundaries

\* Mutant: every pointer followed moves the end, not only the first.
EndOfLastPointer(w) == w.cursor + 2

\* Where the encoding of a name ends: after its first pointer, or None while it is direct.
EncodedEnd(w) == IF w.direct THEN w.cursor + 2 ELSE w.end

\* The loop of parse_name.  w: where it is, whether still in the name's own bytes,
\* which end at limit, the wire and rendered lengths and the labels so far, the
\* pointers followed, the offsets of the parts, and where the encoding ended.
RECURSIVE NameFrom(_, _, _, _, _)
NameFrom(m, s, start, limit, w) ==
    LET bound == IF w.direct THEN limit ELSE Len(m)
        octet == Octet(m, w.cursor)
        fails(kind, length) == Name(Fault(kind, w.cursor, length), start, w)
        \* push_component
        direct == IF w.direct THEN [w EXCEPT !.components = Append(@, w.cursor)] ELSE w
        crowded == w.direct /\ Len(w.components) >= MAX_NAME_COMPONENTS
        end == w.cursor + 1 + octet
        label == SubSeq(m, w.cursor + 2, end)
        target == 256 * (octet % 64) + Octet(m, w.cursor + 1)
    IN  IF w.cursor >= bound THEN Name(Fault("truncated", Least(w.cursor, Len(m)), 0), start, w)
        ELSE IF octet \in 64 .. 191 THEN fails("malformed", 1)
        ELSE IF octet = 0
        THEN CASE w.wire + 1 > MAX_NAME_WIRE_BYTES -> fails("malformed", 1)
               [] w.wire + 1 <= MAX_NAME_WIRE_BYTES /\ crowded -> fails("resource", 1)
               [] OTHER -> Name(None, start, IF w.direct THEN [direct EXCEPT !.end = w.cursor + 1] ELSE w)
        ELSE IF octet < 64
        THEN CASE end > bound -> fails("truncated", bound - w.cursor)
               [] end <= bound /\ w.wire + 1 + octet >= MAX_NAME_WIRE_BYTES -> fails("malformed", 1)
               [] \/ crowded
                  \/ w.rendered + RenderedLength(label) > MAX_NAME_RENDERED_BYTES -> fails("resource", 1)
               [] OTHER -> NameFrom(m, s, start, limit,
                               [direct EXCEPT !.cursor = end, !.wire = @ + 1 + octet,
                                              !.labels = Append(@, label),
                                              !.rendered = @ + RenderedLength(label)])
        ELSE CASE w.cursor + 2 > bound -> fails("truncated", bound - w.cursor)
               [] w.cursor + 2 <= bound /\ ~AcceptableTarget(m, s, w.cursor, target) ->
                    fails("malformed", 2)
               [] w.hops + 1 > MAX_POINTER_HOPS -> fails("resource", 2)
               [] w.hops + 1 <= MAX_POINTER_HOPS /\ crowded -> fails("resource", 1)
               [] OTHER -> NameFrom(m, s, start, limit,
                               [direct EXCEPT !.cursor = target, !.hops = @ + 1,
                                              !.direct = FALSE, !.end = EncodedEnd(w)])

\* parse_name, in the bytes before limit.
ParseName(m, start, limit, s) ==
    LET w == [cursor |-> start, direct |-> TRUE, wire |-> 0, rendered |-> 0, labels |-> <<>>,
              hops |-> 0, components |-> <<>>, end |-> None]
    IN  IF s.names >= MAX_NAMES THEN Name(Fault("resource", start, 0), start, w)
        ELSE NameFrom(m, s, start, limit, w)

\* Only a complete name publishes its parts for later pointers.
Publish(s, name) ==
    [s EXCEPT !.names = @ + 1,
              !.boundaries = @ \cup {name.components[i] : i \in DOMAIN name.components}]

\* add_name_field: the text is an interned string.
NameField(field_name, name, base) ==
    Text(field_name, ByteRange(base + name.start, name.end - name.start), ToString(name.labels))
-----------------------------------------------------------------------------
(* Header                                                                  *)

DnsHeaderLayout ==
    <<Number("transaction_id", 0, 2), Number("flags", 2, 2), Number("question_count", 4, 2),
      Number("answer_count", 6, 2), Number("authority_count", 8, 2),
      Number("additional_count", 10, 2)>>

DnsFlags ==
    <<Number("is_response", 2, 2), Number("authoritative_answer", 2, 2), Number("truncated", 2, 2),
      Number("recursion_desired", 2, 2), Number("recursion_available", 2, 2),
      Number("authenticated_data", 2, 2), Number("checking_disabled", 2, 2), Number("opcode", 2, 2),
      Number("reserved", 2, 2), Number("response_code", 2, 2)>>

\* add_partial_header_fields
DnsHeader(base, available) ==
    LET length == Least(available, DNS_HEADER_LENGTH)
    IN  Node("dns_header", ByteRange(base, length),
             Leaves(DnsHeaderLayout, base, length) \o Leaves(DnsFlags, base, length))

\* Why the sections of a message are not read, or None.
HeaderFault(m) ==
    LET answers == ReadU16(m, 6)
        authority == answers + ReadU16(m, 8)
        additional == authority + ReadU16(m, 10)
    IN  CASE Len(m) < DNS_HEADER_LENGTH -> Fault("truncated", Len(m), 0)
          [] Len(m) >= DNS_HEADER_LENGTH /\ ReadU16(m, 4) > MAX_QUESTIONS -> Fault("resource", 4, 2)
          [] /\ Len(m) >= DNS_HEADER_LENGTH /\ ReadU16(m, 4) <= MAX_QUESTIONS
             /\ additional > MAX_RECORDS ->
                Fault("resource", IF answers > MAX_RECORDS THEN 6
                                  ELSE IF authority > MAX_RECORDS THEN 8 ELSE 10, 2)
          [] OTHER -> None
-----------------------------------------------------------------------------
(* Questions                                                               *)

Item(fault, node, end, s) == [fault |-> fault, node |-> node, end |-> end, s |-> s]

\* parse_question, emit_question, behind the question's name.
QuestionBehind(name, m, start, s, base) ==
    LET end == name.end + 4
        node == Node("dns_question", ByteRange(base + start, end - start),
                     <<NameField("name", name, base), Leaf("type", ByteRange(base + name.end, 2)),
                       Leaf("class", ByteRange(base + name.end + 2, 2))>>)
    IN  CASE name.fault # None -> Item(name.fault, None, None, s)
          [] name.fault = None /\ end > Len(m) ->
                Item(Fault("truncated", name.end, Len(m) - name.end), None, None, s)
          [] OTHER -> Item(None, node, end, Publish(s, name))

ParseQuestion(m, start, s, base) ==
    QuestionBehind(ParseName(m, start, Len(m), s), m, start, s, base)
-----------------------------------------------------------------------------
(* Record data: fault, the fields it adds to the record, and s             *)

Rdata(fault, kids, s) == [fault |-> fault, kids |-> kids, s |-> s]

\* parse_txt: the strings from each offset on, count of them before it in the message.
ParseTxt(m, start, end, length_offset, s, base) ==
    LET wrong(at) == [fault |-> Fault("malformed", at, 1), kids |-> <<>>, count |-> 0]
        from[at \in start .. end, count \in s.txt_strings .. MAX_TXT_STRINGS] ==
            IF at = end THEN [fault |-> None, kids |-> <<>>, count |-> count]
            ELSE IF count >= MAX_TXT_STRINGS
            THEN [fault |-> Fault("resource", at, 1), kids |-> <<>>, count |-> 0]
            ELSE IF at + 1 + Octet(m, at) > end THEN wrong(at)
            ELSE LET text == ByteRange(base + at + 1, Octet(m, at))
                     rest == from[at + 1 + Octet(m, at), count + 1]
                 IN  [rest EXCEPT !.kids = <<Data("text", text)>> \o @]
        all == from[start, s.txt_strings]
    IN  IF start = end THEN Rdata(Fault("malformed", length_offset, 2), <<>>, s)
        ELSE Rdata(all.fault, all.kids, [s EXCEPT !.txt_strings = all.count])

\* The record types whose data is one name.
NameRdata(field_name, name, end, length_offset, s, base) ==
    IF name.fault # None THEN Rdata(AsMalformedRdata(name.fault, length_offset), <<>>, s)
    ELSE IF name.end # end THEN Rdata(Fault("malformed", name.end, end - name.end), <<>>, s)
    ELSE Rdata(None, <<NameField(field_name, name, base)>>, Publish(s, name))

SoaNumbers == <<Number("serial", 0, 4), Number("refresh", 4, 4), Number("retry", 8, 4),
                Number("expire", 12, 4), Number("minimum", 16, 4)>>

\* The first name, read from s, and the second, read from between.
SoaRdata(primary, mailbox, between, start, end, length_offset, s, base) ==
    LET refused(fault) == Rdata(AsMalformedRdata(fault, length_offset), <<>>, s)
    IN  IF primary.fault # None THEN refused(primary.fault)
        ELSE IF mailbox.fault # None THEN refused(mailbox.fault)
        ELSE IF mailbox.end + 20 # end THEN refused(Fault("malformed", length_offset, 2))
        ELSE Rdata(None,
                 <<Node("rdata", ByteRange(base + start, end - start),
                        <<NameField("primary_name_server", primary, base),
                          NameField("responsible_mailbox", mailbox, base)>>
                            \o Leaves(SoaNumbers, base + mailbox.end, 20))>>,
                 Publish(between, mailbox))

ParseSoa(m, primary, between, start, end, length_offset, s, base) ==
    SoaRdata(primary, ParseName(m, primary.end, end, between), between, start, end, length_offset, s, base)

MxRdata(exchange, start, end, length_offset, s, base) ==
    IF start + 2 > end THEN Rdata(Fault("malformed", length_offset, 2), <<>>, s)
    ELSE IF exchange.fault # None THEN exchange
    ELSE [exchange EXCEPT !.kids =
             <<Node("rdata", ByteRange(base + start, end - start),
                    <<Leaf("preference", ByteRange(base + start, 2))>> \o @)>>]

\* parse_rdata, first the name its first bytes are, where they are one: formats are
\* those of the Internet class only.
RdataBehind(first, m, type, class, start, end, length_offset, s, base) ==
    LET length == end - start
        range == ByteRange(base + start, length)
    IN  CASE class = CLASS_IN /\ type \in {TYPE_A, TYPE_AAAA} ->
                IF length = (IF type = TYPE_A THEN 4 ELSE 16)
                THEN Rdata(None, <<Data("address", range)>>, s)
                ELSE Rdata(Fault("malformed", length_offset, 2), <<>>, s)
          [] class = CLASS_IN /\ type \in {TYPE_NS, TYPE_CNAME, TYPE_PTR} ->
                NameRdata(IF type = TYPE_NS THEN "name_server"
                          ELSE IF type = TYPE_CNAME THEN "canonical_name" ELSE "domain_name",
                          first, end, length_offset, s, base)
          [] class = CLASS_IN /\ type = TYPE_SOA ->
                ParseSoa(m, first, Publish(s, first), start, end, length_offset, s, base)
          [] class = CLASS_IN /\ type = TYPE_MX ->
                MxRdata(NameRdata("exchange", first, end, length_offset, s, base),
                        start, end, length_offset, s, base)
          [] class = CLASS_IN /\ type = TYPE_TXT -> ParseTxt(m, start, end, length_offset, s, base)
          [] OTHER -> Rdata(None, <<Data("rdata", range)>>, s)

ParseRdata(m, type, class, start, end, length_offset, s, base) ==
    RdataBehind(ParseName(m, IF type = TYPE_MX THEN start + 2 ELSE start, end, s),
                m, type, class, start, end, length_offset, s, base)

RecordLayout == <<Number("type", 0, 2), Number("class", 2, 2), Number("ttl", 4, 4),
                  Number("rdata_length", 8, 2)>>

RecordItem(rdata, section, owner, start, end, s, base) ==
    IF rdata.fault # None THEN Item(rdata.fault, None, None, s)
    ELSE Item(None,
              Node(section, ByteRange(base + start, end - start),
                   <<NameField("name", owner, base)>> \o Leaves(RecordLayout, base + owner.end, 10)
                       \o rdata.kids),
              end, rdata.s)

\* parse_record, emit_record, behind the record's own name.
RecordBehind(owner, m, section, start, s, base) ==
    LET fixed == owner.end
        length_offset == fixed + 8
        data == fixed + 10
        end == data + ReadU16(m, length_offset)
    IN  IF owner.fault # None THEN Item(owner.fault, None, None, s)
        ELSE IF data > Len(m) THEN Item(Fault("truncated", fixed, Len(m) - fixed), None, None, s)
        ELSE IF end > Len(m) THEN Item(Fault("truncated", length_offset, 2), None, None, s)
        ELSE RecordItem(ParseRdata(m, ReadU16(m, fixed), ReadU16(m, fixed + 2), data, end,
                                   length_offset, Publish(s, owner), base),
                        section, owner, start, end, s, base)

ParseRecord(m, section, start, s, base) ==
    RecordBehind(ParseName(m, start, Len(m), s), m, section, start, s, base)
=============================================================================
