--------------------------- MODULE MCFlowAnalysis ---------------------------
(***************************************************************************)
(* Captures for TLC.  Each is a small set of packets about one matter, and *)
(* every sequence of them up to its bound is read.                         *)
(***************************************************************************)
EXTENDS FlowAnalysis

CONSTANTS HandshakeBound, SequenceBound, AckBound, TimingBound, DnsBound,
          KeyBound, TruncationBound

At(s, f) == [s |-> s, f |-> f]

Packet(interface, protocol, from, to) ==
    [id |-> 0, interface |-> interface, protocol |-> protocol, source |-> from,
     destination |-> to, ts |-> None, truncated |-> FALSE, tcp |-> None,
     dns |-> None]

Segment(from, to, sequence, acknowledgment, flags) ==
    [Packet(1, "Tcp", from, to) EXCEPT
        !.tcp = [sequence |-> sequence, acknowledgment |-> acknowledgment,
                 flags |-> flags]]

Message(t, is_response, asks, failed, ts) ==
    [Packet(1, "Udp", IF is_response THEN 2 ELSE 1, IF is_response THEN 1 ELSE 2)
        EXCEPT !.ts = ts,
               !.dns = [id |-> t, is_response |-> is_response, asks |-> asks,
                        failed |-> failed]]

Ways == {<<1, 2>>, <<2, 1>>}

Handshake ==
    {Segment(w[1], w[2], None, None, flags) :
        w \in Ways, flags \in {{"SYN"}, {"SYN", "ACK"}, {"ACK"}, {"FIN", "ACK"}, {"RST"}}}

\* A connection of an endpoint with itself has no direction.
SelfHandshake == {[p EXCEPT !.source = 1, !.destination = 1] : p \in Handshake}

Sequencing ==
    {Segment(w[1], w[2], sequence, None, {"ACK"}) :
        w \in Ways, sequence \in {None, 0, 1}}

Acknowledging ==
    {Segment(w[1], w[2], None, a[1], a[2]) :
        w \in Ways, a \in {<<0, {"ACK"}>>, <<1, {"ACK"}>>, <<1, {}>>, <<None, {}>>}}

Timing ==
    {[p EXCEPT !.ts = ts] :
        p \in {Segment(1, 2, 0, 0, {"SYN"}), Segment(2, 1, 0, 0, {"SYN", "ACK"}),
               Segment(1, 2, 0, 0, {"ACK"}), Segment(1, 2, 0, 0, {})},
        ts \in {None, At(0, 1), At(3, 1)}}

Dns ==
    {Message(1, m[1], m[2], m[3], ts) :
        m \in {<<FALSE, TRUE, FALSE>>, <<TRUE, FALSE, FALSE>>, <<TRUE, FALSE, TRUE>>},
        ts \in {None, At(0, 1), At(1, 1)}}
    \cup {Message(1, FALSE, FALSE, FALSE, At(0, 0)),
          Message(1, TRUE, FALSE, FALSE, At(1, 0)), Message(2, FALSE, TRUE, FALSE, At(0, 0)),
          Message(2, TRUE, FALSE, TRUE, At(1, 0))}

Keys ==
    {IF q = "Tcp" THEN [Segment(w[1], w[2], 0, 0, {"ACK"}) EXCEPT !.interface = i]
                  ELSE Packet(i, q, w[1], w[2]) :
        i \in {1, 2}, q \in {"Tcp", "Udp", None}, w \in Ways \cup {<<1, 1>>}}

Truncation ==
    {[p EXCEPT !.truncated = cut] :
        p \in {Segment(1, 2, 0, 0, {"SYN"}), Segment(2, 1, 0, 0, {"RST"}),
               Segment(1, 2, 0, 0, {"RST"})},
        cut \in BOOLEAN}

MCCaptures ==
  <<[packets |-> Handshake, bound |-> HandshakeBound],
     [packets |-> SelfHandshake, bound |-> AckBound],
     [packets |-> Sequencing, bound |-> SequenceBound],
     [packets |-> Acknowledging, bound |-> AckBound],
     [packets |-> Timing, bound |-> TimingBound],
     [packets |-> Dns, bound |-> DnsBound],
     [packets |-> Keys, bound |-> KeyBound],
     [packets |-> Truncation, bound |-> TruncationBound]>>
=============================================================================
