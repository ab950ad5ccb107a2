------------------------------- MODULE Decode -------------------------------
(***************************************************************************)
(* From an Ethernet frame to events (decode_frame_with_filter_and_grep of  *)
(* src/runtime.rs and the decoders it calls).  A frame is a sequence of    *)
(* octets; what may be missing is a sequence of at most one element.       *)
(*                                                                         *)
(* Left out: the time of an event (see Calendar), its packet_id, a hash,   *)
(* and the wording of addresses, protocols, flags and query types, which   *)
(* stay the numbers they name.                                             *)
(***************************************************************************)
EXTENDS FilterTree, SequencesExt, FiniteSets

Octet == 0..255
Octets(b, i, n) == SubSeq(b, i + 1, i + n)
U8(b, i) == b[i + 1]
U16(b, i) == 256 * U8(b, i) + U8(b, i + 1)
From(b, i) == SubSeq(b, i + 1, Len(b))
-----------------------------------------------------------------------------
(* Headers.                                                                *)

\* Where the IPv4 header starts: after a plain Ethernet header, or one with a
\* VLAN tag, of whose inner type only the second octet is looked at.
IpStart(frame) ==
    CASE Len(frame) > 13 /\ Octets(frame, 12, 2) = <<8, 0>> -> <<14>>
      [] Len(frame) > 17 /\ U8(frame, 12) = 129 /\ U8(frame, 17) = 0 -> <<18>>
      [] OTHER -> <<>>

\* Mutation of DecodeIp: the payload is taken to follow a header without options.
DecodeIpFixed(frame, start) ==
    IF Len(frame) < start + 20 \/ U8(frame, start) \div 16 # 4 THEN <<>>
    ELSE <<[proto  |-> U8(frame, start + 9),
            src_ip |-> Octets(frame, start + 12, 4),
            dst_ip |-> Octets(frame, start + 16, 4),
            payload |-> From(frame, start + 20), length |-> Len(frame) - start]>>

\* The total length in the header is not looked at: the payload goes on to the
\* end of the frame.
DecodeIp(frame, start) ==
    LET ihl == 4 * (U8(frame, start) % 16)
    IN  IF \/ Len(frame) < start + 20
           \/ U8(frame, start) \div 16 # 4
           \/ ihl < 20 \/ Len(frame) < start + ihl
        THEN <<>>
        ELSE <<[proto  |-> U8(frame, start + 9),
                src_ip |-> Octets(frame, start + 12, 4),
                dst_ip |-> Octets(frame, start + 16, 4),
                payload |-> From(frame, start + ihl),
                length |-> Len(frame) - start]>>

IpOf(frame) ==
    IF IpStart(frame) = <<>> THEN <<>> ELSE DecodeIp(frame, IpStart(frame)[1])

DecodeTcp(b) ==
    IF \/ Len(b) < 20
       \/ U8(b, 12) \div 16 < 5 \/ Len(b) < 4 * (U8(b, 12) \div 16)
    THEN <<>>
    ELSE <<[src_port |-> U16(b, 0), dst_port |-> U16(b, 2),
            seq |-> Octets(b, 4, 4), ack |-> Octets(b, 8, 4), flags |-> U8(b, 13),
            payload |-> From(b, 4 * (U8(b, 12) \div 16))]>>

DecodeUdp(b) ==
    IF Len(b) < 8 THEN <<>>
    ELSE <<[src_port |-> U16(b, 0), dst_port |-> U16(b, 2),
            payload |-> From(b, 8)]>>

\* Mutation of Layer4: the ports are read wherever there is room for them.
Layer4Unchecked(ip) ==
    IF ip.proto \notin {6, 17} \/ Len(ip.payload) < 4 THEN <<>>
    ELSE <<[src_port |-> U16(ip.payload, 0), dst_port |-> U16(ip.payload, 2)]>>

\* The header the filter sees the ports of.
Layer4(ip) ==
    CASE ip.proto = 6  -> DecodeTcp(ip.payload)
      [] ip.proto = 17 -> DecodeUdp(ip.payload)
      [] OTHER         -> <<>>

InfoOf(ip) ==
    LET l4 == Layer4(ip)
    IN  [proto |-> ip.proto, src_ip |-> ip.src_ip, dst_ip |-> ip.dst_ip,
         length |-> ip.length,
         src_port |-> {l4[i].src_port : i \in DOMAIN l4},
         dst_port |-> {l4[i].dst_port : i \in DOMAIN l4}]
-----------------------------------------------------------------------------
(* DNS: the name and type of the first question.                           *)

\* An octet above 127 is taken to end the message: no name here has a character
\* of more than one octet.
Utf8(b) == \A i \in DOMAIN b : b[i] < 128

\* The labels from offset on, and the offset after the closing zero.
Labels(b, offset) ==
    LET from[o \in Nat] ==
          LET n == U8(b, o)
              label == Octets(b, o + 1, n)
              more == from[o + 1 + n]
          IN  IF o >= Len(b) THEN <<>>
              ELSE IF n = 0 THEN <<[labels |-> <<>>, offset |-> o + 1]>>
              ELSE IF n >= 192 \/ o + 1 + n > Len(b) \/ ~Utf8(label) \/ more = <<>>
              THEN <<>>
              ELSE <<[labels |-> <<label>> \o more[1].labels, offset |-> more[1].offset]>>
    IN  from[offset]

\* Mutation of DecodeDns: a question that ends early has the type zero.
DecodeDnsLenient(b) ==
    LET name == Labels(b, 12)
    IN  IF Len(b) < 12 \/ U16(b, 4) = 0 \/ name = <<>> \/ name[1].labels = <<>>
        THEN <<>>
        ELSE <<[name  |-> IF U8(b, 2) >= 128 THEN "dns_response" ELSE "dns_query",
                query |-> name[1].labels,
                qtype |-> IF name[1].offset + 2 > Len(b) THEN 0
                          ELSE U16(b, name[1].offset)]>>

DecodeDns(b) ==
    LET name == Labels(b, 12)
    IN  IF \/ Len(b) < 12 \/ U16(b, 4) = 0
           \/ name = <<>> \/ name[1].labels = <<>>
           \/ name[1].offset + 4 > Len(b)
        THEN <<>>
        ELSE <<[name  |-> IF U8(b, 2) >= 128 THEN "dns_response" ELSE "dns_query",
                query |-> name[1].labels, qtype |-> U16(b, name[1].offset)]>>
-----------------------------------------------------------------------------
(* HTTP: the request line, and two headers.                                *)

CR == 13
LF == 10
TAB == 9
SPACE == 32
COLON == 58
Host == <<104, 111, 115, 116>>                                  \* "host"
UserAgent == <<117, 115, 101, 114, 45, 97, 103, 101, 110, 116>>  \* "user-agent"
HttpSlash == <<72, 84, 84, 80, 47>>                             \* "HTTP/"

Blank(c) == c \in {SPACE, TAB, CR, LF}
Plain(c) == c \in {TAB, CR, LF} \cup (32..126)
Lower(b) == [i \in DOMAIN b |-> IF b[i] \in 65..90 THEN b[i] + 32 ELSE b[i]]

\* b up to the first occurrence of separator.
UpTo(b, separator) ==
    LET n == Len(separator)
        found == {i \in 0..(Len(b) - n) : Octets(b, i, n) = separator}
    IN  IF found = {} THEN b ELSE Octets(b, 0, Min(found))

\* The pieces of b between occurrences of separator.
Split(b, separator) ==
    LET pieces[i \in Nat] ==
          LET piece == UpTo(From(b, i), separator)
          IN  IF i + Len(piece) = Len(b) THEN <<piece>>
              ELSE <<piece>> \o pieces[i + Len(piece) + Len(separator)]
    IN  pieces[0]

\* Where the words of b start, and the word that starts at i.
WordStarts(b) == {i \in DOMAIN b : ~Blank(b[i]) /\ (i > 1 => Blank(b[i - 1]))}
WordAt(b, i) ==
    SubSeq(b, i, Max({j \in i..Len(b) : \A k \in i..j : ~Blank(b[k])}))

Trim(b) ==
    LET Shown(c) == ~Blank(c)
        first == SelectInSeq(b, Shown)
    IN  IF first = 0 THEN <<>> ELSE SubSeq(b, first, SelectLastInSeq(b, Shown))

\* The value of the last header of that name, up to the first empty line.
Header(lines, name) ==
    LET end == SelectInSeq(lines, LAMBDA line : line = <<>>)
        colon(line) == SelectInSeq(line, LAMBDA c : c = COLON)
        named == {i \in DOMAIN lines :
                    /\ end = 0 \/ i < end
                    /\ colon(lines[i]) > 0
                    /\ Lower(Trim(SubSeq(lines[i], 1, colon(lines[i]) - 1))) = name}
        last == lines[Max(named)]
    IN  IF named = {} THEN <<>> ELSE Trim(From(last, colon(last)))

DecodeHttp(b) ==
    LET text == SubSeq(b, 1, IF Len(b) < 2048 THEN Len(b) ELSE 2048)
        request == UpTo(text, <<CR, LF>>)
        headers == Tail(Split(text, <<CR, LF>>))
        starts == WordStarts(request)
        first == Min(starts)
        second == Min(starts \ {first})
        third == Min(starts \ {first, second})
        method == WordAt(request, first)
        version == WordAt(request, third)
    IN  IF \/ Len(b) < 14
           \/ \E i \in DOMAIN text : ~Plain(text[i])
           \/ Cardinality(starts) < 3
           \/ \E i \in DOMAIN method : method[i] \notin 65..90
           \/ ~IsPrefix(HttpSlash, version)
        THEN <<>>
        ELSE <<[name |-> "http_request", method |-> method,
                uri |-> WordAt(request, second), version |-> version,
                host |-> Header(headers, Host),
                user_agent |-> Header(headers, UserAgent)]>>
-----------------------------------------------------------------------------
(* The events of a frame.                                                  *)

TcpMessages(tcp) ==
    (IF 53 \in {tcp.src_port, tcp.dst_port} THEN DecodeDns(tcp.payload) ELSE <<>>)
    \o (IF tcp.dst_port \in {80, 8080} THEN DecodeHttp(tcp.payload) ELSE <<>>)

UdpMessages(udp) ==
    IF 53 \in {udp.src_port, udp.dst_port} THEN DecodeDns(udp.payload) ELSE <<>>

Connection(tcp) ==
    [name |-> "tcp_connection", seq |-> tcp.seq, ack |-> tcp.ack, flags |-> tcp.flags]

\* The events, each with these fields besides its own.
EachWith(fields, events) ==
    [i \in DOMAIN events |->
       [x \in DOMAIN fields \cup DOMAIN events[i] |->
          IF x \in DOMAIN fields THEN fields[x] ELSE events[i][x]]]

\* The events of a segment have its ports.
Ported(l4, events) ==
    EachWith([src_port |-> l4.src_port, dst_port |-> l4.dst_port], events)

SegmentEvents(ip) ==
    LET tcp == DecodeTcp(ip.payload)
        udp == DecodeUdp(ip.payload)
    IN  CASE ip.proto = 6 /\ tcp # <<>> ->
               Ported(tcp[1], <<Connection(tcp[1])>> \o TcpMessages(tcp[1]))
          [] ip.proto = 17 /\ udp # <<>> -> Ported(udp[1], UdpMessages(udp[1]))
          [] OTHER -> <<>>

PacketEvents(ip) ==
    LET packet == [name |-> "packet", length |-> Len(ip.payload), proto |-> ip.proto]
    IN  EachWith([src_ip |-> ip.src_ip, dst_ip |-> ip.dst_ip],
                 <<packet>> \o SegmentEvents(ip))

\* filter is no expression or one.
Events(frame, filter) ==
    LET ip == IpOf(frame)
    IN  IF \/ ip = <<>>
           \/ filter # <<>> /\ ~Matches(filter[1], InfoOf(ip[1]))
        THEN <<>> ELSE PacketEvents(ip[1])
=============================================================================
