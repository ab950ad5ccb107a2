------------------------------- MODULE Capture ------------------------------
(***************************************************************************)
(* Frames as they are captured: a packet is sent, and its frame may be cut *)
(* short, octet by octet, by the snapshot length of the capture.  What the *)
(* decoder makes of the frame is held against the packet that was sent.    *)
(***************************************************************************)
EXTENDS Decode

CONSTANTS
    Packets,   \* the packets that may be sent (see Packet)
    Probes     \* the ports and addresses to filter by

VARIABLES
    sent,      \* the packet sent
    frame,     \* its frame, as captured
    decoded    \* the events of the frame, without a filter

pvars == <<sent, frame, decoded>>
-----------------------------------------------------------------------------
(* What is sent, and its octets by the standards (RFC 791, 793, 768, 1035, *)
(* 9112, IEEE 802.1Q).                                                     *)

\* words: of options in the IP and in the TCP header
Packet(vlan, words, proto, ports, message) ==
    [vlan |-> vlan, words |-> words, proto |-> proto, ports |-> ports,
     message |-> message]

Question(labels, qtype, response) ==
    [kind |-> "dns", labels |-> labels, qtype |-> qtype, response |-> response]
Request(method, uri, headers, body) ==
    [kind |-> "http", method |-> method, uri |-> uri, headers |-> headers,
     body |-> body]
Data(b) == [kind |-> "data", body |-> b]

Source == <<10, 0, 0, 1>>
Destination == <<10, 0, 0, 2>>
SequenceNumber == <<0, 0, 1, 2>>
Acknowledged == <<255, 0, 0, 3>>

Zeros(n) == [i \in 1..n |-> 0]
Wide(n) == <<n \div 256, n % 256>>
Join(pieces) == FlattenSeq(pieces)

DnsOctets(m) ==
    <<0, 7, IF m.response THEN 128 ELSE 1, 0>> \o Wide(1) \o Zeros(6)
    \o Join([i \in DOMAIN m.labels |-> <<Len(m.labels[i])>> \o m.labels[i]])
    \o <<0>> \o Wide(m.qtype) \o Wide(1)

Line(pieces) == Join(pieces) \o <<CR, LF>>

HttpOctets(m) ==
    Line(<<m.method, <<SPACE>>, m.uri, <<SPACE>>, HttpSlash \o <<49>>>>)
    \o Join([i \in DOMAIN m.headers |->
               Line(<<m.headers[i][1], <<COLON, SPACE>>, m.headers[i][2]>>)])
    \o <<CR, LF>> \o m.body

MessageOctets(m) ==
    CASE m.kind = "dns"  -> DnsOctets(m)
      [] m.kind = "http" -> HttpOctets(m)
      [] OTHER           -> m.body

\* A DNS message over TCP follows its length (RFC 1035, section 4.2.2).
SegmentOctets(p) ==
    LET message == MessageOctets(p.message)
        ports == Wide(p.ports[1]) \o Wide(p.ports[2])
    IN  CASE p.proto = 6 ->
               ports \o SequenceNumber \o Acknowledged
               \o <<16 * (5 + p.words), 24>> \o Zeros(6 + 4 * p.words)
               \o (IF p.message.kind = "dns" THEN Wide(Len(message)) ELSE <<>>)
               \o message
          [] p.proto = 17 -> ports \o Wide(8 + Len(message)) \o Zeros(2) \o message
          [] OTHER -> message

FrameOctets(p) ==
    Zeros(12) \o (IF p.vlan THEN <<129, 0, 0, 1>> ELSE <<>>) \o <<8, 0>>
    \o <<64 + 5 + p.words>> \o Zeros(8) \o <<p.proto>> \o Zeros(2)
    \o Source \o Destination \o Zeros(4 * p.words) \o SegmentOctets(p)

ASSUME PacketsAssumption == \A p \in Packets : FrameOctets(p) \in Seq(Octet)

\* What the events are filtered by.
ASSUME ProbesAssumption ==
    \A p \in Probes :
       {Proto("tcp"), Port(p), Not(Port(p)), And(Proto("tcp"), Port(p))} \subseteq Expressions
-----------------------------------------------------------------------------
CaptureInit ==
    /\ sent \in Packets
    /\ frame = FrameOctets(sent)
    /\ decoded = Events(frame, <<>>)

Keep(octets) ==
    /\ frame' = octets
    /\ decoded' = Events(octets, <<>>)
    /\ UNCHANGED sent

\* The capture kept one octet less.
CutOff == frame # <<>> /\ Keep(Front(frame))

CaptureSpec == CaptureInit /\ [][CutOff]_pvars

Uncut == frame = FrameOctets(sent)
EventsNamed(name) == {e \in ToSet(decoded) : e.name = name}
-----------------------------------------------------------------------------
(* Properties.                                                             *)

\* The events that tell of a message sent over UDP (DNS) or TCP (HTTP).
Told(p) ==
    LET m == p.message
        named(name) == {m.headers[i][2] : i \in {j \in DOMAIN m.headers :
                          Lower(m.headers[j][1]) = name}}
    IN  CASE m.kind = "dns" ->
               {[name |-> IF m.response THEN "dns_response" ELSE "dns_query",
                 query |-> m.labels, qtype |-> m.qtype]}
          [] m.kind = "http" /\ \A i \in DOMAIN m.body : Plain(m.body[i]) ->
               {[name |-> "http_request", method |-> m.method, uri |-> m.uri,
                 version |-> HttpSlash \o <<49>>,
                 host |-> IF named(Host) = {} THEN <<>>
                          ELSE CHOOSE v \in named(Host) : TRUE,
                 user_agent |-> IF named(UserAgent) = {} THEN <<>>
                                ELSE CHOOSE v \in named(UserAgent) : TRUE]}
          [] OTHER -> {}

\* Without the fields all events have.
Message(e) == Restrict(e, DOMAIN e \ {"src_ip", "dst_ip", "src_port", "dst_port"})

\* Behind whatever options and tags its headers have, a packet captured whole is
\* decoded into what was sent: addresses and ports, the name and type a DNS
\* message asks for, and the fields of an HTTP request (runtime.rs:184).  DNS
\* over TCP is left to DnsOverTcpIsSeen, binary HTTP bodies are not decoded.
EventsTellThePacket ==
    Uncut /\ ~(sent.message.kind = "dns" /\ sent.proto = 6) =>
       /\ Len(decoded) > 0 /\ decoded[1].name = "packet"
       /\ \A e \in ToSet(decoded) : e.src_ip = Source /\ e.dst_ip = Destination
       /\ \A e \in ToSet(Tail(decoded)) : <<e.src_port, e.dst_port>> = sent.ports
       /\ {Message(e) : e \in ToSet(Tail(decoded)) \ EventsNamed("tcp_connection")}
             = Told(sent)
       /\ sent.proto = 6 =>
             \E e \in EventsNamed("tcp_connection") :
                e.seq = SequenceNumber /\ e.ack = Acknowledged

\* The ports the filter reads from the frame, ahead of the decoding, are those
\* of the events that come out of it, at every length of the frame
\* (runtime.rs:228 "We re-parse the L4 header only for matching purposes").
FilterSeesTheEvents ==
    \A p \in Probes :
       LET with(e) == Events(frame, <<e>>)
           ported == {e \in ToSet(decoded) : "src_port" \in DOMAIN e}
       IN  /\ with(Port(p)) \in {<<>>, decoded}
           /\ with(Not(Port(p))) # <<>> <=> decoded # <<>> /\ with(Port(p)) = <<>>
           /\ with(And(Proto("tcp"), Port(p))) # <<>> <=>
                 \E e \in EventsNamed("tcp_connection") : p \in {e.src_port, e.dst_port}
           /\ \A e \in ported : p \in {e.src_port, e.dst_port} => with(Port(p)) = decoded

\* What an octet less may change in the events that are left: lengths, and the
\* end of the header lines and of the version.
Essence(e) ==
    Restrict(e, DOMAIN e \ {"length", "version", "host", "user_agent"})

\* A frame cut short tells less, and nothing else: no event with another name,
\* address, port, query or method.  Only when the octet cut off is none of a text may
\* a request be told of that was not before (runtime.rs:496).
CutsOnlyLose ==
    [][LET before == {Essence(e) : e \in ToSet(decoded)}
           after == {Essence(e) : e \in ToSet(decoded')}
       IN  \A e \in after \ before : e.name = "http_request" /\ ~Plain(Last(frame))
      ]_pvars

\* "DNS messages observed over UDP/53 or TCP/53" (docs/language_spec.md:66).
DnsOverTcpIsSeen ==
    Uncut /\ sent.message.kind = "dns" =>
       \E e \in ToSet(decoded) : Message(e) \in Told(sent)
=============================================================================
