----------------------------- MODULE FilterTree -----------------------------
(***************************************************************************)
(* The tree of a packet filter (src/filter.rs) and its evaluation against  *)
(* one packet.                                                             *)
(***************************************************************************)
EXTENDS Integers

CONSTANTS
    Expressions,   \* the trees that may be given, and their parts
    Height         \* of each: the most operators one inside another

Proto(name) == [kind |-> name]
Port(n) == [kind |-> "port", port |-> n]
Address(kind, ip) == [kind |-> kind, ip |-> ip]
Length(op, n) == [kind |-> "len", op |-> op, n |-> n]
Not(e) == [kind |-> "not", arg |-> e]
And(l, r) == [kind |-> "and", left |-> l, right |-> r]
Or(l, r) == [kind |-> "or", left |-> l, right |-> r]

\* A tree is built of boxes, from its leaves up (filter.rs:56).
Below(part, e) == part \in Expressions /\ Height[part] < Height[e]

ASSUME ExpressionsAssumption ==
    /\ Height \in [Expressions -> Nat]
    /\ \A e \in Expressions :
          /\ e.kind = "not" => Below(e.arg, e)
          /\ e.kind \in {"and", "or"} => Below(e.left, e) /\ Below(e.right, e)
-----------------------------------------------------------------------------
Compare(op, l, r) ==
    CASE op = "==" -> l = r
      [] op = "!=" -> l # r
      [] op = "<"  -> l < r
      [] op = ">"  -> l > r
      [] op = "<=" -> l <= r
      [] op = ">=" -> l >= r

ProtoNumber(name) == CASE name = "tcp" -> 6 [] name = "udp" -> 17 [] name = "icmp" -> 1

\* A predicate on a packet: its protocol, addresses and length, and the ports it
\* has, one or none of each.
Fits(e, info) ==
    CASE e.kind \in {"tcp", "udp", "icmp"} -> info.proto = ProtoNumber(e.kind)
      [] e.kind = "port" -> e.port \in info.src_port \cup info.dst_port
      [] e.kind = "src"  -> info.src_ip = e.ip
      [] e.kind = "dst"  -> info.dst_ip = e.ip
      [] e.kind \in {"host", "ip"} -> e.ip \in {info.src_ip, info.dst_ip}
      [] e.kind = "len"  -> Compare(e.op, info.length, e.n)

\* eval
Matches(e, info) ==
    LET holds[x \in Expressions] ==
          CASE x.kind = "not" -> ~holds[x.arg]
            [] x.kind = "and" -> holds[x.left] /\ holds[x.right]
            [] x.kind = "or"  -> holds[x.left] \/ holds[x.right]
            [] OTHER          -> Fits(x, info)
    IN  holds[e]
=============================================================================
