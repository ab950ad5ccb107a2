---------------------------- MODULE CaptureProofs ---------------------------
(***************************************************************************)
(* Proofs about Capture, for every frame, however long and whatever is in  *)
(* it: what a filter sees is what the events tell, and a frame cut short   *)
(* tells less and nothing else.                                            *)
(***************************************************************************)
EXTENDS Capture, NaturalsInduction, WellFoundedInduction, SequenceTheorems,
        FiniteSetTheorems, TLAPS
-----------------------------------------------------------------------------
(* Sequences of octets.                                                    *)

\* A part of a sequence.
LEMMA PartElements ==
    ASSUME NEW S, NEW b \in Seq(S), NEW i \in Nat, NEW n \in Nat, i + n <= Len(b)
    PROVE  /\ SubSeq(b, i + 1, i + n) \in Seq(S)
           /\ Len(SubSeq(b, i + 1, i + n)) = n
           /\ \A k \in 1..n : SubSeq(b, i + 1, i + n)[k] = b[i + k]
<1>1. \A k \in i + 1..i + n : b[k] \in S
  OBVIOUS
<1>2. /\ SubSeq(b, i + 1, i + n) \in Seq(S)
      /\ Len(SubSeq(b, i + 1, i + n))
            = IF i + 1 <= i + n THEN i + n - (i + 1) + 1 ELSE 0
      /\ \A k \in 1..i + n - (i + 1) + 1 : SubSeq(b, i + 1, i + n)[k] = b[i + 1 + k - 1]
  BY <1>1, SubSeqProperties
<1> QED BY <1>2

\* The same of n octets from i on.
LEMMA OctetsElements ==
    ASSUME NEW S, NEW b \in Seq(S), NEW i \in Nat, NEW n \in Nat, i + n <= Len(b)
    PROVE  /\ Octets(b, i, n) \in Seq(S) /\ Len(Octets(b, i, n)) = n
           /\ \A k \in 1..n : Octets(b, i, n)[k] = b[i + k]
BY PartElements DEF Octets

\* A sequence without its last element.
LEMMA FrontElements ==
    ASSUME NEW S, NEW b \in Seq(S), b # <<>>
    PROVE  /\ Front(b) \in Seq(S) /\ Len(Front(b)) = Len(b) - 1 /\ Len(b) \in Nat \ {0}
           /\ \A i \in 1..Len(b) - 1 : Front(b)[i] = b[i]
<1>1. Len(b) \in Nat \ {0}
  OBVIOUS
<1> DEFINE n == Len(b) - 1
<1>2. Front(b) = SubSeq(b, 0 + 1, 0 + n)
  BY <1>1 DEF Front
<1>3. n \in Nat /\ 0 + n <= Len(b)
  BY <1>1
<1> HIDE DEF n
<1>4. /\ Front(b) \in Seq(S) /\ Len(Front(b)) = n
      /\ \A k \in 1..n : Front(b)[k] = b[0 + k]
  BY <1>2, <1>3, PartElements
<1> QED BY <1>1, <1>4 DEF n

\* A part of a frame that the cut leaves alone.
LEMMA PartKept ==
    ASSUME NEW S, NEW b \in Seq(S), b # <<>>, NEW i \in Nat, NEW n \in Nat, i + n < Len(b)
    PROVE  /\ SubSeq(Front(b), i + 1, i + n) = SubSeq(b, i + 1, i + n)
           /\ SubSeq(b, i + 1, i + n) \in Seq(S)
<1> DEFINE f == Front(b)
<1>1. /\ f \in Seq(S) /\ Len(f) = Len(b) - 1 /\ Len(b) \in Nat
      /\ \A k \in 1..Len(b) - 1 : f[k] = b[k]
  BY FrontElements
<1> HIDE DEF f
<1>2. i + n <= Len(b) /\ i + n <= Len(f)
  BY <1>1
<1> DEFINE p == SubSeq(f, i + 1, i + n)
           q == SubSeq(b, i + 1, i + n)
<1>3. /\ p \in Seq(S) /\ Len(p) = n /\ \A k \in 1..n : p[k] = f[i + k]
      /\ q \in Seq(S) /\ Len(q) = n /\ \A k \in 1..n : q[k] = b[i + k]
  BY <1>1, <1>2, PartElements
<1> HIDE DEF p, q
<1>4. \A k \in 1..n : f[i + k] = b[i + k]
  BY <1>1, <1>2
<1>5. p = q
  BY <1>3, <1>4, SeqEqual
<1> QED BY <1>3, <1>5 DEF p, q, f

\* What follows a header, in a frame and in the frame cut: the same but for the last
\* octet.
LEMMA RestCut ==
    ASSUME NEW S, NEW b \in Seq(S), b # <<>>, NEW i \in Nat, i < Len(b)
    PROVE  /\ From(b, i) \in Seq(S) /\ From(b, i) # <<>>
           /\ From(Front(b), i) = Front(From(b, i))
           /\ Last(From(b, i)) = Last(b)
<1> DEFINE f == Front(b)
           r == From(b, i)
           n == Len(b) - i
<1>1. /\ f \in Seq(S) /\ Len(f) = Len(b) - 1 /\ Len(b) \in Nat \ {0}
      /\ \A k \in 1..Len(b) - 1 : f[k] = b[k]
  BY FrontElements
<1>2. /\ r \in Seq(S) /\ Len(r) = n /\ n \in Nat \ {0} /\ \A k \in 1..n : r[k] = b[i + k]
  <2>1. n \in Nat \ {0} /\ i + n = Len(b)
    <3>1. Len(b) \in Nat
      BY ONLY b \in Seq(S)
    <3> QED BY ONLY <3>1, i \in Nat, i < Len(b)
  <2>2. r = Octets(b, i, n)
    BY <2>1 DEF From, Octets
  <2> HIDE DEF r, n
  <2>3. n \in Nat /\ i + n <= Len(b)
    BY <2>1, <1>1
  <2>4. /\ Octets(b, i, n) \in Seq(S) /\ Len(Octets(b, i, n)) = n
        /\ \A k \in 1..n : Octets(b, i, n)[k] = b[i + k]
    BY ONLY i \in Nat, b \in Seq(S), <2>3, OctetsElements
  <2> QED BY <2>1, <2>2, <2>4, Zenon
<1> DEFINE g == From(f, i)
<1>3. /\ g \in Seq(S) /\ Len(g) = n - 1 /\ \A k \in 1..n - 1 : g[k] = f[i + k]
  <2>1. n - 1 \in Nat /\ i + (n - 1) = Len(f)
    BY <1>1, <1>2
  <2>2. g = Octets(f, i, n - 1)
    BY <2>1 DEF From, Octets
  <2> HIDE DEF g, n, f
  <2> DEFINE m == n - 1
  <2>3. m \in Nat /\ i + m <= Len(f)
    BY <2>1, <1>1
  <2>4. f \in Seq(S)
    BY <1>1
  <2> HIDE DEF m
  <2>5. /\ Octets(f, i, m) \in Seq(S) /\ Len(Octets(f, i, m)) = m
        /\ \A k \in 1..m : Octets(f, i, m)[k] = f[i + k]
    BY ONLY i \in Nat, <2>3, <2>4, OctetsElements
  <2> QED BY <2>2, <2>5, Zenon DEF m
<1>4. r # <<>>
  BY <1>2
<1> HIDE DEF r, g
<1>5. Front(r) \in Seq(S) /\ Len(Front(r)) = n - 1 /\ \A k \in 1..n - 1 : Front(r)[k] = r[k]
  BY <1>2, <1>4, FrontElements
<1>6. \A k \in 1..n - 1 : g[k] = Front(r)[k]
  <2> TAKE k \in 1..n - 1
  <2>1. k \in 1..n /\ i + k \in 1..Len(b) - 1
    BY <1>1, <1>2
  <2> QED BY <2>1, <1>1, <1>2, <1>3, <1>5
<1>7. g = Front(r)
  BY <1>3, <1>5, <1>6, SeqEqual
<1>8. Last(r) = Last(b)
  BY <1>1, <1>2 DEF Last
<1> QED BY <1>2, <1>4, <1>7, <1>8 DEF r, g, f
-----------------------------------------------------------------------------
(* Headers.                                                                *)

LEMMA OctetIsNat == \A x \in Octet : x \in Nat
BY DEF Octet

\* An octet that the cut leaves alone.
LEMMA OctetKept ==
    ASSUME NEW S, NEW b \in Seq(S), b # <<>>, NEW i \in Nat, i + 1 < Len(b)
    PROVE  U8(Front(b), i) = U8(b, i)
<1>1. i + 1 \in 1..Len(b) - 1
  OBVIOUS
<1> QED BY <1>1, FrontElements DEF U8

LEMMA OctetsKept ==
    ASSUME NEW S, NEW b \in Seq(S), b # <<>>, NEW i \in Nat, NEW n \in Nat, i + n < Len(b)
    PROVE  Octets(Front(b), i, n) = Octets(b, i, n)
BY PartKept DEF Octets

\* The IP header starts where it started.
LEMMA StartKept ==
    ASSUME NEW b \in Seq(Octet), b # <<>>, IpStart(Front(b)) # <<>>
    PROVE  /\ IpStart(b) = IpStart(Front(b))
           /\ IpStart(b) = <<14>> \/ IpStart(b) = <<18>>
<1> DEFINE f == Front(b)
<1>1. Len(f) = Len(b) - 1 /\ Len(b) \in Nat
  BY FrontElements
<1>2. /\ Len(f) > 13 => Octets(f, 12, 2) = Octets(b, 12, 2)
      /\ Len(f) > 17 => U8(f, 12) = U8(b, 12) /\ U8(f, 17) = U8(b, 17)
  <2>1. CASE Len(f) > 13
    <3>1. Octets(f, 12, 2) = Octets(b, 12, 2)
      BY <1>1, <2>1, OctetsKept
    <3>2. Len(f) > 17 => U8(f, 12) = U8(b, 12) /\ U8(f, 17) = U8(b, 17)
      BY <1>1, OctetKept
    <3> QED BY <3>1, <3>2
  <2>2. CASE ~(Len(f) > 13)
    BY <1>1, <2>2
  <2> QED BY <2>1, <2>2
<1>3. Len(f) > 13
  BY <1>1 DEF IpStart
<1> HIDE DEF f
<1>4. IpStart(f) # <<>>
  BY DEF f
<1>5. CASE Octets(f, 12, 2) = <<8, 0>>
  <2>1. U8(b, 12) # 129 /\ Octets(b, 12, 2) = <<8, 0>> /\ Len(b) > 13
    <3>1. Len(b) > 13 /\ Octets(b, 12, 2) = <<8, 0>>
      BY <1>1, <1>2, <1>3, <1>5
    <3>2. \A k \in 1..2 : SubSeq(b, 12 + 1, 12 + 2)[k] = b[12 + k]
      BY <1>1, <3>1, PartElements
    <3>3. b[12 + 1] = 8
      <4>1. SubSeq(b, 12 + 1, 12 + 2) = <<8, 0>>
        BY <3>1 DEF Octets
      <4>2. SubSeq(b, 12 + 1, 12 + 2)[1] = b[12 + 1]
        BY <3>2
      <4>3. <<8, 0>>[1] = 8
        OBVIOUS
      <4> QED BY <4>1, <4>2, <4>3, Zenon
    <3> QED BY <3>1, <3>3 DEF U8
  <2>2. IpStart(f) = <<14>>
    BY <1>2, <1>3, <1>5, <2>1 DEF IpStart
  <2>3. IpStart(b) = <<14>>
    BY <2>1 DEF IpStart
  <2> QED BY <2>2, <2>3 DEF f
<1>6. CASE Octets(f, 12, 2) # <<8, 0>>
  <2>1. Len(f) > 17 /\ U8(f, 12) = 129 /\ U8(f, 17) = 0
    BY <1>4, <1>6 DEF IpStart
  <2>2. IpStart(f) = <<18>>
    BY <2>1, <1>6 DEF IpStart
  <2>3. Octets(b, 12, 2) # <<8, 0>> /\ Len(b) > 17 /\ U8(b, 12) = 129 /\ U8(b, 17) = 0
    BY <1>1, <1>2, <1>3, <1>6, <2>1
  <2>4. IpStart(b) = <<18>>
    BY <2>3 DEF IpStart
  <2> QED BY <2>2, <2>4 DEF f
<1> QED BY <1>5, <1>6

\* The IP header is read as it was, and its payload lacks the octet cut off.
LEMMA IpKept ==
    ASSUME NEW b \in Seq(Octet), b # <<>>, IpOf(Front(b)) # <<>>
    PROVE  /\ IpOf(b) # <<>>
           /\ LET ip == IpOf(b)[1]
                  cut == IpOf(Front(b))[1]
              IN  /\ cut.proto = ip.proto
                  /\ cut.src_ip = ip.src_ip /\ cut.dst_ip = ip.dst_ip
                  /\ ip.payload \in Seq(Octet) /\ ip.payload # <<>>
                  /\ cut.payload = Front(ip.payload)
                  /\ Last(ip.payload) = Last(b)
<1> DEFINE f == Front(b)
<1>1. /\ f \in Seq(Octet) /\ Len(f) = Len(b) - 1 /\ Len(b) \in Nat
      /\ \A k \in 1..Len(b) - 1 : f[k] = b[k]
  BY FrontElements
<1>2. IpStart(f) # <<>>
  BY DEF IpOf
<1>3. PICK start \in {14, 18} : IpStart(b) = <<start>> /\ IpStart(f) = <<start>>
  BY <1>2, StartKept
<1>4. IpOf(f) = DecodeIp(f, start) /\ IpOf(b) = DecodeIp(b, start)
  BY <1>3 DEF IpOf
<1> DEFINE ihl == 4 * (U8(b, start) % 16)
<1>5. DecodeIp(f, start) # <<>>
  BY <1>4
<1> HIDE DEF f
<1>6. ~(Len(f) < start + 20)
  BY <1>5 DEF DecodeIp
<1>7. /\ U8(f, start) = U8(b, start) /\ U8(f, start + 9) = U8(b, start + 9)
      /\ Octets(f, start + 12, 4) = Octets(b, start + 12, 4)
      /\ Octets(f, start + 16, 4) = Octets(b, start + 16, 4)
  <2>1. U8(f, start) = U8(b, start) /\ U8(f, start + 9) = U8(b, start + 9)
    BY <1>1, <1>3, <1>6, OctetKept DEF f
  <2>2. /\ Octets(f, start + 12, 4) = Octets(b, start + 12, 4)
        /\ Octets(f, start + 16, 4) = Octets(b, start + 16, 4)
    BY <1>1, <1>3, <1>6, OctetsKept DEF f
  <2> QED BY <2>1, <2>2
<1>8. U8(b, start) \in Octet
  BY <1>1, <1>3, <1>6 DEF U8
<1>9. ihl \in Nat
  <2>1. U8(b, start) \in Nat
    BY <1>8, OctetIsNat
  <2> QED BY <2>1
<1> HIDE DEF ihl
<1>10. /\ U8(b, start) \div 16 = 4 /\ ~(ihl < 20) /\ ~(Len(f) < start + ihl)
       /\ DecodeIp(f, start) =
            <<[proto  |-> U8(f, start + 9),
               src_ip |-> Octets(f, start + 12, 4), dst_ip |-> Octets(f, start + 16, 4),
               payload |-> From(f, start + ihl), length |-> Len(f) - start]>>
  BY <1>5, <1>7, Zenon DEF DecodeIp, ihl
<1>11. ~(Len(b) < start + 20) /\ ~(Len(b) < start + ihl)
  BY <1>1, <1>3, <1>6, <1>9, <1>10
<1>12. DecodeIp(b, start) =
         <<[proto  |-> U8(b, start + 9),
            src_ip |-> Octets(b, start + 12, 4), dst_ip |-> Octets(b, start + 16, 4),
            payload |-> From(b, start + ihl), length |-> Len(b) - start]>>
  BY <1>10, <1>11, Zenon DEF DecodeIp, ihl
<1>13. /\ From(b, start + ihl) \in Seq(Octet) /\ From(b, start + ihl) # <<>>
       /\ From(f, start + ihl) = Front(From(b, start + ihl))
       /\ Last(From(b, start + ihl)) = Last(b)
  <2>1. start + ihl \in Nat /\ start + ihl < Len(b)
    BY <1>1, <1>3, <1>9, <1>10
  <2> QED BY <2>1, RestCut DEF f
<1> QED BY <1>4, <1>7, <1>10, <1>12, <1>13 DEF f

\* The same for TCP ...
LEMMA TcpKept ==
    ASSUME NEW b \in Seq(Octet), b # <<>>, DecodeTcp(Front(b)) # <<>>
    PROVE  /\ DecodeTcp(b) # <<>>
           /\ LET tcp == DecodeTcp(b)[1]
                  cut == DecodeTcp(Front(b))[1]
              IN  /\ cut.src_port = tcp.src_port /\ cut.dst_port = tcp.dst_port
                  /\ cut.seq = tcp.seq /\ cut.ack = tcp.ack /\ cut.flags = tcp.flags
                  /\ tcp.payload \in Seq(Octet) /\ tcp.payload # <<>>
                  /\ cut.payload = Front(tcp.payload)
                  /\ Last(tcp.payload) = Last(b)
<1> DEFINE f == Front(b)
<1>1. /\ f \in Seq(Octet) /\ Len(f) = Len(b) - 1 /\ Len(b) \in Nat
      /\ \A k \in 1..Len(b) - 1 : f[k] = b[k]
  BY FrontElements
<1> DEFINE size == 4 * (U8(b, 12) \div 16)
<1> HIDE DEF f
<1>2. ~(Len(f) < 20)
  BY DEF DecodeTcp, f
<1>3. /\ U8(f, 12) = U8(b, 12) /\ U8(f, 13) = U8(b, 13)
      /\ U16(f, 0) = U16(b, 0) /\ U16(f, 2) = U16(b, 2)
  <2>1. /\ U8(f, 12) = U8(b, 12) /\ U8(f, 13) = U8(b, 13)
        /\ U8(f, 0) = U8(b, 0) /\ U8(f, 0 + 1) = U8(b, 0 + 1)
        /\ U8(f, 2) = U8(b, 2) /\ U8(f, 2 + 1) = U8(b, 2 + 1)
    BY <1>1, <1>2, OctetKept DEF f
  <2> QED BY <2>1, Zenon DEF U16
<1>4. Octets(f, 4, 4) = Octets(b, 4, 4) /\ Octets(f, 8, 4) = Octets(b, 8, 4)
  BY <1>1, <1>2, OctetsKept DEF f
<1>5. U8(b, 12) \in Octet
  BY <1>1, <1>2 DEF U8
<1>6. size \in Nat
  <2>1. U8(b, 12) \in Nat
    BY <1>5, OctetIsNat
  <2> QED BY <2>1
<1> HIDE DEF size
<1>7. /\ ~(U8(b, 12) \div 16 < 5) /\ ~(Len(f) < size)
      /\ DecodeTcp(f) =
           <<[src_port |-> U16(f, 0), dst_port |-> U16(f, 2),
              seq |-> Octets(f, 4, 4), ack |-> Octets(f, 8, 4), flags |-> U8(f, 13),
              payload |-> From(f, size)]>>
  <2>1. DecodeTcp(f) # <<>>
    BY DEF f
  <2> QED BY <1>3, <2>1, Zenon DEF DecodeTcp, size
<1>8. ~(Len(b) < 20) /\ ~(Len(b) < size)
  BY <1>1, <1>2, <1>6, <1>7
<1>9. DecodeTcp(b) =
        <<[src_port |-> U16(b, 0), dst_port |-> U16(b, 2),
           seq |-> Octets(b, 4, 4), ack |-> Octets(b, 8, 4), flags |-> U8(b, 13),
           payload |-> From(b, size)]>>
  BY <1>7, <1>8, Zenon DEF DecodeTcp, size
<1>10. /\ From(b, size) \in Seq(Octet) /\ From(b, size) # <<>>
       /\ From(f, size) = Front(From(b, size))
       /\ Last(From(b, size)) = Last(b)
  <2>1. size < Len(b)
    BY <1>1, <1>6, <1>7
  <2> QED BY <1>6, <2>1, RestCut DEF f
<1> QED BY <1>3, <1>4, <1>7, <1>9, <1>10 DEF f

\* ... and for UDP.
LEMMA UdpKept ==
    ASSUME NEW b \in Seq(Octet), b # <<>>, DecodeUdp(Front(b)) # <<>>
    PROVE  /\ DecodeUdp(b) # <<>>
           /\ LET udp == DecodeUdp(b)[1]
                  cut == DecodeUdp(Front(b))[1]
              IN  /\ cut.src_port = udp.src_port /\ cut.dst_port = udp.dst_port
                  /\ udp.payload \in Seq(Octet) /\ udp.payload # <<>>
                  /\ cut.payload = Front(udp.payload)
                  /\ Last(udp.payload) = Last(b)
<1> DEFINE f == Front(b)
<1>1. f \in Seq(Octet) /\ Len(f) = Len(b) - 1 /\ Len(b) \in Nat
  BY FrontElements
<1> HIDE DEF f
<1>2. ~(Len(f) < 8)
  BY DEF DecodeUdp, f
<1>3. U16(f, 0) = U16(b, 0) /\ U16(f, 2) = U16(b, 2)
  <2>1. /\ U8(f, 0) = U8(b, 0) /\ U8(f, 0 + 1) = U8(b, 0 + 1)
        /\ U8(f, 2) = U8(b, 2) /\ U8(f, 2 + 1) = U8(b, 2 + 1)
    BY <1>1, <1>2, OctetKept DEF f
  <2> QED BY <2>1, Zenon DEF U16
<1>4. ~(Len(b) < 8)
  BY <1>1, <1>2
<1>5. /\ DecodeUdp(f) = <<[src_port |-> U16(f, 0), dst_port |-> U16(f, 2),
                           payload |-> From(f, 8)]>>
      /\ DecodeUdp(b) = <<[src_port |-> U16(b, 0), dst_port |-> U16(b, 2),
                           payload |-> From(b, 8)]>>
  BY <1>2, <1>4, Zenon DEF DecodeUdp
<1>6. /\ From(b, 8) \in Seq(Octet) /\ From(b, 8) # <<>>
      /\ From(f, 8) = Front(From(b, 8)) /\ Last(From(b, 8)) = Last(b)
  <2>1. 8 < Len(b)
    BY <1>1, <1>2
  <2> QED BY <2>1, RestCut DEF f
<1> QED BY <1>3, <1>5, <1>6 DEF f
-----------------------------------------------------------------------------
(* DNS names.                                                              *)

\* A set that holds 0 and the successor of each of its elements holds every number.
LEMMA SetInduction ==
    ASSUME NEW S \in SUBSET Nat, 0 \in S, \A n \in S : n + 1 \in S
    PROVE  S = Nat
<1> DEFINE T == Nat \ S
<1>1. SUFFICES ASSUME T # {} PROVE FALSE
  OBVIOUS
<1>2. IsWellFoundedOn(OpToRel(<, Nat), Nat)
  BY NatLessThanWellFounded
<1>3. PICK x \in T : \A y \in T : ~(<<y, x>> \in OpToRel(<, Nat))
  BY <1>1, <1>2, WFMin, Zenon
<1>4. \A y \in T : ~(y < x)
  BY <1>3, Zenon DEF OpToRel
<1>5. x - 1 \in Nat /\ x - 1 < x
  OBVIOUS
<1>6. x - 1 \in S
  BY <1>4, <1>5
<1> QED BY <1>5, <1>6

\* What Labels finds at o when it finds more after the label there.
Walk(b, o, more) ==
    LET n == U8(b, o)
        label == Octets(b, o + 1, n)
    IN  IF o >= Len(b) THEN <<>>
        ELSE IF n = 0 THEN <<[labels |-> <<>>, offset |-> o + 1]>>
        ELSE IF n >= 192 \/ o + 1 + n > Len(b) \/ ~Utf8(label) \/ more = <<>>
        THEN <<>>
        ELSE <<[labels |-> <<label>> \o more[1].labels, offset |-> more[1].offset]>>

Walks(f, b, k) == \A o \in Nat : o + k >= Len(b) => f[o] = Walk(b, o, f[o + 1 + U8(b, o)])

\* The octets at and after the k-th from the end can be walked.
LEMMA WalksFrom ==
    ASSUME NEW b \in Seq(Octet), NEW k \in Nat
    PROVE  \E f : f = [o \in Nat |-> f[o]] /\ Walks(f, b, k)
<1>0. Len(b) \in Nat
  OBVIOUS
<1> DEFINE Done == {m \in Nat : \E f : f = [o \in Nat |-> f[o]] /\ Walks(f, b, m)}
<1>1. 0 \in Done
  <2> DEFINE f == [o \in Nat |-> <<>>]
  <2>1. f = [o \in Nat |-> f[o]] /\ \A o \in Nat : f[o] = <<>>
    OBVIOUS
  <2> HIDE DEF f
  <2>2. Walks(f, b, 0)
    BY <1>0, <2>1 DEF Walks, Walk
  <2> QED BY <2>1, <2>2
<1>2. ASSUME NEW m \in Nat, NEW f, f = [o \in Nat |-> f[o]], Walks(f, b, m)
      PROVE  \E g : g = [o \in Nat |-> g[o]] /\ Walks(g, b, m + 1)
  <2> DEFINE at == Len(b) - (m + 1)
             next == Walk(b, at, f[at + 1 + U8(b, at)])
             g == [o \in Nat |-> IF o = at THEN next ELSE f[o]]
  <2>1. g = [o \in Nat |-> g[o]]
    OBVIOUS
  <2>2. at \in Nat => g[at] = next
    OBVIOUS
  <2>3. \A o \in Nat : o # at => g[o] = f[o]
    OBVIOUS
  <2>4. at \in Int
    BY <1>0
  <2> SUFFICES ASSUME NEW o \in Nat, o + (m + 1) >= Len(b)
               PROVE  g[o] = Walk(b, o, g[o + 1 + U8(b, o)])
    BY <2>1 DEF Walks
  <2> HIDE DEF g
  <2>5. CASE o >= Len(b)
    <3>1. o # at /\ o + m >= Len(b)
      BY <1>0, <2>5
    <3>2. g[o] = Walk(b, o, f[o + 1 + U8(b, o)])
      BY <1>2, <2>3, <3>1 DEF Walks
    <3> QED BY <2>5, <3>2, Zenon DEF Walk
  <2>6. CASE o < Len(b)
    <3>1. U8(b, o) \in Nat
      <4>1. o + 1 \in 1..Len(b)
        BY <1>0, <2>6
      <4> QED BY <4>1, OctetIsNat, ElementOfSeq DEF U8
    <3>2. o >= at
      BY <1>0
    <3>3. o + 1 + U8(b, o) \in Nat /\ o + 1 + U8(b, o) # at
      BY <1>0, <2>4, <3>1, <3>2
    <3>4. g[o + 1 + U8(b, o)] = f[o + 1 + U8(b, o)]
      BY <2>3, <3>3
    <3>5. CASE o = at
      BY <2>2, <3>4, <3>5
    <3>6. CASE o # at
      <4>1. o + m >= Len(b)
        BY <1>0, <3>2, <3>6
      <4> QED BY <1>2, <2>3, <3>4, <3>6, <4>1 DEF Walks
    <3> QED BY <3>5, <3>6
  <2> QED BY <1>0, <2>5, <2>6
<1>3. \A m \in Done : m + 1 \in Done
  BY <1>2
<1>4. Done \in SUBSET Nat
  OBVIOUS
<1> HIDE DEF Done
<1>5. k \in Done
  BY <1>1, <1>3, <1>4, SetInduction
<1> QED BY <1>5 DEF Done

\* Labels reads one label and goes on after it.
LEMMA LabelsWalk ==
    ASSUME NEW b \in Seq(Octet), NEW o \in Nat
    PROVE  Labels(b, o) = Walk(b, o, Labels(b, o + 1 + U8(b, o)))
<1> DEFINE Body(f) == [i \in Nat |-> Walk(b, i, f[i + 1 + U8(b, i)])]
           from == CHOOSE f : f = Body(f)
<1>1. \A i : Labels(b, i) = from[i]
  BY DEF Labels, Walk
<1>2. Len(b) \in Nat
  OBVIOUS
<1>3. PICK g : g = [i \in Nat |-> g[i]] /\ Walks(g, b, Len(b))
  BY <1>2, WalksFrom
<1>4. \A i \in Nat : g[i] = Walk(b, i, g[i + 1 + U8(b, i)])
  <2>1. Walks(g, b, Len(b))
    BY <1>3
  <2>2. \A i \in Nat : i + Len(b) >= Len(b)
    BY <1>2
  <2> QED BY <2>1, <2>2, Zenon DEF Walks
<1>5. g = Body(g)
  BY <1>3, <1>4
<1>6. from = Body(from)
  <2> HIDE DEF Body
  <2> QED BY <1>5
<1> HIDE DEF from
<1>7. from[o] = Walk(b, o, from[o + 1 + U8(b, o)])
  BY <1>6
<1> QED BY <1>1, <1>7

\* A name that is found in a message cut is the one in the message.
LEMMA LabelsKept ==
    ASSUME NEW b \in Seq(Octet), b # <<>>, NEW o \in Nat, Labels(Front(b), o) # <<>>
    PROVE  /\ Labels(b, o) = Labels(Front(b), o)
           /\ Labels(b, o)[1].offset \in Nat
<1> DEFINE f == Front(b)
           Kept(i) == Labels(f, i) # <<>> =>
                         Labels(b, i) = Labels(f, i) /\ Labels(b, i)[1].offset \in Nat
           Done == {m \in Nat : \A i \in Nat : i + m >= Len(f) => Kept(i)}
<1>1. /\ f \in Seq(Octet) /\ Len(f) = Len(b) - 1 /\ Len(b) \in Nat /\ Len(f) \in Nat
      /\ \A k \in 1..Len(b) - 1 : f[k] = b[k]
  BY FrontElements
<1>2. \A i \in Nat : i < Len(f) => U8(f, i) = U8(b, i) /\ U8(b, i) \in Nat
  <2> TAKE i \in Nat
  <2> HAVE i < Len(f)
  <2>1. U8(f, i) = U8(b, i)
    BY <1>1, OctetKept
  <2>2. i + 1 \in 1..Len(b)
    BY <1>1
  <2> QED BY <2>1, <2>2, OctetIsNat, ElementOfSeq DEF U8
<1> HIDE DEF f
<1>3. ASSUME NEW i \in Nat, i >= Len(f) PROVE Kept(i)
  <2>1. Labels(f, i) = Walk(f, i, Labels(f, i + 1 + U8(f, i)))
    BY <1>1, LabelsWalk
  <2>2. Labels(f, i) = <<>>
    BY <1>3, <2>1, Zenon DEF Walk
  <2> QED BY <2>2
<1>4. ASSUME NEW i \in Nat, i < Len(f), Kept(i + 1 + U8(b, i)) PROVE Kept(i)
  <2> DEFINE n == U8(b, i)
             rest == i + 1 + n
             label == Octets(b, i + 1, n)
             more == Labels(f, rest)
  <2> SUFFICES ASSUME Labels(f, i) # <<>>
               PROVE  Labels(b, i) = Labels(f, i) /\ Labels(b, i)[1].offset \in Nat
    OBVIOUS
  <2>1. U8(f, i) = n /\ n \in Nat
    BY <1>2, <1>4
  <2>2. Labels(f, i) = Walk(f, i, Labels(f, rest))
    BY <1>1, <2>1, LabelsWalk
  <2>3. Labels(b, i) = Walk(b, i, Labels(b, rest))
    BY LabelsWalk
  <2>4. ~(i >= Len(f)) /\ ~(i >= Len(b))
    BY <1>1, <1>4
  <2> HIDE DEF n
  <2>5. CASE n = 0
    <3>1. Labels(f, i) = <<[labels |-> <<>>, offset |-> i + 1]>>
      BY <2>1, <2>2, <2>4, <2>5, Zenon DEF Walk
    <3>2. Labels(b, i) = <<[labels |-> <<>>, offset |-> i + 1]>>
      BY <2>3, <2>4, <2>5, Zenon DEF Walk, n
    <3>3. Labels(b, i)[1].offset = i + 1
      BY <3>2
    <3> QED BY <3>1, <3>2, <3>3
  <2>6. CASE n # 0
    <3>1. /\ ~(n >= 192) /\ ~(rest > Len(f)) /\ Utf8(Octets(f, i + 1, n)) /\ more # <<>>
          /\ Labels(f, i) = <<[labels |-> <<Octets(f, i + 1, n)>> \o more[1].labels,
                               offset |-> more[1].offset]>>
      BY <2>1, <2>2, <2>4, <2>6, Zenon DEF Walk
    <3>2. Octets(f, i + 1, n) = label
      <4>1. i + 1 + n < Len(b) /\ i + 1 \in Nat
        BY <1>1, <2>1, <3>1
      <4> QED BY <2>1, <4>1, OctetsKept DEF f
    <3>3. Labels(b, rest) = more /\ more[1].offset \in Nat
      BY <1>4, <3>1 DEF n
    <3>4. ~(rest > Len(b))
      BY <1>1, <2>1, <3>1
    <3>5. Labels(b, i) = <<[labels |-> <<label>> \o more[1].labels,
                            offset |-> more[1].offset]>>
      BY <2>3, <2>4, <2>6, <3>1, <3>2, <3>3, <3>4, Zenon DEF Walk, n
    <3>6. Labels(b, i)[1].offset = more[1].offset
      BY <3>5
    <3> QED BY <3>1, <3>2, <3>3, <3>5, <3>6, Zenon
  <2> QED BY <2>5, <2>6
<1>5. 0 \in Done
  BY <1>1, <1>3
<1>6. \A m \in Done : m + 1 \in Done
  <2> TAKE m \in Done
  <2> SUFFICES ASSUME NEW i \in Nat, i + (m + 1) >= Len(f) PROVE Kept(i)
    OBVIOUS
  <2> HIDE DEF Kept
  <2>1. CASE i >= Len(f)
    BY <1>3, <2>1
  <2>2. CASE i < Len(f)
    <3>1. i + 1 + U8(b, i) \in Nat /\ (i + 1 + U8(b, i)) + m >= Len(f)
      BY <1>1, <1>2, <2>2
    <3> QED BY <1>4, <2>2, <3>1
  <2> QED BY <1>1, <2>1, <2>2
<1>7. Done \in SUBSET Nat
  OBVIOUS
<1> HIDE DEF Kept, Done
<1>8. Len(f) \in Done
  BY <1>1, <1>5, <1>6, <1>7, SetInduction
<1>9. Kept(o)
  BY <1>1, <1>8 DEF Done
<1> QED BY <1>9 DEF Kept, f

\* A question that is read from a message cut is the one in the message.
LEMMA DnsKept ==
    ASSUME NEW b \in Seq(Octet), b # <<>>, DecodeDns(Front(b)) # <<>>
    PROVE  DecodeDns(b) = DecodeDns(Front(b))
<1> DEFINE f == Front(b)
           name == Labels(f, 12)
<1>1. f \in Seq(Octet) /\ Len(f) = Len(b) - 1 /\ Len(b) \in Nat /\ Len(f) \in Nat
  BY FrontElements
<1> HIDE DEF f
<1>2. /\ ~(Len(f) < 12) /\ U16(f, 4) # 0 /\ name # <<>> /\ name[1].labels # <<>>
      /\ ~(name[1].offset + 4 > Len(f))
      /\ DecodeDns(f) =
           <<[name  |-> IF U8(f, 2) >= 128 THEN "dns_response" ELSE "dns_query",
              query |-> name[1].labels, qtype |-> U16(f, name[1].offset)]>>
  <2>1. DecodeDns(f) # <<>>
    BY DEF f
  <2> QED BY <2>1, Zenon DEF DecodeDns
<1>3. Labels(b, 12) = name /\ name[1].offset \in Nat
  BY <1>2, LabelsKept DEF f
<1> HIDE DEF name
<1>4. U16(f, 4) = U16(b, 4) /\ U8(f, 2) = U8(b, 2)
      /\ U16(f, name[1].offset) = U16(b, name[1].offset)
  <2> DEFINE o == name[1].offset
  <2>1. /\ U8(f, 2) = U8(b, 2) /\ U8(f, 4) = U8(b, 4) /\ U8(f, 4 + 1) = U8(b, 4 + 1)
    BY <1>1, <1>2, OctetKept DEF f
  <2>2. o \in Nat /\ o + 1 < Len(b) /\ o + 1 + 1 < Len(b)
    BY <1>1, <1>2, <1>3
  <2> HIDE DEF o
  <2>3. U8(f, o) = U8(b, o) /\ U8(f, o + 1) = U8(b, o + 1)
    BY <2>2, OctetKept DEF f
  <2> QED BY <2>1, <2>3, Zenon DEF U16, o
<1>5. ~(Len(b) < 12) /\ ~(name[1].offset + 4 > Len(b))
  BY <1>1, <1>2, <1>3
<1>6. DecodeDns(b) =
        <<[name  |-> IF U8(b, 2) >= 128 THEN "dns_response" ELSE "dns_query",
           query |-> name[1].labels, qtype |-> U16(b, name[1].offset)]>>
  BY <1>2, <1>3, <1>4, <1>5, Zenon DEF DecodeDns
<1> QED BY <1>2, <1>4, <1>6, Zenon DEF f
-----------------------------------------------------------------------------
(* HTTP requests.                                                          *)

\* The least of some numbers.
LEMMA Least ==
    ASSUME NEW S \in SUBSET Nat, S # {}
    PROVE  Min(S) \in S /\ \A x \in S : Min(S) <= x
<1>1. IsWellFoundedOn(OpToRel(<, Nat), Nat)
  BY NatLessThanWellFounded
<1>2. PICK x \in S : \A y \in S : ~(<<y, x>> \in OpToRel(<, Nat))
  BY <1>1, WFMin, Zenon
<1>3. \A y \in S : ~(y < x)
  BY <1>2, Zenon DEF OpToRel
<1>4. \A y \in S : x <= y
  BY <1>3
<1> QED BY <1>4 DEF Min

\* The three least of three numbers or more: as DecodeHttp picks them, and what it
\* is to be them.
PickThree(S, x, y, z) ==
    /\ ~(Cardinality(S) < 3)
    /\ x = Min(S) /\ y = Min(S \ {x}) /\ z = Min(S \ {x, y})

FirstThree(S, x, y, z) ==
    /\ x \in S /\ y \in S /\ z \in S /\ x < y /\ y < z
    /\ \A s \in S : s = x \/ s = y \/ z <= s

LEMMA ThreePicked ==
    ASSUME NEW S \in SUBSET Nat, IsFiniteSet(S), NEW x, NEW y, NEW z,
           PickThree(S, x, y, z)
    PROVE  FirstThree(S, x, y, z)
<1> USE DEF PickThree, FirstThree
<1>1. Cardinality(S) \in Nat /\ Cardinality(S) >= 3
  BY FS_CardinalityType
<1>2. S # {}
  BY <1>1, FS_EmptySet
<1>3. x \in S /\ \A s \in S : x <= s
  BY <1>2, Least
<1>4. IsFiniteSet(S \ {x}) /\ Cardinality(S \ {x}) >= 2 /\ Cardinality(S \ {x}) \in Nat
  BY <1>1, <1>3, FS_RemoveElement
<1>5. S \ {x} # {}
  BY <1>4, FS_EmptySet
<1>6. y \in S \ {x} /\ \A s \in S \ {x} : y <= s
  BY <1>5, Least
<1>7. (S \ {x}) \ {y} # {}
  <2> DEFINE T == S \ {x}
  <2>1. IsFiniteSet(T) /\ y \in T /\ Cardinality(T) >= 2 /\ Cardinality(T) \in Nat
    BY <1>4, <1>6
  <2> HIDE DEF T
  <2>2. Cardinality(T \ {y}) = Cardinality(T) - 1
    BY <2>1, FS_RemoveElement
  <2>3. T \ {y} # {}
    BY <2>1, <2>2, FS_EmptySet
  <2> QED BY <2>3 DEF T
<1>8. z \in S \ {x, y} /\ \A s \in S \ {x, y} : z <= s
  <2>1. S \ {x, y} # {} /\ S \ {x, y} \in SUBSET Nat
    BY <1>7
  <2> QED BY <2>1, Least
<1> QED BY <1>3, <1>6, <1>8

LEMMA ThreePick ==
    ASSUME NEW S \in SUBSET Nat, IsFiniteSet(S), NEW x, NEW y, NEW z,
           FirstThree(S, x, y, z)
    PROVE  PickThree(S, x, y, z)
<1> USE DEF PickThree, FirstThree
<1>1. Min(S) = x
  <2>1. S # {}
    OBVIOUS
  <2>2. Min(S) \in S /\ \A s \in S : Min(S) <= s
    BY <2>1, Least
  <2>3. \A s \in S : s \in Nat /\ x <= s
    OBVIOUS
  <2>4. ASSUME NEW m \in S, m <= x PROVE m = x
    BY <2>3, <2>4
  <2> QED BY <2>2, <2>4
<1>2. Min(S \ {x}) = y
  <2> DEFINE T == S \ {x}
  <2>1. T # {} /\ T \in SUBSET Nat /\ y \in T /\ \A s \in T : y <= s
    OBVIOUS
  <2> HIDE DEF T
  <2>2. Min(T) \in T /\ \A s \in T : Min(T) <= s
    BY <2>1, Least
  <2>3. ASSUME NEW m \in T, m <= y PROVE m = y
    BY <2>1, <2>3
  <2>4. Min(T) = y
    BY <2>1, <2>2, <2>3
  <2> QED BY <2>4 DEF T
<1>3. Min(S \ {x, y}) = z
  <2> DEFINE T == S \ {x, y}
  <2>1. T # {} /\ T \in SUBSET Nat /\ z \in T /\ \A s \in T : z <= s
    OBVIOUS
  <2> HIDE DEF T
  <2>2. Min(T) \in T /\ \A s \in T : Min(T) <= s
    BY <2>1, Least
  <2>3. ASSUME NEW m \in T, m <= z PROVE m = z
    BY <2>1, <2>3
  <2>4. Min(T) = z
    BY <2>1, <2>2, <2>3
  <2> QED BY <2>4 DEF T
<1>4. Cardinality(S) >= 3 /\ Cardinality(S) \in Nat
  <2>1. IsFiniteSet(S \ {x}) /\ Cardinality(S \ {x}) = Cardinality(S) - 1
    BY FS_RemoveElement
  <2>2. IsFiniteSet((S \ {x}) \ {y}) /\ Cardinality((S \ {x}) \ {y}) = Cardinality(S \ {x}) - 1
    BY <2>1, FS_RemoveElement
  <2>3. (S \ {x}) \ {y} # {}
    OBVIOUS
  <2>4. Cardinality((S \ {x}) \ {y}) \in Nat /\ Cardinality((S \ {x}) \ {y}) # 0
    BY <2>2, <2>3, FS_EmptySet, FS_CardinalityType
  <2>5. Cardinality(S) \in Nat
    BY FS_CardinalityType
  <2> QED BY <2>1, <2>2, <2>4, <2>5
<1> QED BY <1>1, <1>2, <1>3, <1>4

\* The word that starts at i ends at e.
EndsWord(b, i, e) ==
    /\ e \in i..Len(b) /\ \A k \in i..e : ~Blank(b[k])
    /\ e < Len(b) => Blank(b[e + 1])

\* A word that starts has one end, and it is what WordAt gives.
LEMMA WordIs ==
    ASSUME NEW b \in Seq(Octet), NEW i \in 1..Len(b), NEW e, EndsWord(b, i, e)
    PROVE  WordAt(b, i) = SubSeq(b, i, e)
<1> DEFINE E == {j \in i..Len(b) : \A k \in i..j : ~Blank(b[k])}
<1>1. Len(b) \in Nat
  OBVIOUS
<1>2. e \in E /\ e \in Nat
  BY <1>1 DEF EndsWord
<1>3. \A j \in E : e >= j
  <2> SUFFICES ASSUME NEW j \in E, ~(e >= j) PROVE FALSE
    OBVIOUS
  <2>1. e < Len(b) /\ e + 1 \in i..j
    BY <1>1, <1>2
  <2> QED BY <2>1 DEF EndsWord
<1>4. Max(E) \in E /\ \A j \in E : Max(E) >= j
  <2> HIDE DEF E
  <2> QED BY <1>2, <1>3 DEF Max
<1>5. Max(E) = e
  BY <1>1, <1>2, <1>3, <1>4
<1> QED BY <1>5 DEF WordAt

LEMMA WordEnds ==
    ASSUME NEW b \in Seq(Octet), NEW i \in 1..Len(b), ~Blank(b[i])
    PROVE  \E e : EndsWord(b, i, e)
<1> DEFINE B == {j \in i..Len(b) : Blank(b[j])}
<1>1. Len(b) \in Nat /\ B \in SUBSET Nat
  OBVIOUS
<1>2. CASE B = {}
  <2>1. EndsWord(b, i, Len(b))
    BY <1>1, <1>2 DEF EndsWord
  <2> QED BY <2>1
<1>3. CASE B # {}
  <2> DEFINE m == Min(B)
  <2>1. m \in B /\ \A x \in B : m <= x
    <3> HIDE DEF B
    <3> QED BY <1>1, <1>3, Least
  <2> HIDE DEF m
  <2>2. m # i
    BY <2>1
  <2>3. m - 1 \in i..Len(b) /\ m - 1 + 1 = m /\ m - 1 < m
    BY <1>1, <2>1, <2>2
  <2>4. \A k \in i..m - 1 : ~Blank(b[k])
    BY <1>1, <2>1
  <2>5. EndsWord(b, i, m - 1)
    BY <2>1, <2>3, <2>4 DEF EndsWord
  <2> QED BY <2>5
<1> QED BY <1>2, <1>3

\* Where a line of b may end.
Breaks(b) == {i \in 0..Len(b) - 2 : b[i + 1] = CR /\ b[i + 2] = LF}

\* The first line of b.
LEMMA LineIs ==
    ASSUME NEW b \in Seq(Octet), NEW r, r = UpTo(b, <<CR, LF>>)
    PROVE  /\ r \in Seq(Octet) /\ Len(r) \in 0..Len(b)
           /\ \A i \in 1..Len(r) : r[i] = b[i]
           /\ \/ Len(r) = Len(b) /\ Breaks(b) = {}
              \/ Len(r) \in Breaks(b) /\ \A i \in Breaks(b) : Len(r) <= i
<1> DEFINE end == <<CR, LF>>
           found == {i \in 0..(Len(b) - Len(end)) : Octets(b, i, Len(end)) = end}
<1>0. Len(b) \in Nat
  OBVIOUS
<1>1. Len(end) = 2 /\ end[1] = CR /\ end[2] = LF /\ end \in Seq({CR, LF})
  OBVIOUS
<1>2. r = IF found = {} THEN b ELSE Octets(b, 0, Min(found))
  BY Zenon DEF UpTo
<1> HIDE DEF end
<1>3. \A i \in 0..Len(b) - 2 :
         Octets(b, i, Len(end)) = end <=> b[i + 1] = CR /\ b[i + 2] = LF
  <2> TAKE i \in 0..Len(b) - 2
  <2>1. i \in Nat /\ i + 2 <= Len(b) /\ 2 \in Nat
    BY <1>0
  <2> DEFINE p == Octets(b, i, 2)
  <2>3. p = Octets(b, i, Len(end))
    BY <1>1
  <2> HIDE DEF end
  <2>2. p \in Seq(Octet) /\ Len(p) = 2 /\ \A k \in 1..2 : p[k] = b[i + k]
    BY <2>1, OctetsElements
  <2> HIDE DEF p
  <2>4. p[1] = b[i + 1] /\ p[2] = b[i + 2]
    BY <2>2
  <2>5. ASSUME b[i + 1] = CR, b[i + 2] = LF PROVE p = end
    <3>1. \A k \in 1..2 : p[k] = end[k]
      BY <1>1, <2>4, <2>5
    <3> QED BY <1>1, <2>2, <3>1, SeqEqual
  <2> QED BY <1>1, <2>3, <2>4, <2>5, Zenon
<1>4. found = Breaks(b)
  <2>1. found = {i \in 0..Len(b) - 2 : Octets(b, i, Len(end)) = end}
    BY <1>1
  <2> HIDE DEF found
  <2>2. \A i : i \in found <=> i \in 0..Len(b) - 2 /\ Octets(b, i, Len(end)) = end
    BY <2>1, Zenon
  <2>3. \A i : i \in Breaks(b) <=> i \in 0..Len(b) - 2 /\ b[i + 1] = CR /\ b[i + 2] = LF
    BY Zenon DEF Breaks
  <2>4. \A i : i \in found <=> i \in Breaks(b)
    BY <1>3, <2>2, <2>3, Zenon
  <2> QED BY <2>4, Zenon
<1> HIDE DEF found
<1>5. CASE Breaks(b) = {}
  <2>1. r = b
    BY <1>2, <1>4, <1>5, Zenon
  <2>2. /\ b \in Seq(Octet) /\ Len(b) \in 0..Len(b)
        /\ \A i \in 1..Len(b) : b[i] = b[i]
    BY <1>0
  <2> QED BY <1>5, <2>1, <2>2, Zenon
<1>6. CASE Breaks(b) # {}
  <2> DEFINE m == Min(Breaks(b))
  <2>1. Breaks(b) \in SUBSET Nat
    BY <1>0 DEF Breaks
  <2>2. m \in Breaks(b) /\ \A i \in Breaks(b) : m <= i
    BY <1>6, <2>1, Least
  <2>3. m \in Nat /\ 0 + m <= Len(b)
    BY <1>0, <2>2 DEF Breaks
  <2>4. r = Octets(b, 0, m)
    BY <1>2, <1>4, <1>6, Zenon
  <2> HIDE DEF m
  <2>5. /\ Octets(b, 0, m) \in Seq(Octet) /\ Len(Octets(b, 0, m)) = m
        /\ \A k \in 1..m : Octets(b, 0, m)[k] = b[0 + k]
    BY <2>3, OctetsElements
  <2>6. \A k \in 1..m : r[k] = b[k]
    BY <2>3, <2>4, <2>5
  <2>7. Len(r) = m /\ r \in Seq(Octet) /\ m \in 0..Len(b)
    BY <1>0, <2>3, <2>4, <2>5
  <2> QED BY <2>2, <2>6, <2>7, Zenon DEF m
<1> QED BY <1>5, <1>6

\* c is r, lacks its last octet, or goes on with a carriage return.
Near(c, r) ==
    /\ Len(r) \in {Len(c) - 1, Len(c), Len(c) + 1}
    /\ \A i \in 1..Len(c) : i <= Len(r) => c[i] = r[i]
    /\ Len(r) < Len(c) => c[Len(c)] = CR

LEMMA LineNear ==
    ASSUME NEW b \in Seq(Octet), b # <<>>
    PROVE  Near(UpTo(Front(b), <<CR, LF>>), UpTo(b, <<CR, LF>>))
<1> DEFINE f == Front(b)
           c == UpTo(f, <<CR, LF>>)
           r == UpTo(b, <<CR, LF>>)
<1>1. /\ f \in Seq(Octet) /\ Len(f) = Len(b) - 1 /\ Len(b) \in Nat \ {0}
      /\ \A k \in 1..Len(b) - 1 : f[k] = b[k]
  BY FrontElements
<1> HIDE DEF f
<1>2. /\ Len(c) \in 0..Len(f) /\ \A i \in 1..Len(c) : c[i] = f[i]
      /\ \/ Len(c) = Len(f) /\ Breaks(f) = {}
         \/ Len(c) \in Breaks(f) /\ \A i \in Breaks(f) : Len(c) <= i
  BY <1>1, LineIs
<1>3. /\ Len(r) \in 0..Len(b) /\ \A i \in 1..Len(r) : r[i] = b[i]
      /\ \/ Len(r) = Len(b) /\ Breaks(b) = {}
         \/ Len(r) \in Breaks(b) /\ \A i \in Breaks(b) : Len(r) <= i
  BY LineIs
<1>4. Breaks(f) = Breaks(b) \ {Len(b) - 2}
  <2>1. ASSUME NEW i \in 0..Len(b) - 3
        PROVE  f[i + 1] = b[i + 1] /\ f[i + 2] = b[i + 2]
    BY <1>1
  <2>2. Len(f) - 2 = Len(b) - 3
    BY <1>1
  <2>3. \A i : i \in 0..Len(b) - 3 <=> i \in 0..Len(b) - 2 /\ i # Len(b) - 2
    BY <1>1
  <2>4. \A i : i \in Breaks(f) <=> i \in Breaks(b) /\ i # Len(b) - 2
    BY <2>1, <2>2, <2>3, Zenon DEF Breaks
  <2> QED BY <2>4, Zenon
<1>5. Len(b) - 2 \in Breaks(b) => f[Len(b) - 1] = CR
  BY <1>1 DEF Breaks
<1>6. \A i \in Breaks(b) : i \in 0..Len(b) - 2
  BY DEF Breaks
<1> HIDE DEF c, r
<1>7. /\ Len(r) \in {Len(c) - 1, Len(c), Len(c) + 1}
      /\ Len(r) < Len(c) => Len(c) = Len(b) - 1 /\ Len(b) - 2 \in Breaks(b)
  <2>1. CASE Len(c) = Len(f) /\ Breaks(f) = {}
    BY <1>1, <1>3, <1>4, <1>6, <2>1
  <2>2. CASE Len(c) \in Breaks(f) /\ \A i \in Breaks(f) : Len(c) <= i
    <3>1. Len(c) \in Breaks(b) /\ Len(c) # Len(b) - 2
      BY <1>4, <2>2
    <3>2. Len(r) \in Breaks(b) /\ Len(r) <= Len(c)
      BY <1>3, <3>1, Zenon
    <3>3. Len(r) # Len(b) - 2 /\ Len(r) \in Nat /\ Len(c) \in Nat
      BY <1>1, <1>6, <3>1, <3>2
    <3>4. Len(r) \in Breaks(f)
      BY <1>4, <3>2, <3>3, Zenon
    <3>5. Len(c) <= Len(r)
      BY <2>2, <3>4, Zenon
    <3> QED BY <3>2, <3>3, <3>5
  <2> QED BY <1>2, <2>1, <2>2
<1>8. \A i \in 1..Len(c) : i <= Len(r) => c[i] = r[i]
  BY <1>1, <1>2, <1>3
<1>9. Len(r) < Len(c) => c[Len(c)] = CR
  BY <1>1, <1>2, <1>5, <1>7
<1> QED BY <1>7, <1>8, <1>9 DEF Near, c, r, f

\* Words start at octets.
LEMMA StartsAreNumbers ==
    ASSUME NEW b \in Seq(Octet)
    PROVE  /\ WordStarts(b) \in SUBSET (1..Len(b)) /\ WordStarts(b) \in SUBSET Nat
           /\ IsFiniteSet(WordStarts(b)) /\ Len(b) \in Nat
<1>1. Len(b) \in Nat /\ DOMAIN b = 1..Len(b)
  OBVIOUS
<1>2. WordStarts(b) \in SUBSET (1..Len(b))
  BY <1>1 DEF WordStarts
<1>3. IsFiniteSet(1..Len(b))
  BY <1>1, FS_Interval
<1>4. IsFiniteSet(WordStarts(b))
  BY <1>2, <1>3, FS_Subset
<1> QED BY <1>1, <1>2, <1>4

\* The first three words start where they started.
LEMMA StartsKept ==
    ASSUME NEW c \in Seq(Octet), NEW r \in Seq(Octet), Near(c, r),
           NEW x, NEW y, NEW z, PickThree(WordStarts(c), x, y, z)
    PROVE  /\ FirstThree(WordStarts(c), x, y, z)
           /\ PickThree(WordStarts(r), x, y, z)
           /\ z <= Len(r)
<1>1. /\ WordStarts(c) \in SUBSET (1..Len(c)) /\ WordStarts(c) \in SUBSET Nat
      /\ IsFiniteSet(WordStarts(c)) /\ Len(c) \in Nat
      /\ WordStarts(r) \in SUBSET (1..Len(r)) /\ WordStarts(r) \in SUBSET Nat
      /\ IsFiniteSet(WordStarts(r)) /\ Len(r) \in Nat
  BY StartsAreNumbers
<1>0. FirstThree(WordStarts(c), x, y, z)
  BY <1>1, ThreePicked
<1>2. /\ x \in WordStarts(c) /\ y \in WordStarts(c) /\ z \in WordStarts(c)
      /\ x < y /\ y < z /\ \A s \in WordStarts(c) : s = x \/ s = y \/ z <= s
  BY <1>0, Zenon DEF FirstThree
<1>3. \A s \in 1..Len(c) : s <= Len(r) => (s \in WordStarts(c) <=> s \in WordStarts(r))
  <2> TAKE s \in 1..Len(c)
  <2> HAVE s <= Len(r)
  <2>1. s \in DOMAIN c /\ s \in DOMAIN r /\ c[s] = r[s]
    BY <1>1 DEF Near
  <2>2. s > 1 => c[s - 1] = r[s - 1]
    BY <1>1 DEF Near
  <2> QED BY <2>1, <2>2 DEF WordStarts
<1>4. \A s \in WordStarts(c) : s <= Len(r)
  <2> SUFFICES ASSUME NEW s \in WordStarts(c), ~(s <= Len(r)) PROVE FALSE
    OBVIOUS
  <2>1. s = Len(c) /\ Len(r) < Len(c)
    BY <1>1 DEF Near
  <2>2. c[s] = CR
    BY <2>1 DEF Near
  <2> QED BY <2>2 DEF WordStarts, Blank
<1>5. x \in WordStarts(r) /\ y \in WordStarts(r) /\ z \in WordStarts(r)
  BY <1>1, <1>2, <1>3, <1>4
<1>6. \A s \in WordStarts(r) : s = x \/ s = y \/ z <= s
  <2> TAKE s \in WordStarts(r)
  <2>1. CASE s <= Len(c)
    <3>1. s \in 1..Len(c) /\ s <= Len(r)
      BY <1>1, <2>1
    <3>2. s \in WordStarts(c)
      BY <1>3, <3>1
    <3> QED BY <1>2, <3>2
  <2>2. CASE ~(s <= Len(c))
    BY <1>1, <1>2, <2>2
  <2> QED BY <2>1, <2>2
<1>7. FirstThree(WordStarts(r), x, y, z)
  BY <1>2, <1>5, <1>6 DEF FirstThree
<1>8. PickThree(WordStarts(r), x, y, z)
  BY <1>1, <1>7, ThreePick
<1> QED BY <1>0, <1>2, <1>4, <1>8

\* A word that another follows is what it was.
LEMMA WordKept ==
    ASSUME NEW c \in Seq(Octet), NEW r \in Seq(Octet), Near(c, r),
           NEW x \in WordStarts(c), NEW y \in WordStarts(c), x < y, y <= Len(r)
    PROVE  WordAt(r, x) = WordAt(c, x)
<1>1. /\ Len(c) \in Nat /\ Len(r) \in Nat /\ x \in 1..Len(c) /\ y \in 1..Len(c)
      /\ ~Blank(c[x]) /\ Blank(c[y - 1])
  BY DEF WordStarts
<1>2. PICK e : EndsWord(c, x, e)
  BY <1>1, WordEnds
<1>3. /\ e \in x..Len(c) /\ \A k \in x..e : ~Blank(c[k])
      /\ e < Len(c) => Blank(c[e + 1])
  BY <1>2 DEF EndsWord
<1>4. e < y - 1
  BY <1>1, <1>3
<1>5. \A k \in x..e + 1 : c[k] = r[k]
  <2> TAKE k \in x..e + 1
  <2>1. k \in 1..Len(c) /\ k <= Len(r)
    BY <1>1, <1>3, <1>4
  <2> QED BY <2>1, Zenon DEF Near
<1>6. EndsWord(r, x, e)
  <2>1. e \in x..Len(r) /\ e + 1 \in x..e + 1 /\ e < Len(c)
    BY <1>1, <1>3, <1>4
  <2>2. \A k \in x..e : k \in x..e + 1
    BY <1>1, <1>3
  <2>3. \A k \in x..e : ~Blank(r[k])
    BY <1>3, <1>5, <2>2
  <2>4. Blank(r[e + 1])
    BY <1>3, <1>5, <2>1
  <2> QED BY <2>1, <2>3, <2>4 DEF EndsWord
<1>7. WordAt(c, x) = SubSeq(c, x, e) /\ WordAt(r, x) = SubSeq(r, x, e)
  BY <1>1, <1>2, <1>6, WordIs
<1>8. SubSeq(c, x, e) = SubSeq(r, x, e)
  <2> DEFINE i == x - 1
             n == e - x + 1
             p == SubSeq(c, i + 1, i + n)
             q == SubSeq(r, i + 1, i + n)
  <2>1. i \in Nat /\ n \in Nat /\ i + n <= Len(c) /\ i + n <= Len(r)
        /\ i + 1 = x /\ i + n = e
    BY <1>1, <1>3, <1>4
  <2>2. \A k \in 1..n : i + k \in x..e + 1
    BY <1>1, <1>3
  <2> HIDE DEF i, n
  <2>3. /\ p \in Seq(Octet) /\ Len(p) = n /\ \A k \in 1..n : p[k] = c[i + k]
        /\ q \in Seq(Octet) /\ Len(q) = n /\ \A k \in 1..n : q[k] = r[i + k]
    BY <2>1, PartElements
  <2> HIDE DEF p, q
  <2>4. p = q
    BY <1>5, <2>2, <2>3, SeqEqual
  <2> QED BY <2>1, <2>4 DEF p, q
<1> QED BY <1>7, <1>8

\* A word that nothing follows may lose its last octet: what it starts with remains.
LEMMA LastWordKept ==
    ASSUME NEW c \in Seq(Octet), NEW r \in Seq(Octet), Near(c, r),
           NEW z \in WordStarts(c), z <= Len(r), NEW h \in Seq(Octet),
           IsPrefix(h, WordAt(c, z))
    PROVE  IsPrefix(h, WordAt(r, z))
<1>1. /\ Len(c) \in Nat /\ Len(r) \in Nat /\ z \in 1..Len(c) /\ z \in 1..Len(r)
      /\ ~Blank(c[z]) /\ c[z] = r[z]
  BY DEF WordStarts, Near
<1>2. PICK e : EndsWord(c, z, e)
  BY <1>1, WordEnds
<1>3. PICK g : EndsWord(r, z, g)
  BY <1>1, WordEnds
<1>4. /\ e \in z..Len(c) /\ \A k \in z..e : ~Blank(c[k])
      /\ g \in z..Len(r) /\ \A k \in z..g : ~Blank(r[k])
      /\ g < Len(r) => Blank(r[g + 1])
  BY <1>2, <1>3 DEF EndsWord
<1>5. e <= Len(r)
  <2> SUFFICES ASSUME ~(e <= Len(r)) PROVE FALSE
    OBVIOUS
  <2>1. e = Len(c) /\ Len(r) < Len(c) /\ e \in z..e
    BY <1>1, <1>4 DEF Near
  <2>2. c[e] = CR
    BY <2>1 DEF Near
  <2> QED BY <1>4, <2>1, <2>2 DEF Blank
<1>6. \A k \in z..e : c[k] = r[k]
  BY <1>1, <1>4, <1>5 DEF Near
<1>7. e <= g
  <2> SUFFICES ASSUME ~(e <= g) PROVE FALSE
    OBVIOUS
  <2>1. g < Len(r) /\ g + 1 \in z..e
    BY <1>1, <1>4, <1>5
  <2> QED BY <1>4, <1>6, <2>1
<1>8. WordAt(c, z) = SubSeq(c, z, e) /\ WordAt(r, z) = SubSeq(r, z, g)
  BY <1>1, <1>2, <1>3, WordIs
<1> DEFINE i == z - 1
           n == e - z + 1
           m == g - z + 1
           p == SubSeq(c, i + 1, i + n)
           q == SubSeq(r, i + 1, i + m)
<1>9. /\ i \in Nat /\ n \in Nat /\ m \in Nat /\ i + n <= Len(c) /\ i + m <= Len(r)
      /\ i + 1 = z /\ i + n = e /\ i + m = g /\ n <= m
  BY <1>1, <1>4, <1>7
<1>10. \A k \in 1..n : i + k \in z..e
  BY <1>1, <1>4
<1> HIDE DEF i, n, m
<1>11. /\ p \in Seq(Octet) /\ Len(p) = n /\ \A k \in 1..n : p[k] = c[i + k]
       /\ q \in Seq(Octet) /\ Len(q) = m /\ \A k \in 1..m : q[k] = r[i + k]
  <2>1. p = Octets(c, i, n) /\ q = Octets(r, i, m)
    BY DEF Octets
  <2> HIDE DEF p, q
  <2>2. /\ Octets(c, i, n) \in Seq(Octet) /\ Len(Octets(c, i, n)) = n
        /\ \A k \in 1..n : Octets(c, i, n)[k] = c[i + k]
    BY <1>9, OctetsElements
  <2>3. /\ Octets(r, i, m) \in Seq(Octet) /\ Len(Octets(r, i, m)) = m
        /\ \A k \in 1..m : Octets(r, i, m)[k] = r[i + k]
    BY <1>9, OctetsElements
  <2> QED BY <2>1, <2>2, <2>3, Zenon
<1>12. WordAt(c, z) = p /\ WordAt(r, z) = q
  BY <1>8, <1>9
<1> HIDE DEF p, q
<1>13. \A k \in 1..n : p[k] = q[k]
  <2> TAKE k \in 1..n
  <2>1. k \in 1..m
    BY <1>9
  <2>2. c[i + k] = r[i + k]
    BY <1>6, <1>10, Zenon
  <2> QED BY <1>11, <2>1, <2>2, Zenon
<1>14. Len(h) \in Nat /\ Len(h) <= n /\ SubSeq(h, 1, Len(h)) = SubSeq(p, 1, Len(h))
  BY <1>11, <1>12 DEF IsPrefix
<1>15. SubSeq(p, 1, Len(h)) = SubSeq(q, 1, Len(h))
  <2> DEFINE l == Len(h)
             s == SubSeq(p, 0 + 1, 0 + l)
             t == SubSeq(q, 0 + 1, 0 + l)
  <2>1. l \in Nat /\ 0 + l <= Len(p) /\ 0 + l <= Len(q) /\ 0 + l = l /\ 0 \in Nat
    BY <1>9, <1>11, <1>14
  <2>2. \A k \in 1..l : 0 + k = k /\ k \in 1..n
    BY <1>9, <1>14
  <2> HIDE DEF l
  <2>3. /\ s \in Seq(Octet) /\ Len(s) = l /\ \A k \in 1..l : s[k] = p[0 + k]
        /\ t \in Seq(Octet) /\ Len(t) = l /\ \A k \in 1..l : t[k] = q[0 + k]
    BY <1>11, <2>1, PartElements
  <2> HIDE DEF s, t
  <2>4. s = t
    BY <1>13, <2>2, <2>3, SeqEqual
  <2>5. s = SubSeq(p, 1, l) /\ t = SubSeq(q, 1, l)
    BY <2>1 DEF s, t
  <2> QED BY <2>4, <2>5 DEF l
<1> QED BY <1>9, <1>11, <1>12, <1>14, <1>15 DEF IsPrefix

\* What DecodeHttp looks at of a payload.
Text(b) == SubSeq(b, 1, IF Len(b) < 2048 THEN Len(b) ELSE 2048)
AllPlain(b) == \A i \in DOMAIN b : Plain(b[i])
FirstLine(b) == UpTo(Text(b), <<CR, LF>>)

LEMMA WholeIs ==
    ASSUME NEW b \in Seq(Octet)
    PROVE  SubSeq(b, 1, Len(b)) = b
<1> DEFINE n == Len(b)
           p == SubSeq(b, 0 + 1, 0 + n)
<1>1. n \in Nat /\ 0 + n <= Len(b) /\ 0 \in Nat /\ 0 + n = n
  OBVIOUS
<1> HIDE DEF n
<1>2. p \in Seq(Octet) /\ Len(p) = n /\ \A k \in 1..n : p[k] = b[0 + k]
  BY <1>1, PartElements
<1>3. \A k \in 1..n : 0 + k = k
  BY <1>1
<1>4. p = SubSeq(b, 1, n)
  BY <1>1
<1> HIDE DEF p
<1>5. p = b
  BY <1>2, <1>3, SeqEqual DEF n
<1> QED BY <1>4, <1>5 DEF n

\* A payload of no more than n octets is looked at whole, a longer one up to there.
LEMMA ShortText ==
    ASSUME NEW b \in Seq(Octet), NEW n \in Nat
    PROVE  LET text == SubSeq(b, 1, IF Len(b) < n THEN Len(b) ELSE n)
           IN  text = IF Len(b) > n THEN SubSeq(b, 1, n) ELSE b
<1> DEFINE m == Len(b)
           end == IF m < n THEN m ELSE n
<1>1. m \in Nat
  OBVIOUS
<1>2. SubSeq(b, 1, m) = b
  BY WholeIs
<1> HIDE DEF m
<1>3. (m > n => end = n) /\ (~(m > n) => end = m)
  BY <1>1
<1> HIDE DEF end
<1>4. SubSeq(b, 1, end) = IF m > n THEN SubSeq(b, 1, n) ELSE b
  BY <1>2, <1>3
<1> QED BY <1>4 DEF end, m

\* The cut takes the last octet of a text, or none.
LEMMA TextKept ==
    ASSUME NEW b \in Seq(Octet), b # <<>>
    PROVE  /\ Text(b) \in Seq(Octet) /\ Text(Front(b)) \in Seq(Octet)
           /\ AllPlain(Text(Front(b))) /\ Plain(Last(b)) => AllPlain(Text(b))
           /\ Near(FirstLine(Front(b)), FirstLine(b))
<1> DEFINE f == Front(b)
           n == 2048
<1>1. /\ f \in Seq(Octet) /\ Len(f) = Len(b) - 1 /\ Len(b) \in Nat \ {0}
      /\ \A k \in 1..Len(b) - 1 : f[k] = b[k]
  BY FrontElements
<1>2. n \in Nat
  OBVIOUS
<1> HIDE DEF f
<1>3. \A s : Text(s) = SubSeq(s, 1, IF Len(s) < n THEN Len(s) ELSE n)
  BY DEF Text
<1> HIDE DEF n
<1>4. /\ Text(b) = IF Len(b) > n THEN SubSeq(b, 1, n) ELSE b
      /\ Text(f) = IF Len(f) > n THEN SubSeq(f, 1, n) ELSE f
  BY <1>1, <1>2, <1>3, ShortText
<1>5. CASE Len(b) > n
  <2>1. 0 \in Nat /\ n \in Nat /\ 0 + n < Len(b) /\ 0 + 1 = 1 /\ 0 + n = n
    BY <1>2, <1>5
  <2>2. SubSeq(f, 0 + 1, 0 + n) = SubSeq(b, 0 + 1, 0 + n)
        /\ SubSeq(b, 0 + 1, 0 + n) \in Seq(Octet)
    BY <2>1, PartKept DEF f
  <2>3. SubSeq(f, 1, n) = SubSeq(b, 1, n) /\ SubSeq(b, 1, n) \in Seq(Octet)
    BY <2>1, <2>2
  <2>4. Len(f) > n \/ Len(f) = n
    BY <1>1, <1>2, <1>5
  <2>5. Len(f) = n => SubSeq(f, 1, n) = f
    BY <1>1, WholeIs
  <2>6. Text(f) = Text(b) /\ Text(b) \in Seq(Octet)
    <3>1. Text(b) = SubSeq(b, 1, n)
      BY <1>4, <1>5, Zenon
    <3>2. CASE Len(f) > n
      BY <1>4, <2>3, <3>1, <3>2, Zenon
    <3>3. CASE Len(f) = n
      <4>1. ~(Len(f) > n)
        BY <1>2, <3>3
      <4>2. Text(f) = f
        BY <1>4, <4>1, Zenon
      <4> QED BY <2>3, <2>5, <3>1, <3>3, <4>2, Zenon
    <3> QED BY <2>4, <3>2, <3>3
  <2>7. FirstLine(f) = FirstLine(b) /\ FirstLine(b) \in Seq(Octet)
    BY <2>6, LineIs DEF FirstLine
  <2>8. Len(FirstLine(b)) \in Nat
    BY <2>7
  <2>9. Near(FirstLine(f), FirstLine(b))
    BY <2>7, <2>8 DEF Near
  <2> QED BY <2>6, <2>9, Zenon DEF f
<1>6. CASE ~(Len(b) > n)
  <2>1. Text(b) = b
    BY <1>4, <1>6, Zenon
  <2>2. ~(Len(f) > n)
    BY <1>1, <1>2, <1>6
  <2>3. Text(f) = f
    BY <1>4, <2>2, Zenon
  <2>4. ASSUME AllPlain(f), Plain(Last(b)) PROVE AllPlain(b)
    <3> SUFFICES ASSUME NEW i \in 1..Len(b) PROVE Plain(b[i])
      BY DEF AllPlain
    <3>1. CASE i = Len(b)
      BY <2>4, <3>1 DEF Last
    <3>2. CASE i # Len(b)
      <4>1. i \in 1..Len(b) - 1 /\ i \in DOMAIN f
        BY <1>1, <3>2
      <4> QED BY <1>1, <2>4, <4>1, Zenon DEF AllPlain
    <3> QED BY <3>1, <3>2
  <2>5. Near(FirstLine(f), FirstLine(b))
    BY <2>1, <2>3, LineNear DEF FirstLine, f
  <2> QED BY <1>1, <2>1, <2>3, <2>4, <2>5, Zenon DEF f
<1> QED BY <1>5, <1>6

\* The request line of a payload, in which words start at x, y and z, as DecodeHttp
\* judges it.
IsRequest(b, x, y, z) ==
    /\ ~(Len(b) < 14) /\ AllPlain(Text(b)) /\ PickThree(WordStarts(FirstLine(b)), x, y, z)
    /\ \A i \in DOMAIN WordAt(FirstLine(b), x) : WordAt(FirstLine(b), x)[i] \in 65..90
    /\ IsPrefix(HttpSlash, WordAt(FirstLine(b), z))

RequestOf(b, x, y, z) ==
    [name |-> "http_request", method |-> WordAt(FirstLine(b), x),
     uri |-> WordAt(FirstLine(b), y), version |-> WordAt(FirstLine(b), z),
     host |-> Header(Tail(Split(Text(b), <<CR, LF>>)), Host),
     user_agent |-> Header(Tail(Split(Text(b), <<CR, LF>>)), UserAgent)]

LEMMA RequestIs ==
    ASSUME NEW b
    PROVE  /\ DecodeHttp(b) # <<>> => \E x, y, z : IsRequest(b, x, y, z)
           /\ \A x, y, z : IsRequest(b, x, y, z) =>
                 DecodeHttp(b) = <<RequestOf(b, x, y, z)>>
<1> DEFINE S == WordStarts(FirstLine(b))
           x0 == Min(S)
           y0 == Min(S \ {x0})
           z0 == Min(S \ {x0, y0})
<1>1. DecodeHttp(b) =
        IF \/ Len(b) < 14 \/ \E i \in DOMAIN Text(b) : ~Plain(Text(b)[i])
           \/ Cardinality(S) < 3
           \/ \E i \in DOMAIN WordAt(FirstLine(b), x0) :
                 WordAt(FirstLine(b), x0)[i] \notin 65..90
           \/ ~IsPrefix(HttpSlash, WordAt(FirstLine(b), z0))
        THEN <<>> ELSE <<RequestOf(b, x0, y0, z0)>>
  BY DEF DecodeHttp, RequestOf, FirstLine, Text
<1>2. IsRequest(b, x0, y0, z0) <=>
         ~(\/ Len(b) < 14 \/ \E i \in DOMAIN Text(b) : ~Plain(Text(b)[i])
           \/ Cardinality(S) < 3
           \/ \E i \in DOMAIN WordAt(FirstLine(b), x0) :
                 WordAt(FirstLine(b), x0)[i] \notin 65..90
           \/ ~IsPrefix(HttpSlash, WordAt(FirstLine(b), z0)))
  BY Zenon DEF IsRequest, AllPlain, PickThree
<1>3. \A x, y, z : IsRequest(b, x, y, z) => x = x0 /\ y = y0 /\ z = z0
  BY Zenon DEF IsRequest, PickThree
<1> HIDE DEF x0, y0, z0, S
<1>4. DecodeHttp(b) # <<>> => IsRequest(b, x0, y0, z0)
  BY <1>1, <1>2, Zenon
<1>5. IsRequest(b, x0, y0, z0) => DecodeHttp(b) = <<RequestOf(b, x0, y0, z0)>>
  BY <1>1, <1>2, Zenon
<1> QED BY <1>3, <1>4, <1>5, Zenon

\* A request that is read from a payload cut is one in the payload, by the same
\* method for the same URI, if the octet cut off is one of a text.
LEMMA HttpKept ==
    ASSUME NEW b \in Seq(Octet), b # <<>>, DecodeHttp(Front(b)) # <<>>, Plain(Last(b))
    PROVE  \E x, y, z :
              /\ DecodeHttp(Front(b)) = <<RequestOf(Front(b), x, y, z)>>
              /\ DecodeHttp(b) = <<RequestOf(b, x, y, z)>>
              /\ WordAt(FirstLine(b), x) = WordAt(FirstLine(Front(b)), x)
              /\ WordAt(FirstLine(b), y) = WordAt(FirstLine(Front(b)), y)
<1> DEFINE f == Front(b)
           c == FirstLine(f)
           r == FirstLine(b)
<1>1. Len(f) = Len(b) - 1 /\ Len(b) \in Nat
  BY FrontElements
<1>2. PICK x, y, z : IsRequest(f, x, y, z)
  BY RequestIs, Zenon
<1>3. /\ ~(Len(f) < 14) /\ AllPlain(Text(f)) /\ PickThree(WordStarts(c), x, y, z)
      /\ \A i \in DOMAIN WordAt(c, x) : WordAt(c, x)[i] \in 65..90
      /\ IsPrefix(HttpSlash, WordAt(c, z))
  BY <1>2, Zenon DEF IsRequest
<1>4. /\ Text(b) \in Seq(Octet) /\ Text(f) \in Seq(Octet) /\ AllPlain(Text(b)) /\ Near(c, r)
  BY <1>3, TextKept
<1>5. c \in Seq(Octet) /\ r \in Seq(Octet)
  BY <1>4, LineIs DEF FirstLine
<1> HIDE DEF c, r, f
<1>6. /\ FirstThree(WordStarts(c), x, y, z) /\ PickThree(WordStarts(r), x, y, z)
      /\ z <= Len(r)
  BY <1>3, <1>4, <1>5, StartsKept
<1>7. /\ x \in WordStarts(c) /\ y \in WordStarts(c) /\ z \in WordStarts(c)
      /\ x < y /\ y < z
  BY <1>6, Zenon DEF FirstThree
<1>8. x \in Nat /\ y \in Nat /\ z \in Nat /\ Len(r) \in Nat
  BY <1>5, <1>7, StartsAreNumbers
<1>9. y <= Len(r)
  BY <1>6, <1>7, <1>8
<1>10. WordAt(r, x) = WordAt(c, x)
  BY <1>4, <1>5, <1>7, <1>9, WordKept
<1>11. WordAt(r, y) = WordAt(c, y)
  BY <1>4, <1>5, <1>6, <1>7, WordKept
<1>12. HttpSlash \in Seq(Octet)
  BY DEF HttpSlash, Octet
<1>13. IsPrefix(HttpSlash, WordAt(r, z))
  BY <1>3, <1>4, <1>5, <1>6, <1>7, <1>12, LastWordKept
<1>14. ~(Len(b) < 14)
  BY <1>1, <1>3
<1>15. \A i \in DOMAIN WordAt(r, x) : WordAt(r, x)[i] \in 65..90
  BY <1>3, <1>10
<1>16. IsRequest(b, x, y, z)
  BY <1>4, <1>6, <1>13, <1>14, <1>15, Zenon DEF IsRequest, r
<1>17. DecodeHttp(b) = <<RequestOf(b, x, y, z)>> /\ DecodeHttp(f) = <<RequestOf(f, x, y, z)>>
  BY <1>2, <1>16, RequestIs, Zenon
<1> QED BY <1>10, <1>11, <1>17, Zenon DEF c, r, f

-----------------------------------------------------------------------------
(* Events.                                                                 *)

IsSequence(s) == s \in Seq(ToSet(s))

LEMMA NoneOrOne ==
    /\ IsSequence(<<>>) /\ ToSet(<<>>) = {}
    /\ \A x : IsSequence(<<x>>) /\ ToSet(<<x>>) = {x}
<1>1. ToSet(<<>>) = {} /\ <<>> \in Seq({})
  BY DEF ToSet
<1>2. ASSUME NEW x PROVE ToSet(<<x>>) = {x} /\ <<x>> \in Seq({x})
  BY DEF ToSet
<1> QED BY <1>1, <1>2 DEF IsSequence

LEMMA Joined ==
    ASSUME NEW s, NEW t, IsSequence(s), IsSequence(t)
    PROVE  IsSequence(s \o t) /\ ToSet(s \o t) = ToSet(s) \cup ToSet(t)
<1> DEFINE S == ToSet(s) \cup ToSet(t)
           u == s \o t
<1>1. s \in Seq(ToSet(s)) /\ t \in Seq(ToSet(t))
  BY DEF IsSequence
<1>2. ToSet(s) \subseteq S /\ ToSet(t) \subseteq S
  OBVIOUS
<1> HIDE DEF S
<1>3. s \in Seq(S) /\ t \in Seq(S)
  BY <1>1, <1>2, SeqMonotonic
<1>4. /\ u \in Seq(S) /\ Len(u) = Len(s) + Len(t)
      /\ \A i \in 1..Len(s) + Len(t) : u[i] = IF i <= Len(s) THEN s[i] ELSE t[i - Len(s)]
  BY <1>3, ConcatProperties
<1>5. /\ Len(s) \in Nat /\ Len(t) \in Nat /\ DOMAIN s = 1..Len(s)
      /\ DOMAIN t = 1..Len(t) /\ DOMAIN u = 1..Len(u)
  BY <1>3, <1>4
<1> HIDE DEF u
<1>6. \A x \in ToSet(u) : x \in S
  <2> TAKE x \in ToSet(u)
  <2>1. PICK i \in 1..Len(u) : x = u[i]
    BY <1>5 DEF ToSet
  <2> QED BY <1>4, <2>1, ElementOfSeq
<1>7. \A x \in ToSet(s) : x \in ToSet(u)
  <2> TAKE x \in ToSet(s)
  <2>1. PICK i \in 1..Len(s) : x = s[i]
    BY <1>5 DEF ToSet
  <2>2. i \in DOMAIN u /\ u[i] = x
    BY <1>4, <1>5, <2>1
  <2> QED BY <2>2 DEF ToSet
<1>8. \A x \in ToSet(t) : x \in ToSet(u)
  <2> TAKE x \in ToSet(t)
  <2>1. PICK i \in 1..Len(t) : x = t[i]
    BY <1>5 DEF ToSet
  <2>2. /\ i + Len(s) \in 1..Len(s) + Len(t) /\ ~(i + Len(s) <= Len(s))
        /\ i + Len(s) - Len(s) = i
    BY <1>5, <2>1
  <2>3. i + Len(s) \in DOMAIN u /\ u[i + Len(s)] = x
    BY <1>4, <1>5, <2>1, <2>2
  <2> QED BY <2>3 DEF ToSet
<1>9. ToSet(u) = S
  BY <1>6, <1>7, <1>8 DEF S
<1> QED BY <1>4, <1>9 DEF IsSequence, S, u

\* An event with more fields: an element of EachWith.
Beside(fields, e) ==
    [x \in DOMAIN fields \cup DOMAIN e |-> IF x \in DOMAIN fields THEN fields[x] ELSE e[x]]

LEMMA EachIs ==
    ASSUME NEW fields, NEW s
    PROVE  /\ ToSet(EachWith(fields, s)) = {Beside(fields, e) : e \in ToSet(s)}
           /\ IsSequence(s) => IsSequence(EachWith(fields, s))
<1> DEFINE t == EachWith(fields, s)
<1>1. t = [i \in DOMAIN s |-> Beside(fields, s[i])]
  BY DEF EachWith, Beside
<1> HIDE DEF t
<1>2. ToSet(t) = {Beside(fields, e) : e \in ToSet(s)}
  BY <1>1 DEF ToSet
<1>3. ASSUME IsSequence(s) PROVE IsSequence(t)
  <2>1. Len(s) \in Nat /\ DOMAIN s = 1..Len(s)
    BY <1>3 DEF IsSequence
  <2>2. \A i \in 1..Len(s) : Beside(fields, s[i]) \in ToSet(t)
    BY <1>1, <2>1 DEF ToSet
  <2>3. [i \in 1..Len(s) |-> Beside(fields, s[i])] \in Seq(ToSet(t))
    BY <2>1, <2>2, IsASeq
  <2> QED BY <1>1, <2>1, <2>3 DEF IsSequence
<1> QED BY <1>2, <1>3 DEF t

\* d tells what e tells, but for what a cut may change.
Cuttable == {"length", "version", "host", "user_agent"}
Same(d, e) == DOMAIN d = DOMAIN e /\ \A x \in DOMAIN e \ Cuttable : d[x] = e[x]

\* d is a request, and the octet lost is none of a text.
Freed(d, lost) == "name" \in DOMAIN d /\ d["name"] = "http_request" /\ ~Plain(lost)

\* All of the events after the cut are among those before.
Kept(after, before, lost) ==
    \A d \in after : (\E e \in before : Same(d, e)) \/ Freed(d, lost)

LEMMA SameEssence ==
    ASSUME NEW d, NEW e, Same(d, e)
    PROVE  Essence(d) = Essence(e)
BY DEF Same, Essence, Restrict, Cuttable

LEMMA KeptEach ==
    ASSUME NEW fields, "name" \notin DOMAIN fields, NEW t, NEW s, NEW lost,
           Kept(ToSet(t), ToSet(s), lost)
    PROVE  Kept(ToSet(EachWith(fields, t)), ToSet(EachWith(fields, s)), lost)
<1>1. /\ ToSet(EachWith(fields, t)) = {Beside(fields, e) : e \in ToSet(t)}
      /\ ToSet(EachWith(fields, s)) = {Beside(fields, e) : e \in ToSet(s)}
  BY EachIs
<1>2. ASSUME NEW d, NEW e, Same(d, e) PROVE Same(Beside(fields, d), Beside(fields, e))
  <2>1. DOMAIN Beside(fields, d) = DOMAIN Beside(fields, e)
    BY <1>2 DEF Same, Beside
  <2>2. ASSUME NEW x \in DOMAIN Beside(fields, e) \ Cuttable
        PROVE  Beside(fields, d)[x] = Beside(fields, e)[x]
    BY <1>2 DEF Same, Beside
  <2> QED BY <2>1, <2>2 DEF Same
<1>3. ASSUME NEW d, Freed(d, lost) PROVE Freed(Beside(fields, d), lost)
  <2>1. "name" \in DOMAIN d /\ d["name"] = "http_request" /\ ~Plain(lost)
    BY <1>3 DEF Freed
  <2>2. "name" \in DOMAIN Beside(fields, d) /\ Beside(fields, d)["name"] = d["name"]
    BY <2>1 DEF Beside
  <2> QED BY <2>1, <2>2 DEF Freed
<1> SUFFICES ASSUME NEW d \in ToSet(t)
             PROVE  \/ \E e \in ToSet(s) : Same(Beside(fields, d), Beside(fields, e))
                    \/ Freed(Beside(fields, d), lost)
  BY <1>1 DEF Kept
<1> QED BY <1>2, <1>3 DEF Kept

LEMMA KeptJoined ==
    ASSUME NEW s, NEW t, NEW u, NEW v, NEW lost,
           IsSequence(s), IsSequence(t), IsSequence(u), IsSequence(v),
           Kept(ToSet(s), ToSet(u), lost), Kept(ToSet(t), ToSet(v), lost)
    PROVE  /\ Kept(ToSet(s \o t), ToSet(u \o v), lost)
           /\ IsSequence(s \o t) /\ IsSequence(u \o v)
<1>1. /\ ToSet(s \o t) = ToSet(s) \cup ToSet(t) /\ IsSequence(s \o t)
      /\ ToSet(u \o v) = ToSet(u) \cup ToSet(v) /\ IsSequence(u \o v)
  BY Joined
<1> QED BY <1>1, Zenon DEF Kept

LEMMA NothingKept ==
    ASSUME NEW before, NEW lost
    PROVE  Kept(ToSet(<<>>), before, lost)
BY NoneOrOne DEF Kept

\* The question and the request of a payload.
LEMMA MessagesAreFew ==
    ASSUME NEW b
    PROVE  IsSequence(DecodeDns(b)) /\ IsSequence(DecodeHttp(b))
<1>1. \E x : DecodeDns(b) \in {<<>>, <<x>>}
  BY Zenon DEF DecodeDns
<1>2. \E x : DecodeHttp(b) \in {<<>>, <<x>>}
  BY RequestIs, Zenon
<1> QED BY <1>1, <1>2, NoneOrOne

LEMMA EventsAreSequences ==
    ASSUME NEW x
    PROVE  IsSequence(TcpMessages(x)) /\ IsSequence(SegmentEvents(x))
<1>1. ASSUME NEW y PROVE IsSequence(TcpMessages(y)) /\ IsSequence(UdpMessages(y))
  <2> DEFINE dns == IF 53 \in {y.src_port, y.dst_port} THEN DecodeDns(y.payload) ELSE <<>>
             http == IF y.dst_port \in {80, 8080} THEN DecodeHttp(y.payload) ELSE <<>>
  <2>1. TcpMessages(y) = dns \o http /\ IsSequence(dns) /\ IsSequence(http)
    <3>1. TcpMessages(y) = dns \o http
      BY DEF TcpMessages
    <3>2. IsSequence(dns)
      BY MessagesAreFew, NoneOrOne, Zenon
    <3>3. IsSequence(http)
      BY MessagesAreFew, NoneOrOne
    <3> QED BY <3>1, <3>2, <3>3
  <2> HIDE DEF dns, http
  <2>2. IsSequence(TcpMessages(y))
    BY <2>1, Joined
  <2>3. IsSequence(UdpMessages(y))
    BY MessagesAreFew, NoneOrOne DEF UdpMessages
  <2> QED BY <2>2, <2>3
<1>2. ASSUME NEW y PROVE IsSequence(Ported(y, <<Connection(y)>> \o TcpMessages(y)))
  BY <1>1, NoneOrOne, Joined, EachIs DEF Ported
<1>3. ASSUME NEW y PROVE IsSequence(Ported(y, UdpMessages(y)))
  BY <1>1, EachIs DEF Ported
<1>4. \E y : SegmentEvents(x) \in {<<>>, Ported(y, UdpMessages(y)),
                                   Ported(y, <<Connection(y)>> \o TcpMessages(y))}
  BY DEF SegmentEvents
<1> QED BY <1>1, <1>2, <1>3, <1>4, NoneOrOne

LEMMA DnsEventKept ==
    ASSUME NEW b \in Seq(Octet), b # <<>>
    PROVE  Kept(ToSet(DecodeDns(Front(b))), ToSet(DecodeDns(b)), Last(b))
<1>1. CASE DecodeDns(Front(b)) = <<>>
  BY <1>1, NothingKept
<1>2. CASE DecodeDns(Front(b)) # <<>>
  <2>1. DecodeDns(b) = DecodeDns(Front(b))
    BY <1>2, DnsKept
  <2>2. \A e : Same(e, e)
    BY DEF Same
  <2> QED BY <2>1, <2>2, Zenon DEF Kept
<1> QED BY <1>1, <1>2

LEMMA HttpEventKept ==
    ASSUME NEW b \in Seq(Octet), b # <<>>
    PROVE  Kept(ToSet(DecodeHttp(Front(b))), ToSet(DecodeHttp(b)), Last(b))
<1> DEFINE f == Front(b)
<1>1. CASE DecodeHttp(f) = <<>>
  BY <1>1, NothingKept
<1>2. CASE DecodeHttp(f) # <<>> /\ Plain(Last(b))
  <2>1. PICK x, y, z :
              /\ DecodeHttp(f) = <<RequestOf(f, x, y, z)>>
              /\ DecodeHttp(b) = <<RequestOf(b, x, y, z)>>
              /\ WordAt(FirstLine(b), x) = WordAt(FirstLine(f), x)
              /\ WordAt(FirstLine(b), y) = WordAt(FirstLine(f), y)
    BY <1>2, HttpKept
  <2>2. Same(RequestOf(f, x, y, z), RequestOf(b, x, y, z))
    BY <2>1 DEF Same, RequestOf, Cuttable
  <2>3. /\ ToSet(DecodeHttp(f)) = {RequestOf(f, x, y, z)}
        /\ ToSet(DecodeHttp(b)) = {RequestOf(b, x, y, z)}
    BY <2>1, NoneOrOne
  <2> QED BY <2>2, <2>3, Zenon DEF Kept
<1>3. CASE DecodeHttp(f) # <<>> /\ ~Plain(Last(b))
  <2>1. PICK x, y, z : DecodeHttp(f) = <<RequestOf(f, x, y, z)>>
    BY <1>3, RequestIs, Zenon
  <2>2. ToSet(DecodeHttp(f)) = {RequestOf(f, x, y, z)}
    BY <2>1, NoneOrOne
  <2>3. Freed(RequestOf(f, x, y, z), Last(b))
    BY <1>3 DEF Freed, RequestOf
  <2> QED BY <2>2, <2>3, Zenon DEF Kept
<1> QED BY <1>1, <1>2, <1>3

\* The messages of a segment that lacks its last octet.
LEMMA TcpMessagesKept ==
    ASSUME NEW b \in Seq(Octet), b # <<>>, NEW cut, NEW tcp,
           cut.src_port = tcp.src_port, cut.dst_port = tcp.dst_port,
           tcp.payload = b, cut.payload = Front(b)
    PROVE  Kept(ToSet(TcpMessages(cut)), ToSet(TcpMessages(tcp)), Last(b))
<1> DEFINE Dns(x) == IF 53 \in {tcp.src_port, tcp.dst_port} THEN DecodeDns(x) ELSE <<>>
           Http(x) == IF tcp.dst_port \in {80, 8080} THEN DecodeHttp(x) ELSE <<>>
<1>1. /\ TcpMessages(tcp) = Dns(b) \o Http(b)
      /\ TcpMessages(cut) = Dns(Front(b)) \o Http(Front(b))
  BY DEF TcpMessages
<1>2. /\ Kept(ToSet(Dns(Front(b))), ToSet(Dns(b)), Last(b))
      /\ Kept(ToSet(Http(Front(b))), ToSet(Http(b)), Last(b))
  BY DnsEventKept, HttpEventKept, NothingKept
<1>3. \A x : IsSequence(Dns(x)) /\ IsSequence(Http(x))
  <2> TAKE x
  <2>1. IsSequence(Dns(x))
    BY MessagesAreFew, NoneOrOne, Zenon
  <2>2. IsSequence(Http(x))
    BY MessagesAreFew, NoneOrOne
  <2> QED BY <2>1, <2>2
<1> HIDE DEF Dns, Http
<1> QED BY <1>1, <1>2, <1>3, KeptJoined

LEMMA UdpMessagesKept ==
    ASSUME NEW b \in Seq(Octet), b # <<>>, NEW cut, NEW udp,
           cut.src_port = udp.src_port, cut.dst_port = udp.dst_port,
           udp.payload = b, cut.payload = Front(b)
    PROVE  Kept(ToSet(UdpMessages(cut)), ToSet(UdpMessages(udp)), Last(b))
<1>1. CASE 53 \in {udp.src_port, udp.dst_port}
  <2>1. UdpMessages(udp) = DecodeDns(b) /\ UdpMessages(cut) = DecodeDns(Front(b))
    BY <1>1, Zenon DEF UdpMessages
  <2> QED BY <2>1, DnsEventKept
<1>2. CASE ~(53 \in {udp.src_port, udp.dst_port})
  <2>1. UdpMessages(udp) = <<>> /\ UdpMessages(cut) = <<>>
    BY <1>2, Zenon DEF UdpMessages
  <2> QED BY <2>1, NothingKept
<1> QED BY <1>1, <1>2

\* The events of a segment that lacks its last octet.
LEMMA SegmentKept ==
    ASSUME NEW b \in Seq(Octet), b # <<>>, NEW cut, NEW ip, cut.proto = ip.proto,
           ip.payload = b, cut.payload = Front(b)
    PROVE  Kept(ToSet(SegmentEvents(cut)), ToSet(SegmentEvents(ip)), Last(b))
<1> DEFINE f == Front(b)
<1>1. CASE ip.proto = 6 /\ DecodeTcp(f) # <<>>
  <2> DEFINE tcp == DecodeTcp(b)[1]
             less == DecodeTcp(f)[1]
             more(x) == <<Connection(x)>> \o TcpMessages(x)
             ports == [src_port |-> tcp.src_port, dst_port |-> tcp.dst_port]
  <2>1. /\ DecodeTcp(b) # <<>>
        /\ less.src_port = tcp.src_port /\ less.dst_port = tcp.dst_port
        /\ less.seq = tcp.seq /\ less.ack = tcp.ack /\ less.flags = tcp.flags
        /\ tcp.payload \in Seq(Octet) /\ tcp.payload # <<>>
        /\ less.payload = Front(tcp.payload) /\ Last(tcp.payload) = Last(b)
    BY <1>1, TcpKept, Zenon
  <2>2. /\ SegmentEvents(ip) = Ported(tcp, more(tcp))
        /\ SegmentEvents(cut) = Ported(less, more(less))
    <3>1. ASSUME NEW i, i.proto = 6, DecodeTcp(i.payload) # <<>>
          PROVE  SegmentEvents(i) =
                    Ported(DecodeTcp(i.payload)[1], more(DecodeTcp(i.payload)[1]))
      BY <3>1 DEF SegmentEvents
    <3> HIDE DEF more
    <3> QED BY <1>1, <2>1, <3>1
  <2> HIDE DEF tcp, less
  <2>3. /\ SegmentEvents(ip) = EachWith(ports, more(tcp))
        /\ SegmentEvents(cut) = EachWith(ports, more(less))
    BY <2>1, <2>2 DEF Ported
  <2>4. /\ Kept(ToSet(TcpMessages(less)), ToSet(TcpMessages(tcp)), Last(b))
        /\ IsSequence(TcpMessages(less)) /\ IsSequence(TcpMessages(tcp))
    BY <2>1, TcpMessagesKept, EventsAreSequences
  <2>5. Connection(less) = Connection(tcp)
    BY <2>1, Zenon DEF Connection
  <2>6. Kept(ToSet(<<Connection(less)>>), ToSet(<<Connection(tcp)>>), Last(b))
    <3>1. Same(Connection(tcp), Connection(tcp))
      BY DEF Same
    <3> QED BY <2>5, <3>1, NoneOrOne DEF Kept
  <2>7. Kept(ToSet(more(less)), ToSet(more(tcp)), Last(b))
    BY <2>4, <2>6, NoneOrOne, KeptJoined
  <2>8. "name" \notin DOMAIN ports
    OBVIOUS
  <2> HIDE DEF more, ports
  <2> QED BY <2>3, <2>7, <2>8, KeptEach
<1>2. CASE ip.proto = 17 /\ DecodeUdp(f) # <<>>
  <2> DEFINE udp == DecodeUdp(b)[1]
             less == DecodeUdp(f)[1]
             ports == [src_port |-> udp.src_port, dst_port |-> udp.dst_port]
  <2>1. /\ DecodeUdp(b) # <<>>
        /\ less.src_port = udp.src_port /\ less.dst_port = udp.dst_port
        /\ udp.payload \in Seq(Octet) /\ udp.payload # <<>>
        /\ less.payload = Front(udp.payload) /\ Last(udp.payload) = Last(b)
    BY <1>2, UdpKept, Zenon
  <2>2. /\ SegmentEvents(ip) = Ported(udp, UdpMessages(udp))
        /\ SegmentEvents(cut) = Ported(less, UdpMessages(less))
    <3>1. ~(ip.proto = 6)
      BY <1>2
    <3> QED BY <1>2, <2>1, <3>1, Zenon DEF SegmentEvents
  <2> HIDE DEF udp, less
  <2>3. /\ SegmentEvents(ip) = EachWith(ports, UdpMessages(udp))
        /\ SegmentEvents(cut) = EachWith(ports, UdpMessages(less))
    BY <2>1, <2>2 DEF Ported
  <2>4. Kept(ToSet(UdpMessages(less)), ToSet(UdpMessages(udp)), Last(b))
    BY <2>1, UdpMessagesKept
  <2>5. "name" \notin DOMAIN ports
    OBVIOUS
  <2> HIDE DEF ports
  <2> QED BY <2>3, <2>4, <2>5, KeptEach
<1>3. CASE /\ ~(ip.proto = 6 /\ DecodeTcp(f) # <<>>)
           /\ ~(ip.proto = 17 /\ DecodeUdp(f) # <<>>)
  <2>1. SegmentEvents(cut) = <<>>
    BY <1>3, Zenon DEF SegmentEvents
  <2> QED BY <2>1, NothingKept
<1> QED BY <1>1, <1>2, <1>3

\* The events of a frame that lacks its last octet.
LEMMA EventsKept ==
    ASSUME NEW b \in Seq(Octet), b # <<>>
    PROVE  Kept(ToSet(Events(Front(b), <<>>)), ToSet(Events(b, <<>>)), Last(b))
<1> DEFINE f == Front(b)
<1>1. \A x : Events(x, <<>>) = IF IpOf(x) = <<>> THEN <<>> ELSE PacketEvents(IpOf(x)[1])
  BY Zenon DEF Events
<1>2. CASE IpOf(f) = <<>>
  <2>1. Events(f, <<>>) = <<>>
    BY <1>1, <1>2, Zenon
  <2> QED BY <2>1, NothingKept
<1>3. CASE IpOf(f) # <<>>
  <2> DEFINE ip == IpOf(b)[1]
             cut == IpOf(f)[1]
             packet(x) == [name |-> "packet", length |-> Len(x.payload), proto |-> x.proto]
             ends(x) == [src_ip |-> x.src_ip, dst_ip |-> x.dst_ip]
             inner(x) == <<packet(x)>> \o SegmentEvents(x)
  <2>1. /\ IpOf(b) # <<>>
        /\ cut.proto = ip.proto /\ cut.src_ip = ip.src_ip /\ cut.dst_ip = ip.dst_ip
        /\ ip.payload \in Seq(Octet) /\ ip.payload # <<>>
        /\ cut.payload = Front(ip.payload) /\ Last(ip.payload) = Last(b)
    BY <1>3, IpKept, Zenon
  <2>2. Events(f, <<>>) = PacketEvents(cut) /\ Events(b, <<>>) = PacketEvents(ip)
    BY <1>1, <1>3, <2>1, Zenon
  <2> HIDE DEF ip, cut
  <2>3. \A x : PacketEvents(x) = EachWith(ends(x), inner(x))
    BY Zenon DEF PacketEvents
  <2>4. ends(cut) = ends(ip) /\ "name" \notin DOMAIN ends(ip)
    BY <2>1
  <2>5. Same(packet(cut), packet(ip))
    BY <2>1 DEF Same, Cuttable
  <2> HIDE DEF packet, ends
  <2>6. Kept(ToSet(<<packet(cut)>>), ToSet(<<packet(ip)>>), Last(b))
    BY <2>5, NoneOrOne DEF Kept
  <2>7. Kept(ToSet(SegmentEvents(cut)), ToSet(SegmentEvents(ip)), Last(b))
    BY <2>1, SegmentKept
  <2>8. Kept(ToSet(inner(cut)), ToSet(inner(ip)), Last(b))
    BY <2>6, <2>7, NoneOrOne, EventsAreSequences, KeptJoined
  <2> HIDE DEF inner
  <2>9. Kept(ToSet(EachWith(ends(ip), inner(cut))), ToSet(EachWith(ends(ip), inner(ip))),
             Last(b))
    BY <2>4, <2>8, KeptEach
  <2> QED BY <2>2, <2>3, <2>4, <2>9
<1> QED BY <1>2, <1>3
-----------------------------------------------------------------------------
(* Frames cut short.                                                       *)

Captured == frame \in Seq(Octet) /\ decoded = Events(frame, <<>>)

\* What is decoded is what the frame, a sequence of octets, has by now.
LEMMA AlwaysCaptured == CaptureSpec => []Captured
<1>1. CaptureInit => Captured
  BY PacketsAssumption DEF CaptureInit, Captured
<1>2. ASSUME Captured, [CutOff]_pvars PROVE Captured'
  <2>1. CASE CutOff
    <3>1. /\ frame # <<>> /\ frame' = Front(frame)
          /\ decoded' = Events(Front(frame), <<>>)
      BY <2>1, Zenon DEF CutOff, Keep
    <3>2. Front(frame) \in Seq(Octet)
      BY <1>2, <3>1, FrontElements DEF Captured
    <3> QED BY <3>1, <3>2, Zenon DEF Captured
  <2>2. CASE UNCHANGED pvars
    BY <1>2, <2>2 DEF Captured, pvars
  <2> QED BY <1>2, <2>1, <2>2
<1> QED BY <1>1, <1>2, PTL DEF CaptureSpec

\* CutsOnlyLose, for frames of any length with any octets: no event comes of a frame
\* without its last octet that did not come of it with that octet, except a request
\* that an octet of no text had hidden.
THEOREM CutsAlwaysLose == CaptureSpec => CutsOnlyLose
<1> DEFINE before == {Essence(e) : e \in ToSet(decoded)}
           after == {Essence(e) : e \in ToSet(decoded')}
           Lose == \A e \in after \ before : e.name = "http_request" /\ ~Plain(Last(frame))
<1>1. ASSUME Captured, [CutOff]_pvars PROVE [Lose]_pvars
  <2>1. CASE CutOff
    <3>1. /\ frame # <<>> /\ frame \in Seq(Octet)
          /\ decoded = Events(frame, <<>>) /\ decoded' = Events(Front(frame), <<>>)
      BY <1>1, <2>1, Zenon DEF CutOff, Keep, Captured
    <3>2. Kept(ToSet(decoded'), ToSet(decoded), Last(frame))
      BY <3>1, EventsKept
    <3>3. ASSUME NEW d \in ToSet(decoded'), Essence(d) \notin before
          PROVE  Essence(d).name = "http_request" /\ ~Plain(Last(frame))
      <4>1. ~(\E e \in ToSet(decoded) : Same(d, e))
        BY <3>3, SameEssence
      <4>2. Freed(d, Last(frame))
        BY <3>2, <3>3, <4>1 DEF Kept
      <4>3. Essence(d).name = d["name"]
        BY <4>2 DEF Essence, Freed, Restrict
      <4> QED BY <4>2, <4>3 DEF Freed
    <3> QED BY <3>3
  <2>2. CASE UNCHANGED pvars
    BY <2>2
  <2> QED BY <1>1, <2>1, <2>2
<1> QED BY <1>1, AlwaysCaptured, PTL DEF CaptureSpec, CutsOnlyLose

-----------------------------------------------------------------------------
(* Filters.                                                                *)

\* What Matches finds for x, with h for the parts of x.
Holds(x, h, info) ==
    CASE x.kind = "not" -> ~h[x.arg]
      [] x.kind = "and" -> h[x.left] /\ h[x.right]
      [] x.kind = "or"  -> h[x.left] \/ h[x.right]
      [] OTHER          -> Fits(x, info)

LEMMA HoldsByParts ==
    ASSUME NEW x \in Expressions, NEW f, NEW g, NEW info,
           \A y \in Expressions : Height[y] < Height[x] => f[y] = g[y]
    PROVE  Holds(x, f, info) = Holds(x, g, info)
<1>1. CASE x.kind = "not"
  <2>1. Below(x.arg, x)
    BY <1>1, ExpressionsAssumption
  <2>2. f[x.arg] = g[x.arg]
    BY <2>1 DEF Below
  <2> QED BY <1>1, <2>2, Zenon DEF Holds
<1>2. CASE x.kind \in {"and", "or"}
  <2>1. Below(x.left, x) /\ Below(x.right, x)
    BY <1>2, ExpressionsAssumption
  <2>2. f[x.left] = g[x.left] /\ f[x.right] = g[x.right]
    BY <2>1 DEF Below
  <2> QED BY <1>2, <2>2 DEF Holds
<1>3. CASE x.kind \notin {"not", "and", "or"}
  BY <1>3 DEF Holds
<1> QED BY <1>1, <1>2, <1>3

\* f holds of the expressions lower than k what Matches should.
Good(f, k, info) ==
    /\ f = [x \in Expressions |-> f[x]]
    /\ \A x \in Expressions : Height[x] < k => f[x] = Holds(x, f, info)

LEMMA GoodExists ==
    ASSUME NEW info, NEW k \in Nat
    PROVE  \E f : Good(f, k, info)
<1> DEFINE Done == {n \in Nat : \E f : Good(f, n, info)}
<1>0. \A x \in Expressions : Height[x] \in Nat
  BY ExpressionsAssumption
<1>1. 0 \in Done
  <2> DEFINE f == [x \in Expressions |-> 0]
  <2>1. f = [x \in Expressions |-> f[x]]
    OBVIOUS
  <2> HIDE DEF f
  <2>4. \A n \in Nat : ~(n < 0)
    OBVIOUS
  <2>2. \A x \in Expressions : ~(Height[x] < 0)
    BY <1>0, <2>4, Zenon
  <2>3. Good(f, 0, info)
    BY <2>1, <2>2, Zenon DEF Good
  <2> QED BY <2>3
<1>2. ASSUME NEW n \in Nat, NEW f, Good(f, n, info) PROVE \E g : Good(g, n + 1, info)
  <2> DEFINE g == [x \in Expressions |-> IF Height[x] < n THEN f[x] ELSE Holds(x, f, info)]
  <2>1. /\ g = [x \in Expressions |-> g[x]]
        /\ \A x \in Expressions : Height[x] < n => g[x] = f[x]
        /\ \A x \in Expressions : ~(Height[x] < n) => g[x] = Holds(x, f, info)
    OBVIOUS
  <2> HIDE DEF g
  <2>2. ASSUME NEW x \in Expressions, Height[x] < n + 1
        PROVE  g[x] = Holds(x, g, info)
    <3>1. g[x] = Holds(x, f, info)
      BY <1>2, <2>1 DEF Good
    <3>2. \A y \in Expressions : Height[y] < Height[x] => f[y] = g[y]
      BY <1>0, <2>1, <2>2
    <3>3. Holds(x, f, info) = Holds(x, g, info)
      BY <3>2, HoldsByParts
    <3> QED BY <3>1, <3>3
  <2> QED BY <2>1, <2>2 DEF Good
<1>3. \A n \in Done : n + 1 \in Done
  BY <1>2
<1>4. Done \in SUBSET Nat
  OBVIOUS
<1> HIDE DEF Done
<1>5. k \in Done
  BY <1>1, <1>3, <1>4, SetInduction
<1> QED BY <1>5 DEF Done

LEMMA GoodUnique ==
    ASSUME NEW info, NEW k \in Nat, NEW m \in Nat, NEW f, Good(f, k, info),
           NEW g, Good(g, m, info), NEW y \in Expressions, Height[y] < k, Height[y] < m
    PROVE  f[y] = g[y]
<1> DEFINE Done == {n \in Nat : \A x \in Expressions :
                      Height[x] < n /\ Height[x] < k /\ Height[x] < m => f[x] = g[x]}
<1>0. \A x \in Expressions : Height[x] \in Nat
  BY ExpressionsAssumption
<1>1. 0 \in Done
  BY <1>0
<1>2. ASSUME NEW n \in Done PROVE n + 1 \in Done
  <2> SUFFICES ASSUME NEW x \in Expressions, Height[x] < n + 1, Height[x] < k, Height[x] < m
               PROVE  f[x] = g[x]
    OBVIOUS
  <2>1. \A z \in Expressions : Height[z] < Height[x] => f[z] = g[z]
    BY <1>0, <1>2
  <2>2. f[x] = Holds(x, f, info) /\ g[x] = Holds(x, g, info)
    BY DEF Good
  <2> QED BY <2>1, <2>2, HoldsByParts
<1>3. Done \in SUBSET Nat
  OBVIOUS
<1> HIDE DEF Done
<1>4. Done = Nat
  BY <1>1, <1>2, <1>3, SetInduction
<1>5. Height[y] + 1 \in Done /\ Height[y] < Height[y] + 1
  BY <1>0, <1>4
<1> QED BY <1>5 DEF Done

\* Matches finds for an expression what its parts make of it.
LEMMA MatchesHolds ==
    ASSUME NEW info
    PROVE  \E f : \A x \in Expressions :
              Matches(x, info) = f[x] /\ f[x] = Holds(x, f, info)
<1> DEFINE Body(h) == [x \in Expressions |-> Holds(x, h, info)]
           holds == CHOOSE h : h = Body(h)
           level(n) == CHOOSE f : Good(f, n, info)
           f == [x \in Expressions |-> level(Height[x] + 1)[x]]
<1>0. \A x \in Expressions : Height[x] \in Nat
  BY ExpressionsAssumption
<1>1. \A n \in Nat : Good(level(n), n, info)
  BY GoodExists
<1>2. f = [x \in Expressions |-> f[x]] /\ \A x \in Expressions : f[x] = level(Height[x] + 1)[x]
  OBVIOUS
<1> HIDE DEF level, f
<1>3. ASSUME NEW x \in Expressions PROVE f[x] = Holds(x, f, info)
  <2> DEFINE n == Height[x] + 1
             g == level(n)
  <2>1. n \in Nat /\ Height[x] < n /\ Good(g, n, info)
    BY <1>0, <1>1
  <2>2. ASSUME NEW y \in Expressions, Height[y] < Height[x] PROVE g[y] = f[y]
    <3> DEFINE m == Height[y] + 1
    <3>1. m \in Nat /\ Height[y] < m /\ Good(level(m), m, info) /\ Height[y] < n
      BY <1>0, <1>1, <2>2
    <3> HIDE DEF g, n
    <3>2. level(m)[y] = g[y]
      <4> HIDE DEF m
      <4> QED BY <2>1, <3>1, GoodUnique
    <3> QED BY <1>2, <3>2
  <2> HIDE DEF g, n
  <2>3. g[x] = Holds(x, g, info)
    BY <2>1 DEF Good
  <2>4. Holds(x, g, info) = Holds(x, f, info)
    BY <2>2, HoldsByParts
  <2>5. f[x] = g[x]
    BY <1>2 DEF g, n
  <2> QED BY <2>3, <2>4, <2>5
<1>4. f = Body(f)
  BY <1>2, <1>3
<1>5. holds = Body(holds)
  <2> HIDE DEF Body
  <2> QED BY <1>4
<1>6. \A x : Matches(x, info) = holds[x]
  BY DEF Matches, Holds
<1> HIDE DEF holds
<1>7. \A x \in Expressions : holds[x] = Holds(x, holds, info)
  BY <1>5
<1> QED BY <1>6, <1>7

\* The filters that frames are filtered by.
LEMMA ProbesMatch ==
    ASSUME NEW info, NEW p \in Probes
    PROVE  /\ Matches(Port(p), info) <=> p \in info.src_port \cup info.dst_port
           /\ Matches(Not(Port(p)), info) <=> ~Matches(Port(p), info)
           /\ Matches(And(Proto("tcp"), Port(p)), info) <=>
                 info.proto = 6 /\ Matches(Port(p), info)
<1>1. PICK f : \A x \in Expressions : Matches(x, info) = f[x] /\ f[x] = Holds(x, f, info)
  BY MatchesHolds
<1>2. /\ Proto("tcp") \in Expressions /\ Port(p) \in Expressions
      /\ Not(Port(p)) \in Expressions /\ And(Proto("tcp"), Port(p)) \in Expressions
  BY ProbesAssumption
<1>3. /\ Matches(Port(p), info) = Holds(Port(p), f, info)
      /\ Matches(Proto("tcp"), info) = Holds(Proto("tcp"), f, info)
      /\ Matches(Not(Port(p)), info) = Holds(Not(Port(p)), f, info)
      /\ Matches(And(Proto("tcp"), Port(p)), info)
            = Holds(And(Proto("tcp"), Port(p)), f, info)
      /\ f[Port(p)] = Matches(Port(p), info) /\ f[Proto("tcp")] = Matches(Proto("tcp"), info)
  BY <1>1, <1>2, Zenon
<1>4. Holds(Port(p), f, info) <=> p \in info.src_port \cup info.dst_port
  BY DEF Holds, Port, Fits
<1>5. Holds(Proto("tcp"), f, info) <=> info.proto = 6
  BY DEF Holds, Proto, Fits, ProtoNumber
<1>6. Holds(Not(Port(p)), f, info) <=> ~f[Port(p)]
  BY DEF Holds, Not
<1>7. Holds(And(Proto("tcp"), Port(p)), f, info) <=> f[Proto("tcp")] /\ f[Port(p)]
  BY DEF Holds, And
<1> QED BY <1>3, <1>4, <1>5, <1>6, <1>7, Zenon

\* A header that is decoded is one, and the filter sees its ports.
LEMMA HeaderSeen ==
    ASSUME NEW ip
    PROVE  /\ DecodeTcp(ip.payload) # <<>> /\ ip.proto = 6 =>
                 /\ InfoOf(ip).src_port = {DecodeTcp(ip.payload)[1].src_port}
                 /\ InfoOf(ip).dst_port = {DecodeTcp(ip.payload)[1].dst_port}
           /\ DecodeUdp(ip.payload) # <<>> /\ ip.proto = 17 =>
                 /\ InfoOf(ip).src_port = {DecodeUdp(ip.payload)[1].src_port}
                 /\ InfoOf(ip).dst_port = {DecodeUdp(ip.payload)[1].dst_port}
           /\ DecodeTcp(ip.payload) = <<>> /\ ip.proto = 6 =>
                 InfoOf(ip).src_port = {} /\ InfoOf(ip).dst_port = {}
<1>1. \A b : (\E x : DecodeTcp(b) \in {<<>>, <<x>>}) /\ (\E x : DecodeUdp(b) \in {<<>>, <<x>>})
  BY Zenon DEF DecodeTcp, DecodeUdp
<1>2. ASSUME NEW l, \E x : l = <<x>>
      PROVE  {l[i].src_port : i \in DOMAIN l} = {l[1].src_port}
             /\ {l[i].dst_port : i \in DOMAIN l} = {l[1].dst_port}
  <2>1. DOMAIN l = {1}
    BY <1>2
  <2> QED BY <2>1
<1>3. /\ InfoOf(ip).src_port = {Layer4(ip)[i].src_port : i \in DOMAIN Layer4(ip)}
      /\ InfoOf(ip).dst_port = {Layer4(ip)[i].dst_port : i \in DOMAIN Layer4(ip)}
  BY DEF InfoOf
<1>4. ip.proto = 6 => Layer4(ip) = DecodeTcp(ip.payload)
  BY DEF Layer4
<1>5. ip.proto = 17 => Layer4(ip) = DecodeUdp(ip.payload)
  BY DEF Layer4
<1>6. DecodeTcp(ip.payload) # <<>> /\ ip.proto = 6 => \E x : Layer4(ip) = <<x>>
  BY <1>1, <1>4, Zenon
<1>7. DecodeUdp(ip.payload) # <<>> /\ ip.proto = 17 => \E x : Layer4(ip) = <<x>>
  BY <1>1, <1>5, Zenon
<1> QED BY <1>2, <1>3, <1>4, <1>5, <1>6, <1>7

\* e is d with the ports of l.
Carries(e, l, d) ==
    /\ {"src_port", "dst_port"} \subseteq DOMAIN e
    /\ e["src_port"] = l.src_port /\ e["dst_port"] = l.dst_port
    /\ "name" \in DOMAIN d => "name" \in DOMAIN e /\ e["name"] = d["name"]

LEMMA PortedCarries ==
    ASSUME NEW l, NEW m, NEW e \in ToSet(Ported(l, m))
    PROVE  \E d \in ToSet(m) : Carries(e, l, d)
<1>1. PICK d \in ToSet(m) : e = Beside([src_port |-> l.src_port, dst_port |-> l.dst_port], d)
  BY EachIs DEF Ported
<1>2. Carries(e, l, d)
  BY <1>1 DEF Beside, Carries
<1> QED BY <1>2

\* Of a segment come events with its ports; a connection comes of every TCP segment
\* and of no other.
LEMMA SegmentTells ==
    ASSUME NEW ip
    PROVE  /\ \A e \in ToSet(SegmentEvents(ip)) :
                 /\ {"src_port", "dst_port", "name"} \subseteq DOMAIN e
                 /\ InfoOf(ip).src_port = {e["src_port"]}
                 /\ InfoOf(ip).dst_port = {e["dst_port"]}
                 /\ e["name"] = "tcp_connection" => ip.proto = 6
           /\ ip.proto = 6 /\ InfoOf(ip).src_port \cup InfoOf(ip).dst_port # {} =>
                 \E e \in ToSet(SegmentEvents(ip)) : e["name"] = "tcp_connection"
<1>1. \A l, m : \A e \in ToSet(Ported(l, m)) : \E d \in ToSet(m) : Carries(e, l, d)
  BY PortedCarries
<1>2. \A b : \A d \in ToSet(DecodeDns(b)) :
         "name" \in DOMAIN d /\ d["name"] \in {"dns_query", "dns_response"}
  <2> TAKE b
  <2>1. CASE DecodeDns(b) = <<>>
    BY <2>1, NoneOrOne
  <2>2. CASE DecodeDns(b) # <<>>
    <3> DEFINE r == [name  |-> IF U8(b, 2) >= 128 THEN "dns_response" ELSE "dns_query",
                     query |-> Labels(b, 12)[1].labels,
                     qtype |-> U16(b, Labels(b, 12)[1].offset)]
    <3>1. DecodeDns(b) = <<r>>
      BY <2>2, Zenon DEF DecodeDns
    <3>2. "name" \in DOMAIN r /\ r["name"] \in {"dns_query", "dns_response"}
      OBVIOUS
    <3> HIDE DEF r
    <3> QED BY <3>1, <3>2, NoneOrOne
  <2> QED BY <2>1, <2>2
<1>3. \A b : \A d \in ToSet(DecodeHttp(b)) : "name" \in DOMAIN d
  <2> TAKE b
  <2>1. CASE DecodeHttp(b) = <<>>
    BY <2>1, NoneOrOne
  <2>2. CASE DecodeHttp(b) # <<>>
    <3>1. PICK x, y, z : DecodeHttp(b) = <<RequestOf(b, x, y, z)>>
      BY <2>2, RequestIs, Zenon
    <3>2. "name" \in DOMAIN RequestOf(b, x, y, z)
      BY DEF RequestOf
    <3> QED BY <3>1, <3>2, NoneOrOne
  <2> QED BY <2>1, <2>2
<1>4. CASE ip.proto = 6 /\ DecodeTcp(ip.payload) # <<>>
  <2> DEFINE tcp == DecodeTcp(ip.payload)[1]
             more == <<Connection(tcp)>> \o TcpMessages(tcp)
  <2>1. SegmentEvents(ip) = Ported(tcp, more)
    BY <1>4 DEF SegmentEvents
  <2>2. InfoOf(ip).src_port = {tcp.src_port} /\ InfoOf(ip).dst_port = {tcp.dst_port}
    BY <1>4, HeaderSeen
  <2> HIDE DEF tcp
  <2>3. ToSet(more) = {Connection(tcp)} \cup ToSet(TcpMessages(tcp))
    BY NoneOrOne, EventsAreSequences, Joined
  <2>4. /\ "name" \in DOMAIN Connection(tcp)
        /\ Connection(tcp)["name"] = "tcp_connection"
    BY DEF Connection
  <2>5. \A d \in ToSet(TcpMessages(tcp)) : "name" \in DOMAIN d
    <3>1. ToSet(TcpMessages(tcp))
             \subseteq ToSet(DecodeDns(tcp.payload)) \cup ToSet(DecodeHttp(tcp.payload))
      BY MessagesAreFew, NoneOrOne, Joined DEF TcpMessages
    <3> QED BY <1>2, <1>3, <3>1
  <2> HIDE DEF more
  <2>6. \A d \in ToSet(more) : "name" \in DOMAIN d
    BY <2>3, <2>4, <2>5
  <2>7. \E e \in ToSet(SegmentEvents(ip)) : e["name"] = "tcp_connection"
    <3> DEFINE ports == [src_port |-> tcp.src_port, dst_port |-> tcp.dst_port]
               e == Beside(ports, Connection(tcp))
    <3>1. ToSet(SegmentEvents(ip)) = {Beside(ports, d) : d \in ToSet(more)}
      BY <2>1, EachIs DEF Ported
    <3>2. e \in ToSet(SegmentEvents(ip))
      BY <2>3, <3>1
    <3>3. "name" \notin DOMAIN ports
      OBVIOUS
    <3>4. e["name"] = "tcp_connection"
      <4> HIDE DEF ports
      <4> QED BY <2>4, <3>3 DEF Beside
    <3> QED BY <3>2, <3>4
  <2>8. ASSUME NEW e \in ToSet(SegmentEvents(ip))
        PROVE  /\ {"src_port", "dst_port", "name"} \subseteq DOMAIN e
               /\ e["src_port"] = tcp.src_port /\ e["dst_port"] = tcp.dst_port
    <3>1. PICK d \in ToSet(more) : Carries(e, tcp, d)
      BY <1>1, <2>1
    <3> QED BY <2>6, <3>1 DEF Carries
  <2> QED BY <1>4, <2>2, <2>7, <2>8
<1>5. CASE ip.proto = 17 /\ DecodeUdp(ip.payload) # <<>>
  <2> DEFINE udp == DecodeUdp(ip.payload)[1]
  <2>1. SegmentEvents(ip) = Ported(udp, UdpMessages(udp))
    BY <1>5 DEF SegmentEvents
  <2>2. InfoOf(ip).src_port = {udp.src_port} /\ InfoOf(ip).dst_port = {udp.dst_port}
    BY <1>5, HeaderSeen
  <2> HIDE DEF udp
  <2>3. \A d \in ToSet(UdpMessages(udp)) :
           "name" \in DOMAIN d /\ d["name"] # "tcp_connection"
    <3>1. ToSet(UdpMessages(udp)) \subseteq ToSet(DecodeDns(udp.payload))
      BY NoneOrOne DEF UdpMessages
    <3> QED BY <1>2, <3>1
  <2>4. ASSUME NEW e \in ToSet(SegmentEvents(ip))
        PROVE  /\ {"src_port", "dst_port", "name"} \subseteq DOMAIN e
               /\ e["src_port"] = udp.src_port /\ e["dst_port"] = udp.dst_port
               /\ e["name"] # "tcp_connection"
    <3>1. PICK d \in ToSet(UdpMessages(udp)) : Carries(e, udp, d)
      BY <1>1, <2>1
    <3> QED BY <2>3, <3>1 DEF Carries
  <2> QED BY <1>5, <2>2, <2>4
<1>6. CASE /\ ~(ip.proto = 6 /\ DecodeTcp(ip.payload) # <<>>)
           /\ ~(ip.proto = 17 /\ DecodeUdp(ip.payload) # <<>>)
  <2>1. SegmentEvents(ip) = <<>>
    BY <1>6, Zenon DEF SegmentEvents
  <2>2. ip.proto = 6 => InfoOf(ip).src_port = {} /\ InfoOf(ip).dst_port = {}
    BY <1>6, HeaderSeen
  <2> QED BY <2>1, <2>2, NoneOrOne
<1> QED BY <1>4, <1>5, <1>6

\* The events of a packet: the first has no ports, and is no connection.
LEMMA PacketTells ==
    ASSUME NEW ip
    PROVE  /\ PacketEvents(ip) # <<>>
           /\ \A e \in ToSet(PacketEvents(ip)) :
                 "src_port" \in DOMAIN e \/ e["name"] = "tcp_connection" =>
                    /\ {"src_port", "dst_port", "name"} \subseteq DOMAIN e
                    /\ InfoOf(ip).src_port = {e["src_port"]}
                    /\ InfoOf(ip).dst_port = {e["dst_port"]}
                    /\ e["name"] = "tcp_connection" => ip.proto = 6
           /\ ip.proto = 6 /\ InfoOf(ip).src_port \cup InfoOf(ip).dst_port # {} =>
                 \E e \in ToSet(PacketEvents(ip)) : e["name"] = "tcp_connection"
<1> DEFINE packet == [name |-> "packet", length |-> Len(ip.payload), proto |-> ip.proto]
           ends == [src_ip |-> ip.src_ip, dst_ip |-> ip.dst_ip]
           inner == <<packet>> \o SegmentEvents(ip)
<1>1. PacketEvents(ip) = EachWith(ends, inner)
  BY Zenon DEF PacketEvents
<1>2. ToSet(inner) = {packet} \cup ToSet(SegmentEvents(ip))
  BY NoneOrOne, EventsAreSequences, Joined
<1>3. /\ "src_port" \notin DOMAIN packet /\ "name" \in DOMAIN packet
      /\ packet["name"] = "packet"
      /\ {"src_port", "dst_port", "name"} \cap DOMAIN ends = {}
  OBVIOUS
<1> HIDE DEF packet, ends, inner
<1>4. ToSet(PacketEvents(ip)) = {Beside(ends, d) : d \in ToSet(inner)}
  BY <1>1, EachIs
<1>5. \A d : \A x \in {"src_port", "dst_port", "name"} :
         /\ x \in DOMAIN Beside(ends, d) <=> x \in DOMAIN d
         /\ x \in DOMAIN d => Beside(ends, d)[x] = d[x]
  BY <1>3 DEF Beside
<1>6. PacketEvents(ip) # <<>>
  BY <1>2, <1>4, NoneOrOne
<1>7. ASSUME NEW e \in ToSet(PacketEvents(ip)),
             "src_port" \in DOMAIN e \/ e["name"] = "tcp_connection"
      PROVE  /\ {"src_port", "dst_port", "name"} \subseteq DOMAIN e
             /\ InfoOf(ip).src_port = {e["src_port"]}
             /\ InfoOf(ip).dst_port = {e["dst_port"]}
             /\ e["name"] = "tcp_connection" => ip.proto = 6
  <2>1. PICK d \in ToSet(inner) : e = Beside(ends, d)
    BY <1>4
  <2>2. d # packet
    BY <1>3, <1>5, <1>7, <2>1
  <2>3. d \in ToSet(SegmentEvents(ip))
    BY <1>2, <2>1, <2>2
  <2>4. /\ {"src_port", "dst_port", "name"} \subseteq DOMAIN d
        /\ InfoOf(ip).src_port = {d["src_port"]}
        /\ InfoOf(ip).dst_port = {d["dst_port"]}
        /\ d["name"] = "tcp_connection" => ip.proto = 6
    BY <2>3, SegmentTells
  <2> QED BY <1>5, <2>1, <2>4
<1>8. ASSUME ip.proto = 6, InfoOf(ip).src_port \cup InfoOf(ip).dst_port # {}
      PROVE  \E e \in ToSet(PacketEvents(ip)) : e["name"] = "tcp_connection"
  <2>1. PICK d \in ToSet(SegmentEvents(ip)) : d["name"] = "tcp_connection"
    BY <1>8, SegmentTells
  <2>2. "name" \in DOMAIN d
    BY SegmentTells
  <2>3. Beside(ends, d) \in ToSet(PacketEvents(ip))
    BY <1>2, <1>4
  <2>4. Beside(ends, d)["name"] = "tcp_connection"
    BY <1>5, <2>1, <2>2
  <2> QED BY <2>3, <2>4
<1> QED BY <1>6, <1>7, <1>8

\* What a filter lets through of a frame.
LEMMA FilterSees ==
    ASSUME decoded = Events(frame, <<>>)
    PROVE  FilterSeesTheEvents
<1> DEFINE with(e) == Events(frame, <<e>>)
<1>1. SUFFICES ASSUME NEW p \in Probes
               PROVE  /\ with(Port(p)) \in {<<>>, decoded}
                      /\ with(Not(Port(p))) # <<>> <=>
                            decoded # <<>> /\ with(Port(p)) = <<>>
                      /\ with(And(Proto("tcp"), Port(p))) # <<>> <=>
                            \E e \in ToSet(decoded) :
                               e["name"] = "tcp_connection" /\ p \in {e["src_port"], e["dst_port"]}
                      /\ \A e \in ToSet(decoded) :
                            "src_port" \in DOMAIN e /\ p \in {e["src_port"], e["dst_port"]} =>
                               with(Port(p)) = decoded
  BY DEF FilterSeesTheEvents, EventsNamed
<1>2. CASE IpOf(frame) = <<>>
  <2>1. decoded = <<>> /\ \A e : with(e) = <<>>
    BY <1>2, Zenon DEF Events
  <2>2. ToSet(decoded) = {}
    BY <2>1, NoneOrOne
  <2> HIDE DEF with
  <2> QED BY <2>1, <2>2
<1>3. CASE IpOf(frame) # <<>>
  <2> DEFINE ip == IpOf(frame)[1]
             info == InfoOf(ip)
             ports == info.src_port \cup info.dst_port
  <2>1. /\ decoded = PacketEvents(ip)
        /\ \A e : with(e) = IF Matches(e, info) THEN decoded ELSE <<>>
    <3>1. <<>> = <<>>
      OBVIOUS
    <3>2. decoded = PacketEvents(ip)
      BY <1>3, Zenon DEF Events
    <3>3. ASSUME NEW e PROVE with(e) = IF Matches(e, info) THEN PacketEvents(ip) ELSE <<>>
      <4>1. <<e>> # <<>> /\ <<e>>[1] = e
        OBVIOUS
      <4>2. with(e) = IF IpOf(frame) = <<>> \/ (<<e>> # <<>> /\ ~Matches(<<e>>[1], info))
                      THEN <<>> ELSE PacketEvents(ip)
        BY Zenon DEF Events
      <4> QED BY <1>3, <4>1, <4>2
    <3> QED BY <3>2, <3>3
  <2> HIDE DEF with, ip
  <2>2. /\ info.proto = ip.proto
        /\ Matches(Port(p), info) <=> p \in ports
        /\ Matches(Not(Port(p)), info) <=> ~Matches(Port(p), info)
        /\ Matches(And(Proto("tcp"), Port(p)), info) <=>
              info.proto = 6 /\ Matches(Port(p), info)
    <3>1. info.proto = ip.proto
      BY DEF InfoOf
    <3> HIDE DEF info
    <3> QED BY <3>1, ProbesMatch
  <2>3. /\ decoded # <<>>
        /\ \A e \in ToSet(decoded) :
              "src_port" \in DOMAIN e \/ e["name"] = "tcp_connection" =>
                 /\ {"src_port", "dst_port", "name"} \subseteq DOMAIN e
                 /\ info.src_port = {e["src_port"]} /\ info.dst_port = {e["dst_port"]}
                 /\ e["name"] = "tcp_connection" => ip.proto = 6
        /\ ip.proto = 6 /\ ports # {} =>
              \E e \in ToSet(decoded) : e["name"] = "tcp_connection"
    BY <2>1, PacketTells
  <2> HIDE DEF info
  <2>4. \A e \in ToSet(decoded) :
           "src_port" \in DOMAIN e \/ e["name"] = "tcp_connection" =>
              ports = {e["src_port"], e["dst_port"]}
    BY <2>3
  <2> HIDE DEF ports
  <2>5. with(Port(p)) \in {<<>>, decoded}
    BY <2>1
  <2>6. with(Not(Port(p))) # <<>> <=> decoded # <<>> /\ with(Port(p)) = <<>>
    BY <2>1, <2>2, <2>3
  <2>7. with(And(Proto("tcp"), Port(p))) # <<>> <=>
           \E e \in ToSet(decoded) :
              e["name"] = "tcp_connection" /\ p \in {e["src_port"], e["dst_port"]}
    <3>1. with(And(Proto("tcp"), Port(p))) # <<>> <=> ip.proto = 6 /\ p \in ports
      BY <2>1, <2>2, <2>3
    <3>2. ASSUME ip.proto = 6, p \in ports
          PROVE  \E e \in ToSet(decoded) :
                    e["name"] = "tcp_connection" /\ p \in {e["src_port"], e["dst_port"]}
      <4>1. PICK e \in ToSet(decoded) : e["name"] = "tcp_connection"
        BY <2>3, <3>2
      <4>2. ports = {e["src_port"], e["dst_port"]}
        BY <2>4, <4>1
      <4> QED BY <3>2, <4>1, <4>2
    <3>3. ASSUME NEW e \in ToSet(decoded), e["name"] = "tcp_connection",
                 p \in {e["src_port"], e["dst_port"]}
          PROVE  ip.proto = 6 /\ p \in ports
      BY <2>3, <2>4, <3>3
    <3> QED BY <3>1, <3>2, <3>3
  <2>8. \A e \in ToSet(decoded) :
           "src_port" \in DOMAIN e /\ p \in {e["src_port"], e["dst_port"]} =>
              with(Port(p)) = decoded
    BY <2>1, <2>2, <2>4
  <2> QED BY <2>5, <2>6, <2>7, <2>8
<1> QED BY <1>2, <1>3

\* FilterSeesTheEvents, for every frame that a capture may hold and every port: the
\* ports that a filter is matched against are the ports of the events.
THEOREM FilterAlwaysSees == CaptureSpec => []FilterSeesTheEvents
<1>1. Captured => FilterSeesTheEvents
  BY FilterSees DEF Captured
<1> QED BY <1>1, AlwaysCaptured, PTL
=============================================================================
