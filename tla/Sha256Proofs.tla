---------------------------- MODULE Sha256Proofs ----------------------------
(***************************************************************************)
(* Proofs about Sha256Stream, for every size of bytes, blocks and length   *)
(* field the assumption on sizes allows: the buffer always has room, and   *)
(* the streaming interface implements Sha256Message.                       *)
(*                                                                         *)
(* The library states nothing about \div, % and ^ beyond their types, so   *)
(* the arithmetic the length field needs is proved first.                  *)
(***************************************************************************)
EXTENDS Sha256Stream, SequenceTheorems, FiniteSetTheorems, TLAPS

-----------------------------------------------------------------------------
(* Division, remainder and powers.                                         *)

\* Quotient and remainder by a positive number, as \div and % give them.
LEMMA DivMod ==
    ASSUME NEW a \in Int, NEW b \in Nat \ {0}
    PROVE  /\ a \div b \in Int /\ a % b \in 0..(b - 1)
           /\ a = b * (a \div b) + (a % b)
  OBVIOUS

\* A multiple of b that lies strictly between -b and b is zero.
LEMMA Lesser ==
    ASSUME NEW b \in Nat \ {0}, NEW d \in Int, NEW x \in Int, b * d = x, x < b, -b < x
    PROVE  d = 0
<1>1. CASE d >= 1
  <2>1. b * d >= b
    BY <1>1, Z3
  <2> QED BY <2>1
<1>2. CASE d <= -1
  <2>1. b * d <= -b
    BY <1>2, Z3
  <2> QED BY <2>1
<1> QED BY <1>1, <1>2

\* There is one quotient and one remainder.
LEMMA DivModUnique ==
    ASSUME NEW b \in Nat \ {0}, NEW q \in Int, NEW r \in 0..(b-1), NEW a \in Int, a = b * q + r
    PROVE  a \div b = q /\ a % b = r
<1>1. /\ a \div b \in Int /\ a % b \in 0..(b - 1)
      /\ a = b * (a \div b) + (a % b)
  BY DivMod
<1>2. b * (q - (a \div b)) = (a % b) - r
  <2> DEFINE s == a \div b   t == a % b
  <2>1. b * q + r = b * s + t
    BY <1>1
  <2>2. s \in Int /\ t \in Int
    BY <1>1
  <2> HIDE DEF s, t
  <2>3. b * (q - s) = b * q - b * s
    BY <2>2
  <2>4. b * (q - s) = t - r
    BY <2>1, <2>2, <2>3
  <2> QED BY <2>4 DEF s, t
<1>3. q - (a \div b) = 0
  BY <1>1, <1>2, Lesser
<1> QED BY <1>1, <1>2, <1>3

\* Taking the remainder first does not change the remainder of a sum
\* (bit_count wraps at each call of update).
LEMMA ModAdd ==
    ASSUME NEW a \in Int, NEW c \in Int, NEW b \in Nat \ {0}
    PROVE  ((a % b) + c) % b = (a + c) % b
<1> DEFINE q == a \div b  r == a % b  p == (r + c) \div b  s == (r + c) % b
<1>1. q \in Int /\ r \in Int /\ a = b * q + r
  BY DivMod
<1>2. p \in Int /\ s \in 0..(b-1) /\ r + c = b * p + s
  BY DivMod, <1>1
<1> HIDE DEF q, r, p, s
<1>3. a + c = b * (q + p) + s
  BY <1>1, <1>2
<1>4. (a + c) % b = s
  <2>1. q + p \in Int /\ a + c \in Int
    BY <1>1, <1>2
  <2> QED BY <1>2, <1>3, <2>1, DivModUnique
<1> QED BY <1>4 DEF s, r

\* A number less its remainder is a multiple.
LEMMA ModLess ==
    ASSUME NEW a \in Nat, NEW b \in Nat \ {0}
    PROVE  a % b <= a /\ (a - (a % b)) % b = 0
OBVIOUS

\* A power of two is a positive number: it counts the subsets of a set.
LEMMA PowerType == ASSUME NEW n \in Nat PROVE 2^n \in Nat \ {0}
<1>1. IsFiniteSet(1..n) /\ Cardinality(1..n) = n
  BY FS_Interval
<1>2. IsFiniteSet(SUBSET (1..n)) /\ Cardinality(SUBSET (1..n)) = 2^n
  BY <1>1, FS_SUBSET
<1>3. SUBSET (1..n) # {}
  OBVIOUS
<1> QED BY <1>2, <1>3, FS_CardinalityType, FS_EmptySet

\* The law of exponents: a subset of a disjoint union is a pair of subsets.
LEMMA PowerSum == ASSUME NEW a \in Nat, NEW b \in Nat PROVE 2^(a + b) = 2^a * 2^b
<1> DEFINE A == 1..a  B == (a + 1)..(a + b)  C == 1..(a + b)
           f == [S \in SUBSET C |-> <<S \cap A, S \cap B>>]
<1>1. /\ IsFiniteSet(A) /\ Cardinality(A) = a
      /\ IsFiniteSet(B) /\ Cardinality(B) = b
      /\ IsFiniteSet(C) /\ Cardinality(C) = a + b
  <2>1. IsFiniteSet(A) /\ Cardinality(A) = a
    BY FS_Interval
  <2>2. IsFiniteSet(C) /\ Cardinality(C) = a + b
    <3>1. a + b \in Nat
      OBVIOUS
    <3> QED BY <3>1, FS_Interval
  <2>3. a + 1 \in Int /\ a + b \in Int
    OBVIOUS
  <2>4. /\ IsFiniteSet(B)
        /\ Cardinality(B) = IF a + 1 > a + b THEN 0 ELSE (a + b) - (a + 1) + 1
    BY <2>3, FS_Interval
  <2>5. Cardinality(B) = b
    BY <2>4
  <2> QED BY <2>1, <2>2, <2>4, <2>5
<1>2. /\ IsFiniteSet(SUBSET A) /\ Cardinality(SUBSET A) = 2^a
      /\ IsFiniteSet(SUBSET B) /\ Cardinality(SUBSET B) = 2^b
      /\ IsFiniteSet(SUBSET C) /\ Cardinality(SUBSET C) = 2^(a + b)
  BY <1>1, FS_SUBSET
<1>3. C = A \cup B /\ A \cap B = {}
  OBVIOUS
<1> HIDE DEF A, B, C
<1>4. f \in Bijection(SUBSET C, (SUBSET A) \X (SUBSET B))
  <2>1. f \in [SUBSET C -> (SUBSET A) \X (SUBSET B)]
    OBVIOUS
  <2>2. ASSUME NEW S \in SUBSET C, NEW T \in SUBSET C, f[S] = f[T] PROVE S = T
    <3>1. S \cap A = T \cap A /\ S \cap B = T \cap B
      BY <2>2
    <3> QED BY <1>3, <3>1
  <2>3. ASSUME NEW u \in (SUBSET A) \X (SUBSET B)
        PROVE  \E S \in SUBSET C : f[S] = u
    <3>1. PICK x \in SUBSET A, y \in SUBSET B : u = <<x, y>>
      OBVIOUS
    <3>2. (x \cup y) \in SUBSET C /\ (x \cup y) \cap A = x /\ (x \cup y) \cap B = y
      BY <1>3
    <3> QED BY <3>1, <3>2
  <2> QED BY <2>1, <2>2, <2>3 DEF Bijection, Injection, Surjection, IsInjective
<1> HIDE DEF f
<1>5. Cardinality((SUBSET A) \X (SUBSET B)) = 2^(a + b)
  BY <1>2, <1>4, FS_Bijection, Zenon DEF ExistsBijection
<1>6. Cardinality((SUBSET A) \X (SUBSET B)) = 2^a * 2^b
  <2> HIDE DEF A, B
  <2>1. Cardinality((SUBSET A) \X (SUBSET B)) = Cardinality(SUBSET A) * Cardinality(SUBSET B)
    BY <1>2, FS_Product, Zenon
  <2> QED BY <1>2, <2>1, Zenon
<1> QED BY <1>5, <1>6

\* Wrapping a number at R*Q*P keeps the digit of size Q at place P
\* (the bytes of the wrapped bit_count are those of the true count).
LEMMA Digit ==
    ASSUME NEW c \in Nat, NEW P \in Nat \ {0}, NEW Q \in Nat \ {0}, NEW R \in Nat \ {0}
    PROVE  ((c % (R * Q * P)) \div P) % Q = (c \div P) % Q
<1> DEFINE M == R * Q * P  k == c \div M  r == c % M  u == r \div P  v == r % P
           d == u \div Q  e == u % Q
<1>1. M \in Nat \ {0}
  OBVIOUS
<1>2. k \in Int /\ r \in Int /\ c = M * k + r
  <2> HIDE DEF M
  <2> QED BY <1>1, DivMod
<1>3. u \in Int /\ v \in 0..(P - 1) /\ r = P * u + v
  BY <1>2, DivMod
<1>4. d \in Int /\ e \in 0..(Q - 1) /\ u = Q * d + e
  BY <1>3, DivMod
<1>5. c = P * (R * Q * k + u) + v
  <2> HIDE DEF k, r, u, v, d, e
  <2> QED BY <1>2, <1>3
<1>6. R * Q * k + u = Q * (R * k + d) + e
  <2> HIDE DEF k, r, u, v, d, e
  <2> QED BY <1>2, <1>3, <1>4
<1> HIDE DEF k, r, u, v, d, e
<1>7. c \div P = R * Q * k + u
  <2> DEFINE q == R * Q * k + u
  <2>1. q \in Int
    BY <1>2, <1>3
  <2>2. c = P * q + v
    BY <1>5
  <2> HIDE DEF q
  <2>3. c \div P = q
    BY <1>3, <2>1, <2>2, DivModUnique
  <2> QED BY <2>3 DEF q
<1>8. (c \div P) % Q = e
  <2> DEFINE q == R * k + d  t == c \div P
  <2>1. q \in Int /\ t \in Int
    BY <1>2, <1>3, <1>4, <1>7
  <2>2. t = Q * q + e
    BY <1>6, <1>7
  <2> HIDE DEF q, t
  <2>3. t % Q = e
    BY <1>4, <2>1, <2>2, DivModUnique
  <2> QED BY <2>3 DEF t
<1> QED BY <1>8 DEF e, u, r

\* What the sizes are.
LEMMA SizesType ==
    /\ Block \in Nat \ {0} /\ Modulus \in Nat \ {0}
    /\ 2 ^ Bits \in Nat \ {0}
    /\ 0 \in Byte /\ Mark \in Byte /\ Byte \subseteq Nat
<1>0. Bits \in Nat \ {0} /\ Field \in Nat /\ Block \in Nat /\ Field < Block
  BY SizesAssumption
<1>1. Bits * Field \in Nat /\ Bits - 1 \in Nat
  BY <1>0
<1>2. 2 ^ (Bits * Field) \in Nat \ {0} /\ 2 ^ (Bits - 1) \in Nat \ {0} /\ 2 ^ Bits \in Nat \ {0}
  BY <1>0, <1>1, PowerType
<1>3. 2 ^ Bits = 2 * 2 ^ (Bits - 1)
  <2>1. 2 ^ ((Bits - 1) + 1) = 2 ^ (Bits - 1) * 2 ^ 1
    BY <1>1, PowerSum
  <2>2. (Bits - 1) + 1 = Bits /\ 2 ^ 1 = 2
    BY <1>0
  <2>3. 2 ^ Bits = 2 ^ (Bits - 1) * 2
    BY <2>1, <2>2
  <2> QED BY <1>2, <2>3
<1> QED BY <1>0, <1>2, <1>3 DEF Modulus, Byte, Mark

-----------------------------------------------------------------------------
(* The inductive invariant.                                                *)

\* The counter counts what was compressed and what waits in the buffer; without
\* this BufferHasRoom is inductive but says nothing about the length field.
IInv ==
    /\ compressed \in Seq(Byte)
    /\ buffer \in [1..Block -> Byte]
    /\ finished \in BOOLEAN
    /\ BufferHasRoom
    /\ ~finished => bit_count = (Bits * (Len(compressed) + buffer_len)) % Modulus

\* A block is a sequence of bytes.
LEMMA BlockIsSeq ==
    ASSUME NEW b \in [1..Block -> Byte] PROVE b \in Seq(Byte) /\ Len(b) = Block
BY SizesType

\* Writing over part of a block gives a block (copy_from_slice).
LEMMA OverlayType ==
    ASSUME NEW old \in [1..Block -> Byte], NEW at \in Nat, NEW data \in Seq(Byte)
    PROVE  /\ Overlay(old, at, data) \in [1..Block -> Byte]
           /\ Overlay(old, at, data) \in Seq(Byte)
           /\ Len(Overlay(old, at, data)) = Block
<1>1. Overlay(old, at, data) \in [1..Block -> Byte]
  BY SizesType DEF Overlay
<1> QED BY <1>1, BlockIsSeq

\* A sequence cut in two is its two parts.
LEMMA Prefix ==
    ASSUME NEW s \in Seq(Byte), NEW k \in 0..Len(s)
    PROVE  /\ SubSeq(s, 1, k) \in Seq(Byte) /\ Len(SubSeq(s, 1, k)) = k
           /\ \A i \in 1..k : SubSeq(s, 1, k)[i] = s[i]
           /\ Rest(s, k) \in Seq(Byte) /\ Len(Rest(s, k)) = Len(s) - k
           /\ s = SubSeq(s, 1, k) \o Rest(s, k)
<1>1. \A i \in 1..Len(s) : s[i] \in Byte
  BY ElementOfSeq
<1>2. Len(s) \in Nat
  OBVIOUS
<1>3. /\ SubSeq(s, 1, k) \in Seq(Byte) /\ Len(SubSeq(s, 1, k)) = k
      /\ \A i \in 1..k : SubSeq(s, 1, k)[i] = s[i]
  BY <1>1, <1>2, SubSeqProperties
<1>4. /\ Rest(s, k) \in Seq(Byte) /\ Len(Rest(s, k)) = Len(s) - k
  BY <1>1, <1>2, SubSeqProperties DEF Rest
<1>5. SubSeq(s, 1, k) \o SubSeq(s, k + 1, Len(s)) = SubSeq(s, 1, Len(s))
  <2>1. 1 \in 1..(Len(s) + 1) /\ k \in (1 - 1)..Len(s) /\ Len(s) \in k..Len(s)
    BY <1>2
  <2> QED BY <2>1, ConcatAdjacentSubSeq
<1>6. SubSeq(s, 1, Len(s)) = s
  BY SubSeqFull
<1> QED BY <1>3, <1>4, <1>5, <1>6 DEF Rest

\* Data written behind the part of the buffer in use extends that part by it.
LEMMA OverlayPrefix ==
    ASSUME NEW old \in [1..Block -> Byte], NEW at \in Nat, NEW data \in Seq(Byte),
           at + Len(data) <= Block
    PROVE  SubSeq(Overlay(old, at, data), 1, at + Len(data)) = SubSeq(old, 1, at) \o data
<1> DEFINE o == Overlay(old, at, data)  n == at + Len(data)
           l == SubSeq(o, 1, n)  p == SubSeq(old, 1, at)
<1>1. o \in Seq(Byte) /\ Len(o) = Block /\ old \in Seq(Byte) /\ Len(old) = Block
  BY OverlayType, BlockIsSeq
<1>2. Len(data) \in Nat /\ n \in 0..Len(o) /\ at \in 0..Len(old)
  BY <1>1, SizesType
<1>3. l \in Seq(Byte) /\ Len(l) = n /\ \A i \in 1..n : l[i] = o[i]
  BY <1>1, <1>2, Prefix
<1>4. p \in Seq(Byte) /\ Len(p) = at /\ \A i \in 1..at : p[i] = old[i]
  BY <1>1, <1>2, Prefix
<1>5. /\ p \o data \in Seq(Byte) /\ Len(p \o data) = n
      /\ \A i \in 1..n : (p \o data)[i] = IF i <= at THEN p[i] ELSE data[i - at]
  BY <1>4, ConcatProperties
<1>6. \A i \in 1..n : o[i] = IF i <= at THEN old[i] ELSE data[i - at]
  BY <1>2, SizesType DEF Overlay
<1> HIDE DEF o, n, l, p
<1>7. \A i \in 1..n : l[i] = (p \o data)[i]
  <2> SUFFICES ASSUME NEW i \in 1..n PROVE l[i] = (p \o data)[i]
    OBVIOUS
  <2>1. l[i] = o[i]
    BY <1>3
  <2>2. CASE i <= at
    <3>1. o[i] = old[i] /\ (p \o data)[i] = p[i]
      BY <1>5, <1>6, <2>2
    <3>2. i \in 1..at
      BY <1>2, <2>2
    <3> QED BY <1>4, <2>1, <3>1, <3>2
  <2>3. CASE ~(i <= at)
    BY <1>5, <1>6, <2>1, <2>3
  <2> QED BY <2>2, <2>3
<1>8. l = p \o data
  BY <1>3, <1>5, <1>7, SeqEqual
<1> QED BY <1>8 DEF l, p, o, n

\* Two runs of whole blocks are a run of whole blocks.
LEMMA Aligned ==
    ASSUME NEW m \in Nat, NEW n \in Nat, m % Block = 0, n % Block = 0
    PROVE  (m + n) % Block = 0
<1>0. Block \in Nat \ {0} /\ m \in Int /\ n \in Int
  BY SizesType
<1>1. ((m % Block) + n) % Block = (m + n) % Block
  BY <1>0, ModAdd, Zenon
<1>2. (m % Block) + n = n
  OBVIOUS
<1> QED BY <1>1, <1>2

\* Concatenation of bytes is associative.
LEMMA Assoc ==
    ASSUME NEW a \in Seq(Byte), NEW b \in Seq(Byte), NEW c \in Seq(Byte)
    PROVE  (a \o b) \o c = a \o (b \o c)
BY ConcatAssociative

\* update keeps the invariant and appends its data to what was fed, whether it
\* finds the buffer empty, fills it, or leaves it with room.
LEMMA UpdateStep ==
    ASSUME IInv, NEW data \in Seq(Byte), Update(data)
    PROVE  IInv' /\ Fed' = Fed \o data
<1> DEFINE n == Len(data)
           room == Block - buffer_len
           take == IF buffer_len = 0 THEN 0 ELSE IF n < room THEN n ELSE room
           filled == Overlay(buffer, buffer_len, SubSeq(data, 1, take))
           full == buffer_len + take = Block
           rest == Rest(data, take)
           whole == Len(rest) - (Len(rest) % Block)
           tail == Rest(rest, whole)
           used == SubSeq(buffer, 1, buffer_len)
<1>0. /\ compressed \in Seq(Byte) /\ buffer \in [1..Block -> Byte]
      /\ buffer_len \in 0..(Block - 1) /\ Len(compressed) \in Nat
      /\ Len(compressed) % Block = 0
      /\ bit_count = (Bits * (Len(compressed) + buffer_len)) % Modulus
      /\ n \in Nat
  BY DEF IInv, BufferHasRoom, Update
<1>1. /\ finished = FALSE /\ finished' = FALSE
      /\ bit_count' = (bit_count + Bits * n) % Modulus
      /\ compressed' = compressed \o (IF full THEN filled ELSE <<>>) \o SubSeq(rest, 1, whole)
      /\ buffer' = Overlay(filled, 0, tail)
      /\ buffer_len' = IF tail # <<>> THEN Len(tail)
                       ELSE IF full THEN 0 ELSE buffer_len + take
  BY DEF Update, IInv
<1>2. take \in 0..n /\ take <= room
  BY <1>0, SizesType
<1>3. /\ SubSeq(data, 1, take) \in Seq(Byte) /\ Len(SubSeq(data, 1, take)) = take
      /\ rest \in Seq(Byte) /\ Len(rest) = n - take
      /\ data = SubSeq(data, 1, take) \o rest
  BY <1>2, Prefix
<1>4. /\ whole \in 0..Len(rest) /\ whole % Block = 0
      /\ Len(rest) - whole \in 0..(Block - 1)
  <2> DEFINE m == Len(rest)
  <2>1. m \in Nat
    BY <1>3
  <2> HIDE DEF m
  <2>0. Block \in Nat \ {0} /\ m \in Int
    BY <2>1, SizesType
  <2>2. m % Block \in 0..(Block - 1) /\ m % Block <= m /\ (m - (m % Block)) % Block = 0
    <3>1. m % Block \in 0..(Block - 1)
      BY <2>0, DivMod
    <3>2. m % Block <= m /\ (m - (m % Block)) % Block = 0
      BY <2>0, <2>1, ModLess
    <3> QED BY <3>1, <3>2
  <2>3. m - (m - (m % Block)) = m % Block
    BY <2>1, <2>2
  <2> QED BY <2>1, <2>2, <2>3 DEF m
<1>5. /\ SubSeq(rest, 1, whole) \in Seq(Byte) /\ Len(SubSeq(rest, 1, whole)) = whole
      /\ tail \in Seq(Byte) /\ Len(tail) \in 0..(Block - 1)
      /\ rest = SubSeq(rest, 1, whole) \o tail
  <2> HIDE DEF rest, whole
  <2>1. rest \in Seq(Byte) /\ whole \in 0..Len(rest)
    BY <1>3, <1>4
  <2>2. /\ SubSeq(rest, 1, whole) \in Seq(Byte) /\ Len(SubSeq(rest, 1, whole)) = whole
        /\ tail \in Seq(Byte) /\ Len(tail) = Len(rest) - whole
        /\ rest = SubSeq(rest, 1, whole) \o tail
    BY <2>1, Prefix
  <2> QED BY <1>4, <2>2
<1>6. /\ filled \in [1..Block -> Byte] /\ filled \in Seq(Byte) /\ Len(filled) = Block
      /\ buffer' \in [1..Block -> Byte]
      /\ SubSeq(buffer', 1, Len(tail)) = tail
  <2> HIDE DEF take, rest, whole, tail
  <2>0. buffer_len \in Nat /\ 0 \in Nat
    BY <1>0, SizesType
  <2>1. filled \in [1..Block -> Byte] /\ filled \in Seq(Byte) /\ Len(filled) = Block
    BY <1>0, <1>3, <2>0, OverlayType
  <2> HIDE DEF filled
  <2>2. buffer' \in [1..Block -> Byte]
    BY <1>1, <1>5, <2>1, OverlayType
  <2>3. SubSeq(buffer', 1, 0 + Len(tail)) = SubSeq(filled, 1, 0) \o tail
    <3>1. 0 + Len(tail) <= Block
      BY <1>5, SizesType
    <3>2. SubSeq(Overlay(filled, 0, tail), 1, 0 + Len(tail)) = SubSeq(filled, 1, 0) \o tail
      BY <1>5, <2>0, <2>1, <3>1, OverlayPrefix
    <3> QED BY <1>1, <3>2
  <2>4. SubSeq(filled, 1, 0) = <<>>
    BY SubSeqEmpty
  <2>5. <<>> \o tail = tail
    BY <1>5, ConcatEmptySeq
  <2>6. 0 + Len(tail) = Len(tail)
    BY <1>5
  <2> QED BY <2>1, <2>2, <2>3, <2>4, <2>5, <2>6
<1>7. SubSeq(filled, 1, buffer_len + take) = used \o SubSeq(data, 1, take)
  <2> DEFINE part == SubSeq(data, 1, take)
  <2> HIDE DEF take
  <2>1. buffer_len \in Nat
    BY <1>0, SizesType
  <2>2. part \in Seq(Byte) /\ Len(part) = take /\ buffer_len + take <= Block
    BY <1>0, <1>2, <1>3, SizesType
  <2> HIDE DEF part
  <2>3. SubSeq(Overlay(buffer, buffer_len, part), 1, buffer_len + Len(part))
           = SubSeq(buffer, 1, buffer_len) \o part
    BY <1>0, <2>1, <2>2, OverlayPrefix
  <2> QED BY <2>2, <2>3 DEF part
<1>8. used \in Seq(Byte) /\ Len(used) = buffer_len
  BY <1>0, BlockIsSeq, Prefix
<1>9. Fed = compressed \o used /\ Fed' = compressed' \o SubSeq(buffer', 1, buffer_len')
  BY <1>1 DEF Fed
<1> HIDE DEF filled, rest, whole, tail, used, take, room
<1> DEFINE Good ==
        /\ compressed' \in Seq(Byte) /\ Len(compressed') % Block = 0
        /\ buffer_len' \in 0..(Block - 1)
        /\ Fed' = Fed \o data
<1>10. ASSUME full PROVE Good
  <2>1. filled = used \o SubSeq(data, 1, take)
    <3>1. SubSeq(filled, 1, Block) = filled
      BY <1>6, SubSeqFull
    <3> QED BY <1>7, <1>10, <3>1
  <2>2. compressed' = (compressed \o filled) \o SubSeq(rest, 1, whole)
    BY <1>1, <1>10
  <2>3. buffer_len' = Len(tail)
    BY <1>1, <1>5, <1>10
  <2>4. Fed' = Fed \o data
    <3>1. Fed' = ((compressed \o (used \o SubSeq(data, 1, take))) \o SubSeq(rest, 1, whole)) \o tail
      BY <1>6, <1>9, <2>1, <2>2, <2>3
    <3>2. Fed \o data = (compressed \o used)
                           \o (SubSeq(data, 1, take) \o (SubSeq(rest, 1, whole) \o tail))
      BY <1>3, <1>5, <1>9
    <3> DEFINE p == SubSeq(data, 1, take)   m == SubSeq(rest, 1, whole)
               c == compressed \o used         d == c \o p        e == m \o tail
    <3>1a. p \in Seq(Byte) /\ m \in Seq(Byte)
      BY <1>3, <1>5
    <3> HIDE DEF p, m
    <3>2a. compressed \in Seq(Byte) /\ used \in Seq(Byte) /\ tail \in Seq(Byte)
      BY <1>0, <1>5, <1>8
    <3>3. p \in Seq(Byte) /\ m \in Seq(Byte) /\ c \in Seq(Byte) /\ tail \in Seq(Byte)
      BY <3>1a, <3>2a
    <3>4. compressed \o (used \o p) = c \o p
      BY <3>1a, <3>2a, Assoc, SMTT(30), ZenonT(60)
    <3> HIDE DEF c
    <3>5. d \in Seq(Byte) /\ e \in Seq(Byte)
      BY <3>3
    <3>6. c \o (p \o e) = d \o e
      <4>1. ASSUME NEW u \in Seq(Byte) PROVE c \o (p \o u) = (c \o p) \o u
        BY <3>3, Assoc, SMTT(30), ZenonT(60)
      <4> HIDE DEF e
      <4>2. c \o (p \o e) = (c \o p) \o e
        BY <3>5, <4>1, Zenon
      <4> QED BY <4>2
    <3>7. (d \o m) \o tail = d \o e
      <4>1. ASSUME NEW u \in Seq(Byte) PROVE (u \o m) \o tail = u \o (m \o tail)
        BY <3>3, Assoc, SMTT(30), ZenonT(60)
      <4> HIDE DEF d
      <4>2. (d \o m) \o tail = d \o (m \o tail)
        BY <3>5, <4>1, Zenon
      <4> QED BY <4>2
    <3> QED BY <3>1, <3>2, <3>4, <3>6, <3>7, Zenon DEF p, m, c
  <2>5. /\ compressed' \in Seq(Byte)
        /\ Len(compressed') = Len(compressed) + Block + whole
    <3> DEFINE m == SubSeq(rest, 1, whole)
    <3>1. /\ compressed \in Seq(Byte) /\ filled \in Seq(Byte) /\ m \in Seq(Byte)
          /\ Len(filled) = Block /\ Len(m) = whole
      BY <1>0, <1>5, <1>6
    <3> HIDE DEF m
    <3>2. /\ compressed \o filled \in Seq(Byte)
          /\ Len(compressed \o filled) = Len(compressed) + Len(filled)
      BY <3>1, ConcatProperties
    <3>3. /\ (compressed \o filled) \o m \in Seq(Byte)
          /\ Len((compressed \o filled) \o m) = Len(compressed \o filled) + Len(m)
      BY <3>1, <3>2, ConcatProperties
    <3> QED BY <2>2, <3>1, <3>2, <3>3 DEF m
  <2>6. Len(compressed') % Block = 0
    <3>1. Block % Block = 0
      BY SizesType
    <3>2. Len(compressed) + Block \in Nat /\ whole \in Nat
      BY <1>0, <1>3, <1>4, SizesType
    <3>3. (Len(compressed) + Block) % Block = 0
      BY <1>0, <3>1, Aligned, SizesType, SMTT(30)
    <3>4. ((Len(compressed) + Block) + whole) % Block = 0
      BY <1>4, <3>2, <3>3, Aligned, SMTT(30)
    <3> QED BY <2>5, <3>4
  <2> QED BY <1>5, <2>3, <2>4, <2>5, <2>6
<1>11. ASSUME ~full, buffer_len = 0 PROVE Good
  <2>1. take = 0
    BY <1>11 DEF take
  <2>2. rest = data
    <3>1. rest = SubSeq(data, 1, Len(data))
      BY <2>1 DEF rest, Rest
    <3> QED BY <3>1, SubSeqFull
  <2>3. compressed' = compressed \o SubSeq(rest, 1, whole)
    <3>1. compressed' = (compressed \o <<>>) \o SubSeq(rest, 1, whole)
      BY <1>1, <1>11
    <3> QED BY <1>0, <3>1, ConcatEmptySeq
  <2>4. buffer_len' = Len(tail)
    BY <1>1, <1>5, <1>11, <2>1
  <2>5. Fed = compressed
    <3>1. used = <<>>
      BY <1>8, <1>11, EmptySeq
    <3> QED BY <1>0, <1>9, <3>1, ConcatEmptySeq
  <2>6. Fed' = Fed \o data
    <3>1. Fed' = (compressed \o SubSeq(rest, 1, whole)) \o tail
      BY <1>6, <1>9, <2>3, <2>4
    <3>2. Fed \o data = compressed \o (SubSeq(rest, 1, whole) \o tail)
      BY <1>5, <2>2, <2>5
    <3> QED BY <1>0, <1>5, <3>1, <3>2, Assoc, Zenon
  <2>7. /\ compressed' \in Seq(Byte)
        /\ Len(compressed') = Len(compressed) + whole
    BY <1>0, <1>5, <2>3, ConcatProperties
  <2>8. Len(compressed') % Block = 0
    <3>1. whole \in Nat
      BY <1>3, <1>4
    <3> QED BY <1>0, <1>4, <2>7, <3>1, Aligned
  <2> QED BY <1>5, <2>4, <2>6, <2>7, <2>8
<1>12. ASSUME ~full, buffer_len # 0 PROVE Good
  <2>1. take = n /\ buffer_len + n < Block
    BY <1>0, <1>12, SizesType DEF take, room
  <2>2. SubSeq(data, 1, take) = data
    BY <2>1, SubSeqFull
  <2>3. Len(rest) = 0 /\ whole = 0 /\ Len(tail) = 0 /\ tail = <<>>
    <3>1. Len(rest) = 0
      BY <1>0, <1>3, <2>1
    <3>2. whole = 0
      BY <1>4, <3>1
    <3>3. Len(tail) = Len(rest) - whole
      BY <1>3, <1>4, Prefix DEF tail
    <3> QED BY <1>5, <3>1, <3>2, <3>3, EmptySeq
  <2>4. compressed' = compressed
    <3>1. compressed' = (compressed \o <<>>) \o SubSeq(rest, 1, 0)
      BY <1>1, <1>12, <2>3
    <3>2. SubSeq(rest, 1, 0) = <<>>
      BY SubSeqEmpty
    <3> QED BY <1>0, <3>1, <3>2, ConcatEmptySeq
  <2>5. buffer_len' = buffer_len + n
    BY <1>1, <1>12, <2>1, <2>3
  <2>6. buffer' = filled
    <3>1. buffer' = Overlay(filled, 0, <<>>)
      BY <1>1, <2>3
    <3>2. Overlay(filled, 0, <<>>) = [i \in 1..Block |-> filled[i]]
      <4>1. \A i \in 1..Block : i - 0 \notin 1..Len(<<>>)
        BY EmptySeq, SizesType
      <4> QED BY <4>1 DEF Overlay
    <3> QED BY <1>6, <3>1, <3>2
  <2>7. Fed' = Fed \o data
    <3>1. Fed' = compressed \o (used \o data)
      BY <1>7, <1>9, <2>1, <2>2, <2>4, <2>5, <2>6
    <3> QED BY <1>0, <1>8, <1>9, <3>1, Assoc, Zenon
  <2>8. buffer_len + n \in 0..(Block - 1)
    <3> HIDE DEF n
    <3> QED BY <1>0, <2>1, SizesType
  <2> HIDE DEF n
  <2> QED BY <1>0, <2>4, <2>5, <2>7, <2>8
<1>13. Good
  <2> HIDE DEF full, Good
  <2>1. CASE full
    BY <1>10, <2>1, Zenon
  <2>2. CASE ~full /\ buffer_len = 0
    BY <1>11, <2>2, Zenon
  <2>3. CASE ~full /\ buffer_len # 0
    BY <1>12, <2>3, Zenon
  <2> QED BY <2>1, <2>2, <2>3, Zenon
<1>14. Len(compressed') + buffer_len' = (Len(compressed) + buffer_len) + n
  <2>1. Len(Fed) = Len(compressed) + buffer_len /\ Fed \in Seq(Byte)
    BY <1>0, <1>8, <1>9, ConcatProperties
  <2>2. Len(Fed') = Len(Fed) + n
    BY <1>13, <2>1, ConcatProperties
  <2>3. /\ SubSeq(buffer', 1, buffer_len') \in Seq(Byte)
        /\ Len(SubSeq(buffer', 1, buffer_len')) = buffer_len'
    <3>1. buffer' \in Seq(Byte) /\ Len(buffer') = Block
      BY <1>6, BlockIsSeq
    <3>2. buffer_len' \in 0..Len(buffer')
      BY <1>13, <3>1, SizesType
    <3> QED BY <3>1, <3>2, Prefix
  <2>4. Len(Fed') = Len(compressed') + buffer_len'
    BY <1>9, <1>13, <2>3, ConcatProperties
  <2> QED BY <2>1, <2>2, <2>4
<1>15. bit_count' = (Bits * (Len(compressed') + buffer_len')) % Modulus
  <2> DEFINE old == Bits * (Len(compressed) + buffer_len)  new == Bits * n
  <2>1. old \in Int /\ new \in Int
    BY <1>0, SizesAssumption
  <2>2. old + new = Bits * (Len(compressed') + buffer_len')
    BY <1>0, <1>14, SizesAssumption
  <2>3. bit_count' = ((old % Modulus) + new) % Modulus
    BY <1>0, <1>1
  <2> HIDE DEF old, new
  <2>4. bit_count' = (old + new) % Modulus
    BY <2>1, <2>3, SizesType, ModAdd
  <2> QED BY <2>2, <2>4
<1>16. bit_count' \in 0..(Modulus - 1)
  <2> DEFINE new == bit_count + Bits * n
  <2>1. new \in Int
    BY <1>0, SizesAssumption DEF IInv, BufferHasRoom
  <2> HIDE DEF new
  <2>2. new % Modulus \in 0..(Modulus - 1)
    BY <2>1, SizesType, DivMod
  <2> QED BY <1>1, <2>2 DEF new
<1> QED BY <1>1, <1>6, <1>13, <1>15, <1>16 DEF IInv, BufferHasRoom

\* The mark and the zeros of the padding are bytes.
LEMMA MarkedType ==
    /\ <<Mark>> \in Seq(Byte) /\ Len(<<Mark>>) = 1 /\ <<Mark>>[1] = Mark
    /\ \A k \in Nat : /\ Whole!Zeros(k) \in Seq(Byte) /\ Len(Whole!Zeros(k)) = k
                      /\ \A i \in 1..k : Whole!Zeros(k)[i] = 0
<1>1. Mark \in Byte /\ 0 \in Byte
  BY SizesType
<1>2. <<Mark>> \in Seq(Byte) /\ Len(<<Mark>>) = 1 /\ <<Mark>>[1] = Mark
  <2> HIDE DEF Mark, Byte
  <2> QED BY <1>1
<1>3. ASSUME NEW k \in Nat
      PROVE  /\ Whole!Zeros(k) \in Seq(Byte) /\ Len(Whole!Zeros(k)) = k
             /\ \A i \in 1..k : Whole!Zeros(k)[i] = 0
  BY <1>1 DEF Whole!Zeros
<1> QED BY <1>2, <1>3

\* The last bytes of a padded message, from the start of the open block on.
PadWith(u, k, e) == ((u \o <<Mark>>) \o Whole!Zeros(k)) \o e

\* A padding, byte by byte.
LEMMA PaddedAt ==
    ASSUME NEW u \in Seq(Byte), NEW k \in Nat, NEW e \in Seq(Byte)
    PROVE  /\ PadWith(u, k, e) \in Seq(Byte)
           /\ Len(PadWith(u, k, e)) = Len(u) + 1 + k + Len(e)
           /\ \A i \in 1..(Len(u) + 1 + k + Len(e)) :
                 PadWith(u, k, e)[i] = IF i <= Len(u) THEN u[i]
                        ELSE IF i = Len(u) + 1 THEN Mark
                        ELSE IF i <= Len(u) + 1 + k THEN 0
                        ELSE e[i - (Len(u) + 1 + k)]
<1> DEFINE z == Whole!Zeros(k)  x == u \o <<Mark>>  y == x \o z  w == PadWith(u, k, e)
<1>0. Len(u) \in Nat /\ Len(e) \in Nat
  OBVIOUS
<1>1. /\ x \in Seq(Byte) /\ Len(x) = Len(u) + 1
      /\ \A i \in 1..Len(x) : x[i] = IF i <= Len(u) THEN u[i] ELSE Mark
  <2> DEFINE o == <<Mark>>
  <2>1. o \in Seq(Byte) /\ Len(o) = 1 /\ o[1] = Mark
    BY MarkedType
  <2> HIDE DEF o
  <2>2. /\ u \o o \in Seq(Byte) /\ Len(u \o o) = Len(u) + 1
        /\ \A i \in 1..(Len(u) + 1) : (u \o o)[i] = IF i <= Len(u) THEN u[i] ELSE o[i - Len(u)]
    <3>1. /\ u \o o \in Seq(Byte) /\ Len(u \o o) = Len(u) + Len(o)
          /\ \A i \in 1..(Len(u) + Len(o)) :
                (u \o o)[i] = IF i <= Len(u) THEN u[i] ELSE o[i - Len(u)]
      BY <2>1, ConcatProperties
    <3> QED BY <2>1, <3>1
  <2>3. \A i \in 1..(Len(u) + 1) : (u \o o)[i] = IF i <= Len(u) THEN u[i] ELSE Mark
    BY <1>0, <2>1, <2>2
  <2> QED BY <2>2, <2>3 DEF o
<1>2. z \in Seq(Byte) /\ Len(z) = k /\ \A i \in 1..k : z[i] = 0
  BY MarkedType
<1> HIDE DEF z, x
<1>3. /\ y \in Seq(Byte) /\ Len(y) = Len(u) + 1 + k
      /\ \A i \in 1..Len(y) : y[i] = IF i <= Len(x) THEN x[i] ELSE z[i - Len(x)]
  <2>1. x \in Seq(Byte) /\ z \in Seq(Byte) /\ Len(x) = Len(u) + 1 /\ Len(z) = k
    BY <1>1, <1>2
  <2>2. /\ y \in Seq(Byte) /\ Len(y) = Len(x) + Len(z)
        /\ \A i \in 1..(Len(x) + Len(z)) : y[i] = IF i <= Len(x) THEN x[i] ELSE z[i - Len(x)]
    BY <2>1, ConcatProperties
  <2> HIDE DEF y
  <2> QED BY <2>1, <2>2
<1> HIDE DEF y
<1>4. w = y \o e
  BY DEF y, x, z, PadWith
<1> HIDE DEF w
<1>5. /\ w \in Seq(Byte) /\ Len(w) = Len(y) + Len(e)
      /\ \A i \in 1..Len(w) : w[i] = IF i <= Len(y) THEN y[i] ELSE e[i - Len(y)]
  <2>1. y \in Seq(Byte)
    BY <1>3
  <2>2. /\ y \o e \in Seq(Byte) /\ Len(y \o e) = Len(y) + Len(e)
        /\ \A i \in 1..(Len(y) + Len(e)) :
              (y \o e)[i] = IF i <= Len(y) THEN y[i] ELSE e[i - Len(y)]
    BY <2>1, ConcatProperties
  <2> QED BY <1>4, <2>2
<1>6. /\ w \in Seq(Byte) /\ Len(w) = Len(u) + 1 + k + Len(e)
      /\ \A i \in 1..(Len(u) + 1 + k + Len(e)) :
            w[i] = IF i <= Len(u) THEN u[i]
                   ELSE IF i = Len(u) + 1 THEN Mark
                   ELSE IF i <= Len(u) + 1 + k THEN 0
                   ELSE e[i - (Len(u) + 1 + k)]
  <2>1. Len(w) = Len(u) + 1 + k + Len(e)
    BY <1>3, <1>5
  <2> SUFFICES ASSUME NEW i \in 1..(Len(u) + 1 + k + Len(e))
               PROVE  w[i] = IF i <= Len(u) THEN u[i]
                             ELSE IF i = Len(u) + 1 THEN Mark
                             ELSE IF i <= Len(u) + 1 + k THEN 0
                             ELSE e[i - (Len(u) + 1 + k)]
    BY <1>5, <2>1
  <2>2. CASE i > Len(u) + 1 + k
    BY <1>0, <1>3, <1>5, <2>1, <2>2
  <2>3. CASE i <= Len(u) + 1 + k
    <3>1. w[i] = IF i <= Len(x) THEN x[i] ELSE z[i - Len(x)]
      BY <1>0, <1>3, <1>5, <2>1, <2>3
    <3>2. CASE i <= Len(x)
      BY <1>0, <1>1, <3>1, <3>2
    <3>3. CASE i > Len(x)
      BY <1>0, <1>1, <1>2, <2>3, <3>1, <3>3
    <3> QED BY <1>0, <1>1, <3>2, <3>3
  <2> QED BY <1>0, <2>2, <2>3
<1> QED BY <1>6 DEF w

\* The length field holds bytes.
LEMMA LengthType ==
    ASSUME IInv
    PROVE  LengthBytes \in Seq(Byte) /\ Len(LengthBytes) = Field
<1>1. \A i \in 1..Field : LengthBytes[i] \in Byte
  <2> SUFFICES ASSUME NEW i \in 1..Field PROVE LengthBytes[i] \in Byte
    OBVIOUS
  <2> DEFINE p == 2 ^ (Bits * (Field - i))   q == 2 ^ Bits
  <2>1. Bits * (Field - i) \in Nat /\ Bits \in Nat
    <3>1. Field - i \in Nat /\ Bits \in Nat
      BY SizesAssumption
    <3> QED BY <3>1
  <2>2. p \in Nat \ {0} /\ q \in Nat \ {0}
    BY <2>1, PowerType
  <2>3. bit_count \in Int
    BY SizesType DEF IInv, BufferHasRoom
  <2> HIDE DEF p, q
  <2>4. bit_count \div p \in Int
    BY <2>2, <2>3, DivMod
  <2>5. (bit_count \div p) % q \in 0..(q - 1)
    BY <2>2, <2>4, DivMod
  <2> QED BY <2>5 DEF p, q, LengthBytes, Byte
<1>2. Field \in Nat
  BY SizesAssumption
<1> QED BY <1>1, <1>2 DEF LengthBytes

\* The bytes of the wrapped counter are the low bytes of the true bit count.
LEMMA LengthIsWhole ==
    ASSUME NEW c \in Nat, bit_count = c % Modulus
    PROVE  LengthBytes = Whole!BigEndian(c)
<1> SUFFICES ASSUME NEW i \in 1..Field
             PROVE  (bit_count \div 2 ^ (Bits * (Field - i))) % (2 ^ Bits)
                      = (c \div 2 ^ (Bits * (Field - i))) % (2 ^ Bits)
  BY DEF LengthBytes, Whole!BigEndian
<1> DEFINE a == Bits * (i - 1)   b == Bits * (Field - i)
           R == 2 ^ a  Q == 2 ^ Bits  P == 2 ^ b
<1>1. a \in Nat /\ b \in Nat /\ Bits \in Nat /\ a + Bits \in Nat
  <2>1. i - 1 \in Nat /\ Field - i \in Nat /\ Bits \in Nat
    BY SizesAssumption
  <2> QED BY <2>1
<1>2. Bits * Field = (a + Bits) + b
  BY SizesAssumption
<1>3. R \in Nat \ {0} /\ Q \in Nat \ {0} /\ P \in Nat \ {0}
  BY <1>1, PowerType
<1>4. Modulus = R * Q * P
  <2> HIDE DEF a, b
  <2>1. 2 ^ ((a + Bits) + b) = 2 ^ (a + Bits) * 2 ^ b
    BY <1>1, PowerSum
  <2>2. 2 ^ (a + Bits) = 2 ^ a * 2 ^ Bits
    BY <1>1, PowerSum
  <2> QED BY <1>2, <2>1, <2>2 DEF Modulus
<1> HIDE DEF R, Q, P
<1>5. ((c % (R * Q * P)) \div P) % Q = (c \div P) % Q
  BY <1>3, Digit, ZenonT(60)
<1> QED BY <1>4, <1>5 DEF P, Q, b

\* finalize appends the padding of the whole message, in one block or in two,
\* and keeps the invariant.
LEMMA FinalizeStep ==
    ASSUME IInv, Finalize
    PROVE  IInv' /\ Whole!MFinalize
<1> DEFINE n == buffer_len
           used == n + 1
           u == SubSeq(buffer, 1, n)
           marked == Overlay(buffer, n, <<Mark>>)
           spills == used > Block - Field
           spilt == Zeroed(marked, used + 1, Block)
           start == IF spills THEN 0 ELSE used
           blank == Zeroed(marked, start + 1, Block - Field)
           closing == Overlay(blank, Block - Field, LengthBytes)
           last == (IF spills THEN spilt ELSE <<>>) \o closing
           k == IF spills THEN (2 * Block - Field) - used ELSE (Block - Field) - used
           pad == PadWith(u, k, LengthBytes)
<1>0. /\ compressed \in Seq(Byte) /\ buffer \in [1..Block -> Byte]
      /\ n \in 0..(Block - 1) /\ Len(compressed) \in Nat /\ Len(compressed) % Block = 0
      /\ bit_count = (Bits * (Len(compressed) + n)) % Modulus
  BY DEF IInv, BufferHasRoom, Finalize
<1>1. /\ finished = FALSE /\ finished' = TRUE
      /\ compressed' = (compressed \o (IF spills THEN spilt ELSE <<>>)) \o closing
      /\ buffer' = buffer /\ buffer_len' = buffer_len /\ bit_count' = bit_count
  BY DEF Finalize, IInv
<1>2. /\ Block \in Nat \ {0} /\ Field \in Nat /\ Field < Block /\ Bits \in Nat
      /\ n \in Nat /\ Block - Field \in Nat
  BY <1>0, SizesAssumption
<1>3. k \in 0..(Block - 1)
  <2> HIDE DEF n
  <2> QED BY <1>0, <1>2
<1>4. u \in Seq(Byte) /\ Len(u) = n /\ \A i \in 1..n : u[i] = buffer[i]
  <2>1. buffer \in Seq(Byte) /\ Len(buffer) = Block
    BY <1>0, BlockIsSeq
  <2> HIDE DEF n
  <2>2. n \in 0..Len(buffer)
    BY <1>0, <1>2, <2>1
  <2> QED BY <2>1, <2>2, Prefix
<1>5. /\ LengthBytes \in Seq(Byte) /\ Len(LengthBytes) = Field
  BY LengthType
<1>6. /\ marked \in [1..Block -> Byte]
      /\ \A i \in 1..Block : marked[i] = IF i = n + 1 THEN Mark ELSE buffer[i]
  <2>1. <<Mark>> \in Seq(Byte) /\ Len(<<Mark>>) = 1 /\ <<Mark>>[1] = Mark
    BY MarkedType
  <2> DEFINE o == <<Mark>>
  <2>2. o \in Seq(Byte) /\ Len(o) = 1 /\ o[1] = Mark
    BY <2>1
  <2> HIDE DEF o, n
  <2>3. Overlay(buffer, n, o) \in [1..Block -> Byte]
    BY <1>0, <1>2, <2>2, OverlayType
  <2>4. \A i \in 1..Block : Overlay(buffer, n, o)[i]
                               = IF i - n \in 1..1 THEN o[i - n] ELSE buffer[i]
    BY <2>2 DEF Overlay
  <2>5. \A i \in 1..Block : i - n \in 1..1 <=> i = n + 1
    BY <1>2
  <2>6. \A i \in 1..Block : Overlay(buffer, n, o)[i] = IF i = n + 1 THEN Mark ELSE buffer[i]
    BY <1>2, <2>2, <2>4, <2>5
  <2> QED BY <2>3, <2>6 DEF o
<1> HIDE DEF marked
<1>7. /\ spilt \in Seq(Byte) /\ Len(spilt) = Block
      /\ \A i \in 1..Block : spilt[i] = IF i > n + 1 THEN 0 ELSE marked[i]
  <2> HIDE DEF n
  <2>1. spilt \in [1..Block -> Byte]
    BY <1>6, SizesType DEF Zeroed
  <2>2. \A i \in 1..Block : spilt[i] = IF i > n + 1 THEN 0 ELSE marked[i]
    BY <1>2 DEF Zeroed
  <2> QED BY <2>1, <2>2, BlockIsSeq
<1>8. /\ closing \in Seq(Byte) /\ Len(closing) = Block
      /\ \A i \in 1..Block :
            closing[i] = IF i > Block - Field THEN LengthBytes[i - (Block - Field)]
                         ELSE IF i > start THEN 0 ELSE marked[i]
  <2> HIDE DEF start
  <2>0. start \in Nat
    BY <1>2 DEF start
  <2>1. blank \in [1..Block -> Byte]
    BY <1>6, SizesType DEF Zeroed
  <2>2. \A i \in 1..Block : blank[i] = IF i \in (start + 1)..(Block - Field) THEN 0 ELSE marked[i]
    BY DEF Zeroed
  <2> HIDE DEF blank
  <2>3. closing \in Seq(Byte) /\ Len(closing) = Block
    BY <1>2, <1>5, <2>1, OverlayType
  <2>4. \A i \in 1..Block : closing[i] = IF i - (Block - Field) \in 1..Field
                                         THEN LengthBytes[i - (Block - Field)] ELSE blank[i]
    BY <1>5 DEF Overlay
  <2> HIDE DEF closing
  <2>5. \A i \in 1..Block : i - (Block - Field) \in 1..Field <=> i > Block - Field
    BY <1>2
  <2> QED BY <1>2, <2>0, <2>2, <2>3, <2>4, <2>5
<1> HIDE DEF spilt, closing
<1>9. /\ pad \in Seq(Byte) /\ Len(pad) = n + 1 + k + Field
      /\ \A i \in 1..Len(pad) :
            pad[i] = IF i <= n THEN u[i]
                     ELSE IF i = n + 1 THEN Mark
                     ELSE IF i <= n + 1 + k THEN 0
                     ELSE LengthBytes[i - (n + 1 + k)]
  <2> HIDE DEF u, k
  <2>1. k \in Nat /\ u \in Seq(Byte) /\ LengthBytes \in Seq(Byte)
    BY <1>2, <1>3, <1>4, <1>5
  <2>3. /\ pad \in Seq(Byte) /\ Len(pad) = Len(u) + 1 + k + Len(LengthBytes)
        /\ \A i \in 1..(Len(u) + 1 + k + Len(LengthBytes)) :
              pad[i] = IF i <= Len(u) THEN u[i]
                       ELSE IF i = Len(u) + 1 THEN Mark
                       ELSE IF i <= Len(u) + 1 + k THEN 0
                       ELSE LengthBytes[i - (Len(u) + 1 + k)]
    BY <2>1, PaddedAt
  <2>4. Len(u) = n /\ Len(LengthBytes) = Field
    BY <1>4, <1>5
  <2> HIDE DEF n, pad
  <2> QED BY <2>3, <2>4
<1> HIDE DEF u, pad, n
<1>10. last = pad /\ last \in Seq(Byte) /\ Len(last) % Block = 0
  <2>1. CASE spills
    <3>1. k = (2 * Block - Field) - (n + 1) /\ start = 0 /\ last = spilt \o closing
      BY <2>1
    <3> HIDE DEF k, start, last
    <3>2. /\ last \in Seq(Byte) /\ Len(last) = 2 * Block
          /\ \A i \in 1..(2 * Block) :
                last[i] = IF i <= Block THEN spilt[i] ELSE closing[i - Block]
      <4>1. /\ spilt \in Seq(Byte) /\ Len(spilt) = Block
            /\ closing \in Seq(Byte) /\ Len(closing) = Block
        BY <1>7, <1>8
      <4>2. /\ spilt \o closing \in Seq(Byte)
            /\ Len(spilt \o closing) = Block + Block
            /\ \A i \in 1..(Block + Block) :
                  (spilt \o closing)[i] = IF i <= Block THEN spilt[i] ELSE closing[i - Block]
        <5>1. /\ spilt \o closing \in Seq(Byte)
              /\ Len(spilt \o closing) = Len(spilt) + Len(closing)
              /\ \A i \in 1..(Len(spilt) + Len(closing)) :
                    (spilt \o closing)[i]
                       = IF i <= Len(spilt) THEN spilt[i] ELSE closing[i - Len(spilt)]
          BY <4>1, ConcatProperties
        <5> QED BY <4>1, <5>1
      <4>3. Block + Block = 2 * Block
        BY <1>2
      <4> QED BY <3>1, <4>2, <4>3
    <3>3. Len(pad) = 2 * Block
      BY <1>2, <1>9, <3>1
    <3>4. \A i \in 1..(2 * Block) : last[i] = pad[i]
      <4> SUFFICES ASSUME NEW i \in 1..(2 * Block) PROVE last[i] = pad[i]
        OBVIOUS
      <4>1. CASE i <= Block
        <5>1. last[i] = spilt[i]
          BY <3>2, <4>1
        <5>2. spilt[i] = IF i > n + 1 THEN 0 ELSE IF i = n + 1 THEN Mark ELSE buffer[i]
          BY <1>2, <1>6, <1>7, <4>1
        <5>3. pad[i] = IF i <= n THEN u[i] ELSE IF i = n + 1 THEN Mark ELSE 0
          BY <1>2, <1>9, <3>1, <3>3, <4>1
        <5>4. i <= n => u[i] = buffer[i]
          BY <1>2, <1>4
        <5> QED BY <1>2, <5>1, <5>2, <5>3, <5>4
      <4>2. CASE i > Block
        <5> DEFINE j == i - Block
        <5>1. j \in 1..Block /\ i = j + Block
          BY <1>2, <4>2
        <5>2. last[i] = closing[j]
          BY <1>2, <3>2, <4>2
        <5> HIDE DEF j
        <5>3. closing[j] = IF j > Block - Field THEN LengthBytes[j - (Block - Field)] ELSE 0
          BY <1>2, <1>8, <3>1, <5>1
        <5>4. pad[i] = IF i <= n + 1 + k THEN 0 ELSE LengthBytes[i - (n + 1 + k)]
          BY <1>0, <1>2, <1>9, <3>3, <4>2
        <5>5. n + 1 + k = (Block - Field) + Block
          BY <1>2, <3>1
        <5> QED BY <1>2, <5>1, <5>2, <5>3, <5>4, <5>5
      <4> QED BY <1>2, <4>1, <4>2
    <3>5. last = pad
      BY <1>9, <3>2, <3>3, <3>4, SeqEqual
    <3>6. (2 * Block) % Block = 0
      <4>1. Block % Block = 0
        BY <1>2
      <4>2. (Block + Block) % Block = 0
        BY <1>2, <4>1, Aligned
      <4> QED BY <1>2, <4>2
    <3> QED BY <3>2, <3>5, <3>6
  <2>2. CASE ~spills
    <3>1. k = (Block - Field) - (n + 1) /\ start = n + 1 /\ last = closing
      BY <1>8, <2>2, ConcatEmptySeq
    <3>2. n + 1 <= Block - Field
      BY <1>2, <2>2
    <3> HIDE DEF k, start, last
    <3>3. Len(pad) = Block
      BY <1>2, <1>9, <3>1
    <3>4. \A i \in 1..Block : last[i] = pad[i]
      <4> SUFFICES ASSUME NEW i \in 1..Block PROVE last[i] = pad[i]
        OBVIOUS
      <4>1. last[i] = IF i > Block - Field THEN LengthBytes[i - (Block - Field)]
                      ELSE IF i > n + 1 THEN 0
                      ELSE IF i = n + 1 THEN Mark ELSE buffer[i]
        BY <1>2, <1>6, <1>8, <3>1
      <4>2. n + 1 + k = Block - Field
        BY <1>2, <3>1
      <4>3. pad[i] = IF i <= n THEN u[i]
                     ELSE IF i = n + 1 THEN Mark
                     ELSE IF i <= Block - Field THEN 0
                     ELSE LengthBytes[i - (Block - Field)]
        BY <1>2, <1>9, <3>3, <4>2
      <4>4. i <= n => u[i] = buffer[i]
        BY <1>2, <1>4
      <4> QED BY <1>2, <3>2, <4>1, <4>3, <4>4
    <3>5. last = pad
      BY <1>8, <1>9, <3>1, <3>3, <3>4, SeqEqual
    <3>6. Block % Block = 0
      BY <1>2
    <3> QED BY <1>8, <3>1, <3>5, <3>6
  <2> QED BY <2>1, <2>2
<1>11. compressed' = compressed \o last
  <2>1. (IF spills THEN spilt ELSE <<>>) \in Seq(Byte)
    BY <1>7
  <2> DEFINE first == IF spills THEN spilt ELSE <<>>
  <2>2. first \in Seq(Byte)
    BY <2>1
  <2>3. compressed' = (compressed \o first) \o closing /\ last = first \o closing
    BY <1>1
  <2> HIDE DEF first, last
  <2> QED BY <1>0, <1>8, <2>2, <2>3, Assoc
<1> HIDE DEF last, spills, k
<1>12. /\ compressed' \in Seq(Byte) /\ Len(compressed') = Len(compressed) + Len(last)
  BY <1>0, <1>10, <1>11, ConcatProperties
<1>13. Len(compressed') % Block = 0
  <2>1. Len(last) \in Nat
    BY <1>10
  <2> QED BY <1>0, <1>10, <1>12, <2>1, Aligned
<1>14. IInv'
  <2>1. bit_count \in 0..(Modulus - 1)
    BY DEF IInv, BufferHasRoom
  <2> QED BY <1>0, <1>1, <1>12, <1>13, <2>1 DEF IInv, BufferHasRoom, n
<1>15. Fed = compressed \o u /\ Len(Fed) = Len(compressed) + n /\ Fed \in Seq(Byte)
  <2>1. Fed = compressed \o u
    BY <1>1 DEF Fed, u, n
  <2> QED BY <1>0, <1>4, <2>1, ConcatProperties
<1>16. LengthBytes = Whole!BigEndian(Bits * Len(Fed))
  <2> DEFINE c == Bits * Len(Fed)
  <2>1. c \in Nat
    BY <1>2, <1>15
  <2>2. bit_count = c % Modulus
    BY <1>0, <1>15
  <2> HIDE DEF c
  <2>3. LengthBytes = Whole!BigEndian(c)
    BY <2>1, <2>2, LengthIsWhole
  <2> QED BY <2>3 DEF c
<1>17. compressed' = Whole!Padded(Fed, k)
  <2> DEFINE o == <<Mark>>  z == Whole!Zeros(k)  e == LengthBytes
             x == u \o o   y == x \o z   f == compressed \o u
  <2>0. k \in Nat
    BY <1>2, <1>3
  <2>1. /\ o \in Seq(Byte) /\ z \in Seq(Byte) /\ e \in Seq(Byte) /\ u \in Seq(Byte)
        /\ compressed \in Seq(Byte)
    BY <1>0, <1>4, <1>5, <2>0, MarkedType
  <2>2. pad = y \o e
    BY DEF pad, PadWith
  <2> HIDE DEF o, z, e
  <2>3. x \in Seq(Byte) /\ y \in Seq(Byte)
    BY <2>1
  <2>4. compressed \o x = f \o o
    BY <2>1, Assoc
  <2>5. compressed \o y = (compressed \o x) \o z
    <3> HIDE DEF x
    <3> QED BY <2>1, <2>3, Assoc
  <2>6. compressed \o (y \o e) = (compressed \o y) \o e
    <3> HIDE DEF y
    <3> QED BY <2>1, <2>3, Assoc
  <2>7. compressed' = ((f \o o) \o z) \o e
    BY <1>10, <1>11, <2>2, <2>4, <2>5, <2>6, Zenon
  <2>8. Whole!Mark = Mark
    BY DEF Mark, Whole!Mark
  <2> QED BY <1>15, <1>16, <2>7, <2>8 DEF Whole!Padded, f, o, z, e
<1>18. Whole!Fills(Len(Fed), k)
  <2>1. Len(Fed) + 1 + k + Field = Len(compressed) + Len(last)
    <3>1. Len(last) = n + 1 + k + Field /\ Len(Fed) = Len(compressed) + n
      BY <1>9, <1>10, <1>15
    <3>2. k \in Nat /\ n \in Nat /\ Field \in Nat /\ Len(compressed) \in Nat
      BY <1>0, <1>2, <1>3
    <3> QED BY <3>1, <3>2
  <2> QED BY <1>12, <1>13, <2>1 DEF Whole!Fills
<1> QED BY <1>1, <1>3, <1>14, <1>17, <1>18 DEF Whole!MFinalize, Fed

\* A new instance has been fed nothing.
LEMMA Initially == ASSUME Init PROVE IInv /\ Whole!MInit
<1>1. buffer \in [1..Block -> Byte]
  BY SizesType DEF Init
<1>2. /\ compressed = <<>> /\ buffer_len = 0 /\ bit_count = 0 /\ finished = FALSE
  BY DEF Init
<1>3. 0 % Block = 0 /\ 0 % Modulus = 0 /\ Bits * (0 + 0) = 0
  BY SizesType, SizesAssumption
<1>4. <<>> \in Seq(Byte) /\ Len(<<>>) = 0
  BY EmptySeq
<1>5. IInv
  <2>1. BufferHasRoom
    BY <1>2, <1>3, <1>4, SizesType DEF BufferHasRoom
  <2>2. bit_count = (Bits * (Len(compressed) + buffer_len)) % Modulus
    BY <1>2, <1>3, <1>4
  <2> QED BY <1>1, <1>2, <1>4, <2>1, <2>2 DEF IInv
<1>6. Whole!MInit
  <2>1. SubSeq(buffer, 1, 0) = <<>>
    BY SubSeqEmpty
  <2> QED BY <1>2, <2>1 DEF Whole!MInit, Fed
<1> QED BY <1>5, <1>6

\* Each step keeps the invariant and is a step of Sha256Message or a stutter.
LEMMA StepKeeps ==
    ASSUME IInv, [Next]_vars
    PROVE  IInv' /\ [Whole!MNext]_Whole!mvars
<1>1. ASSUME NEW data \in Chunks, Update(data)
      PROVE  IInv' /\ Whole!MNext
  <2>1. data \in Seq(Byte)
    BY ChunksAssumption
  <2>2. IInv' /\ Fed' = Fed \o data
    BY <1>1, <2>1, UpdateStep
  <2>3. finished = FALSE /\ finished' = FALSE
    BY <1>1 DEF Update, IInv
  <2>4. Whole!MUpdate(data)
    BY <2>2, <2>3 DEF Whole!MUpdate
  <2> QED BY <2>2, <2>4 DEF Whole!MNext
<1>2. ASSUME Finalize
      PROVE  IInv' /\ Whole!MNext
  BY <1>2, FinalizeStep DEF Whole!MNext
<1>3. ASSUME UNCHANGED vars
      PROVE  IInv' /\ UNCHANGED Whole!mvars
  BY <1>3 DEF IInv, BufferHasRoom, vars, Whole!mvars, Fed
<1> QED BY <1>1, <1>2, <1>3 DEF Next

\* finalize never writes its mark outside the buffer, only whole blocks are
\* compressed, and the counter stays in its width (sha256.rs:42-90).
THEOREM BufferAlwaysHasRoom == Spec => []BufferHasRoom
<1>1. IInv => BufferHasRoom
  BY DEF IInv
<1> QED BY Initially, StepKeeps, <1>1, PTL DEF Spec

\* However the data is cut into calls of update, finalize compresses the whole of
\* it, padded once: sha256.rs implements Sha256Message.
THEOREM AlwaysHashesTheWhole == Spec => HashesTheWhole
<1>1. Init => IInv /\ Whole!MInit
  BY Initially
<1>2. IInv /\ [Next]_vars => IInv' /\ [Whole!MNext]_Whole!mvars
  BY StepKeeps
<1> QED BY <1>1, <1>2, PTL DEF Spec, HashesTheWhole, Whole!MSpec
=============================================================================
