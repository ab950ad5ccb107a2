--------------------------- MODULE PipelineProofs ---------------------------
(***************************************************************************)
(* Proofs about a session of commands, for any files, commands and bounds: *)
(* every variable keeps its type; the sink of a run is handed the selected *)
(* events of its source, each once and in the order of the file; the       *)
(* subset of an extract feeds a run what the whole capture would, and the  *)
(* alert log tells what every run came to.  The last two are inductive     *)
(* relative to the first two.                                              *)
(* FlattenSeq is recursive within: its unfolding at the last element is    *)
(* proved first, by induction over a set of lengths.                       *)
(***************************************************************************)
EXTENDS Pipeline, SequenceTheorems, NaturalsInduction, WellFoundedInduction,
        TLAPS
-----------------------------------------------------------------------------
(* Sequences of sequences laid end to end.                                 *)

\* Induction over the naturals, for a set instead of a predicate.
LEMMA SetInduction ==
    ASSUME NEW S \in SUBSET Nat, 0 \in S, \A n \in S : n + 1 \in S
    PROVE  S = Nat
<1> DEFINE T == Nat \ S
<1>1. SUFFICES ASSUME T # {} PROVE FALSE
  OBVIOUS
<1>2. IsWellFoundedOn(OpToRel(<, Nat), Nat)
  BY NatLessThanWellFounded
<1>3. PICK x \in T : \A y \in T : ~(<<y, x>> \in OpToRel(<, Nat))
  BY <1>1, <1>2, WFMin, Zenon
<1>4. \A y \in T : ~(y < x)
  BY <1>3, Zenon DEF OpToRel
<1>5. x - 1 \in Nat /\ x - 1 < x
  OBVIOUS
<1>6. x - 1 \in S
  BY <1>4, <1>5
<1> QED BY <1>5, <1>6

\* f is the recursive function within FlattenSeq.
Flattens(f, ss) ==
    \A i \in 1..Len(ss) : f[i] = IF i = 1 THEN ss[i] ELSE f[i - 1] \o ss[i]

\* The flattening, one step further.
LEMMA FlattensAt ==
    ASSUME NEW f, NEW ss, NEW i \in 1..Len(ss), Flattens(f, ss)
    PROVE  f[i] = IF i = 1 THEN ss[i] ELSE f[i - 1] \o ss[i]
BY DEF Flattens

\* It exists ...
LEMMA FlatteningExists ==
    ASSUME NEW S, NEW ss \in Seq(Seq(S)), ss # <<>>
    PROVE  \E f \in [1..Len(ss) -> Seq(S)] : Flattens(f, ss)
<1> DEFINE n == Len(ss)
           Upto(k) == \E f \in [1..n -> Seq(S)] :
                         \A i \in 1..k : f[i] = IF i = 1 THEN ss[i] ELSE f[i - 1] \o ss[i]
           Done == {k \in Nat : k <= n => Upto(k)}
<1>1. n \in Nat /\ 1 <= n /\ ss \in [1..n -> Seq(S)]
  BY LenProperties, EmptySeq
<1>2. Upto(0)
  <2>1. ss \in [1..n -> Seq(S)] /\ \A i \in 1..0 : FALSE
    BY <1>1
  <2> QED BY <2>1
<1> HIDE DEF n
<1>3. ASSUME NEW k \in Nat, k + 1 <= n, Upto(k) PROVE Upto(k + 1)
  <2>1. PICK f \in [1..n -> Seq(S)] :
           \A i \in 1..k : f[i] = IF i = 1 THEN ss[i] ELSE f[i - 1] \o ss[i]
    BY <1>3
  <2> DEFINE piece == IF k = 0 THEN ss[k + 1] ELSE f[k] \o ss[k + 1]
             g == [f EXCEPT ![k + 1] = piece]
  <2>2. k + 1 \in 1..n /\ (k # 0 => k \in 1..n)
    BY <1>1, <1>3
  <2>3. piece \in Seq(S)
    <3>1. ss[k + 1] \in Seq(S) /\ (k # 0 => f[k] \in Seq(S))
      BY <1>1, <2>2
    <3> QED BY <3>1, ConcatProperties
  <2>4. /\ g \in [1..n -> Seq(S)]
        /\ g[k + 1] = piece
        /\ \A i \in 1..k : g[i] = f[i]
    <3> HIDE DEF piece
    <3> QED BY <1>1, <1>3, <2>2, <2>3
  <2>5. ASSUME NEW i \in 1..(k + 1)
        PROVE  g[i] = IF i = 1 THEN ss[i] ELSE g[i - 1] \o ss[i]
    <3> HIDE DEF g
    <3>1. CASE i = k + 1
      <4>1. k # 0 => g[k] = f[k]
        BY <2>4
      <4>2. i - 1 = k /\ (i = 1 <=> k = 0)
        BY <3>1
      <4> QED BY <3>1, <4>1, <4>2, <2>4
    <3>2. CASE i \in 1..k
      <4>1. g[i] = f[i] /\ (i # 1 => g[i - 1] = f[i - 1])
        BY <3>2, <2>4
      <4>2. f[i] = IF i = 1 THEN ss[i] ELSE f[i - 1] \o ss[i]
        BY <3>2, <2>1
      <4> QED BY <4>1, <4>2
    <3> QED BY <3>1, <3>2
  <2> HIDE DEF g
  <2> QED BY <2>4, <2>5
<1>4. n \in Done
  <2>1. 0 \in Done
    BY <1>2
  <2>2. \A k \in Done : k + 1 \in Done
    <3> HIDE DEF Upto
    <3> QED BY <1>1, <1>3
  <2>3. Done \in SUBSET Nat
    OBVIOUS
  <2> HIDE DEF Done
  <2>4. Done = Nat
    BY <2>1, <2>2, <2>3, SetInduction
  <2> QED BY <2>4, <1>1
<1>5. Upto(n)
  <2> HIDE DEF Upto
  <2> QED BY <1>4
<1> QED BY <1>5 DEF Flattens, n

\* f and g agree on the first n numbers.
AgreeUpTo(f, g, n) == \A i \in 1..n : f[i] = g[i]

\* Two of them agree as far as their sequences do.
LEMMA FlatteningsAgree ==
    ASSUME NEW ss, NEW tt, NEW f, NEW g,
           Len(ss) \in Nat, Len(tt) \in Nat, Len(ss) <= Len(tt),
           AgreeUpTo(ss, tt, Len(ss)), Flattens(f, ss), Flattens(g, tt)
    PROVE  AgreeUpTo(f, g, Len(ss))
<1> DEFINE n == Len(ss)
           Same == {k \in Nat : k \in 1..n => f[k] = g[k]}
<1>1. 0 \in Same
  OBVIOUS
<1>2. ASSUME NEW k \in Same PROVE k + 1 \in Same
  <2>1. SUFFICES ASSUME k + 1 \in 1..n PROVE f[k + 1] = g[k + 1]
    OBVIOUS
  <2>2. k + 1 \in 1..Len(ss) /\ k + 1 \in 1..Len(tt) /\ ss[k + 1] = tt[k + 1]
    BY <2>1 DEF AgreeUpTo
  <2>3. /\ f[k + 1] = IF k + 1 = 1 THEN ss[k + 1] ELSE f[(k + 1) - 1] \o ss[k + 1]
        /\ g[k + 1] = IF k + 1 = 1 THEN tt[k + 1] ELSE g[(k + 1) - 1] \o tt[k + 1]
    BY <2>2 DEF Flattens
  <2>4. k + 1 # 1 => f[(k + 1) - 1] = g[(k + 1) - 1]
    BY <2>1, <1>2
  <2> QED BY <2>2, <2>3, <2>4, Zenon
<1>3. Same = Nat
  <2>1. Same \in SUBSET Nat
    OBVIOUS
  <2> HIDE DEF Same
  <2> QED BY <1>1, <1>2, <2>1, SetInduction
<1>4. ASSUME NEW i \in 1..n PROVE f[i] = g[i]
  <2>1. i \in Same
    BY <1>3
  <2> QED BY <2>1
<1> QED BY <1>4 DEF AgreeUpTo

\* ... and FlattenSeq returns its last value.
LEMMA FlattenUnfolds ==
    ASSUME NEW S, NEW ss \in Seq(Seq(S)), ss # <<>>
    PROVE  \E f \in [1..Len(ss) -> Seq(S)] :
              Flattens(f, ss) /\ FlattenSeq(ss) = f[Len(ss)]
<1> DEFINE n == Len(ss)
           f == CHOOSE f : f = [i \in 1..n |->
                    IF i = 1 THEN ss[i] ELSE f[i - 1] \o ss[i]]
<1>1. n \in Nat /\ n # 0
  BY LenProperties, EmptySeq
<1>2. FlattenSeq(ss) = f[n]
  BY <1>1, Zenon DEF FlattenSeq
<1>3. f = CHOOSE h : h = [i \in 1..n |-> IF i = 1 THEN ss[i] ELSE h[i - 1] \o ss[i]]
  BY Zenon
<1>4. PICK g \in [1..n -> Seq(S)] : Flattens(g, ss)
  BY FlatteningExists
<1> HIDE DEF f
<1>5. g = [i \in 1..n |-> IF i = 1 THEN ss[i] ELSE g[i - 1] \o ss[i]]
  BY <1>4 DEF Flattens
<1>6. f = [i \in 1..n |-> IF i = 1 THEN ss[i] ELSE f[i - 1] \o ss[i]]
  BY <1>3, <1>5, Zenon
<1>7. Flattens(f, ss) /\ DOMAIN f = 1..n
  BY <1>6, Zenon DEF Flattens
<1>8. f = g
  <2>1. \A i \in 1..n : f[i] = g[i]
    <3>1. Len(ss) \in Nat /\ Len(ss) <= Len(ss)
      BY <1>1
    <3>2. AgreeUpTo(ss, ss, Len(ss))
      BY DEF AgreeUpTo
    <3>3. AgreeUpTo(f, g, Len(ss))
      BY <1>4, <1>7, <3>1, <3>2, FlatteningsAgree, Zenon
    <3> QED BY <3>3 DEF AgreeUpTo
  <2>2. f = [i \in 1..n |-> f[i]]
    BY <1>6, Zenon
  <2> HIDE DEF n
  <2> QED BY <2>1, <2>2, <1>4
<1> QED BY <1>2, <1>4, <1>8

\* Nothing laid end to end is nothing.
LEMMA FlattenEmpty == FlattenSeq(<<>>) = <<>>
BY DEF FlattenSeq

\* The members of the whole are members of its parts.
LEMMA FlattenType ==
    ASSUME NEW S, NEW ss \in Seq(Seq(S))
    PROVE  FlattenSeq(ss) \in Seq(S)
<1>1. CASE ss = <<>>
  BY <1>1, FlattenEmpty, EmptySeq
<1>2. CASE ss # <<>>
  <2>1. PICK f \in [1..Len(ss) -> Seq(S)] : FlattenSeq(ss) = f[Len(ss)]
    BY <1>2, FlattenUnfolds
  <2>2. Len(ss) \in 1..Len(ss)
    BY <1>2, EmptySeq
  <2> QED BY <2>1, <2>2
<1> QED BY <1>1, <1>2

\* One part more is laid behind the others.
LEMMA FlattenAppend ==
    ASSUME NEW S, NEW ss \in Seq(Seq(S)), NEW s \in Seq(S)
    PROVE  FlattenSeq(Append(ss, s)) = FlattenSeq(ss) \o s
<1> DEFINE tt == Append(ss, s)
           n == Len(ss)
<1>1. n \in Nat
  BY LenProperties
<1>2. /\ tt \in Seq(Seq(S)) /\ tt # <<>> /\ Len(tt) = n + 1
      /\ \A i \in 1..n : tt[i] = ss[i]
      /\ tt[n + 1] = s
  BY AppendProperties
<1> HIDE DEF tt
<1>3. PICK g \in [1..Len(tt) -> Seq(S)] :
         Flattens(g, tt) /\ FlattenSeq(tt) = g[Len(tt)]
  BY <1>2, FlattenUnfolds
<1>4. g[n + 1] = IF n + 1 = 1 THEN s ELSE g[(n + 1) - 1] \o s
  <2>1. n + 1 \in 1..Len(tt)
    BY <1>1, <1>2
  <2> HIDE DEF n
  <2>2. g[n + 1] = IF n + 1 = 1 THEN tt[n + 1] ELSE g[(n + 1) - 1] \o tt[n + 1]
    <3> HIDE DEF n
    <3> QED BY <1>3, <2>1, FlattensAt, Zenon
  <2> QED BY <1>2, <2>2
<1>5. CASE ss = <<>>
  <2>1. n = 0
    BY <1>5
  <2>2. g[n + 1] = s
    BY <1>4, <2>1
  <2>3. FlattenSeq(ss) \o s = s
    BY <1>5, FlattenEmpty, ConcatEmptySeq
  <2> QED BY <1>2, <1>3, <2>2, <2>3 DEF tt
<1>6. CASE ss # <<>>
  <2>1. PICK f \in [1..n -> Seq(S)] : Flattens(f, ss) /\ FlattenSeq(ss) = f[n]
    BY <1>6, FlattenUnfolds
  <2>2. n \in 1..n /\ n + 1 # 1 /\ (n + 1) - 1 = n
    BY <1>6, <1>1, EmptySeq
  <2>3. \A i \in 1..n : g[i] = f[i]
    <3>1. Len(ss) \in Nat /\ Len(tt) \in Nat /\ Len(ss) <= Len(tt)
      BY <1>1, <1>2
    <3>2. AgreeUpTo(ss, tt, Len(ss))
      BY <1>2 DEF AgreeUpTo
    <3>3. AgreeUpTo(f, g, Len(ss))
      BY <1>3, <2>1, <3>1, <3>2, FlatteningsAgree, Zenon
    <3> QED BY <3>3 DEF AgreeUpTo
  <2>4. g[n + 1] = f[n] \o s
    <3> HIDE DEF n
    <3> QED BY <1>4, <2>2, <2>3
  <2> QED BY <1>2, <1>3, <2>1, <2>4 DEF tt
<1> QED BY <1>5, <1>6
-----------------------------------------------------------------------------
(* What is selected.                                                       *)

\* The pieces Hits lays end to end.
Pieces(es) == [i \in DOMAIN es |-> IF es[i].hit THEN <<es[i]>> ELSE <<>>]

\* The events with the grep text are events ...
LEMMA HitsType ==
    ASSUME NEW es \in Seq(Event) PROVE Hits(es) \in Seq(Event)
<1>1. Pieces(es) \in Seq(Seq(Event))
  <2>1. \A i \in 1..Len(es) : es[i] \in Event
    BY ElementOfSeq
  <2>2. \A i \in 1..Len(es) : (IF es[i].hit THEN <<es[i]>> ELSE <<>>) \in Seq(Event)
    BY <2>1
  <2>3. DOMAIN es = 1..Len(es) /\ Len(es) \in Nat
    BY LenProperties
  <2> QED BY <2>2, <2>3 DEF Pieces
<1>2. FlattenSeq(Pieces(es)) \in Seq(Event)
  BY <1>1, FlattenType
<1> QED BY <1>2 DEF Hits, Pieces

\* ... and none come of none.
LEMMA HitsOfNone == Hits(<<>>) = <<>>
<1>1. Pieces(<<>>) = <<>>
  BY DEF Pieces
<1>2. FlattenSeq(Pieces(<<>>)) = <<>>
  BY <1>1, FlattenEmpty
<1> QED BY <1>2 DEF Hits, Pieces

\* What a record comes to is a sequence of events.
LEMMA DecodedType ==
    ASSUME NEW c \in Commands, NEW r \in Record
    PROVE  Decoded(c, r) \in Seq(Event)
BY EmptySeq DEF Decoded, Record

\* So is what it contributes ...
LEMMA SelectedType ==
    ASSUME NEW c \in Commands, NEW r \in Record
    PROVE  Selected(c, r) \in Seq(Event)
<1>1. r.events \in Seq(Event)
  BY DEF Record
<1>2. Decoded(c, r) \in Seq(Event)
  BY DecodedType
<1>3. Hits(Decoded(c, r)) \in Seq(Event)
  BY <1>2, HitsType
<1> QED BY <1>1, <1>2, <1>3 DEF Selected

\* extract copies a frame exactly if a run selects any of its events
\* (runtime.rs:133-142 and 92-97).
LEMMA WantedIsSelected ==
    ASSUME NEW c \in Commands, NEW r \in Record, Extension[c.source] = "pcap"
    PROVE  Wanted(c, r) <=> Selected(c, r) # <<>>
<1>1. Selected(c, r) = IF c.grep THEN Hits(Decoded(c, r)) ELSE Decoded(c, r)
  BY DEF Selected
<1>2. Decoded(c, r) = <<>> => Hits(Decoded(c, r)) = <<>>
  BY HitsOfNone
<1> QED BY <1>1, <1>2 DEF Wanted

\* What each of some records contributes.
Contributions(c, rs) == [i \in DOMAIN rs |-> Selected(c, rs[i])]

\* ... what several records contribute, one by one ...
LEMMA ContributionsType ==
    ASSUME NEW c \in Commands, NEW rs \in Seq(Record)
    PROVE  Contributions(c, rs) \in Seq(Seq(Event))
<1>1. \A i \in 1..Len(rs) : rs[i] \in Record
  BY ElementOfSeq
<1>2. \A i \in 1..Len(rs) : Selected(c, rs[i]) \in Seq(Event)
  BY <1>1, SelectedType
<1>3. DOMAIN rs = 1..Len(rs) /\ Len(rs) \in Nat
  BY LenProperties
<1> QED BY <1>2, <1>3 DEF Contributions

\* ... and all together.
LEMMA SelectionType ==
    ASSUME NEW c \in Commands, NEW rs \in Seq(Record)
    PROVE  Selection(c, rs) \in Seq(Event)
<1>1. FlattenSeq(Contributions(c, rs)) \in Seq(Event)
  BY ContributionsType, FlattenType
<1> QED BY <1>1 DEF Selection, Contributions

\* Nothing is selected of no records ...
LEMMA SelectionOfNone == ASSUME NEW c PROVE Selection(c, <<>>) = <<>>
<1>1. Contributions(c, <<>>) = <<>>
  BY DEF Contributions
<1>2. FlattenSeq(Contributions(c, <<>>)) = <<>>
  BY <1>1, FlattenEmpty
<1> QED BY <1>2 DEF Selection, Contributions

\* ... and a record more selects its events behind the others.
LEMMA SelectionOfMore ==
    ASSUME NEW c \in Commands, NEW rs \in Seq(Record), NEW r \in Record
    PROVE  Selection(c, Append(rs, r)) = Selection(c, rs) \o Selected(c, r)
<1> DEFINE parts == Contributions(c, rs)
           more == Contributions(c, Append(rs, r))
<1>1. parts \in Seq(Seq(Event)) /\ Selected(c, r) \in Seq(Event)
  BY ContributionsType, SelectedType
<1>2. more = Append(parts, Selected(c, r))
  <2>1. /\ Append(rs, r) \in Seq(Record)
        /\ Len(Append(rs, r)) = Len(rs) + 1
        /\ \A i \in 1..Len(rs) : Append(rs, r)[i] = rs[i]
        /\ Append(rs, r)[Len(rs) + 1] = r
    BY AppendProperties
  <2>2. more \in Seq(Seq(Event))
    BY <2>1, ContributionsType
  <2>3. /\ DOMAIN rs = 1..Len(rs) /\ Len(rs) \in Nat
        /\ DOMAIN Append(rs, r) = 1..(Len(rs) + 1)
    BY <2>1, LenProperties
  <2>4. Len(parts) = Len(rs) /\ Len(more) = Len(rs) + 1
    BY <2>3 DEF Contributions
  <2>5. /\ Append(parts, Selected(c, r)) \in Seq(Seq(Event))
        /\ Len(Append(parts, Selected(c, r))) = Len(rs) + 1
        /\ \A i \in 1..Len(rs) : Append(parts, Selected(c, r))[i] = parts[i]
        /\ Append(parts, Selected(c, r))[Len(rs) + 1] = Selected(c, r)
    <3> HIDE DEF parts
    <3> QED BY <1>1, <2>4, AppendProperties
  <2>6. ASSUME NEW i \in 1..(Len(rs) + 1)
        PROVE  more[i] = Append(parts, Selected(c, r))[i]
    <3>1. more[i] = Selected(c, Append(rs, r)[i])
      BY <2>3 DEF Contributions
    <3>2. CASE i = Len(rs) + 1
      BY <3>1, <3>2, <2>1, <2>5
    <3>3. CASE i \in 1..Len(rs)
      <4>1. parts[i] = Selected(c, rs[i])
        BY <3>3, <2>3 DEF Contributions
      <4> QED BY <3>1, <3>3, <4>1, <2>1, <2>5
    <3>4. i = Len(rs) + 1 \/ i \in 1..Len(rs)
      BY <2>3
    <3> HIDE DEF parts, more
    <3> QED BY <3>2, <3>3, <3>4
  <2> HIDE DEF parts, more
  <2> QED BY <2>2, <2>4, <2>5, <2>6, SeqEqual
<1>3. FlattenSeq(more) = FlattenSeq(parts) \o Selected(c, r)
  <2> HIDE DEF parts, more
  <2> QED BY <1>1, <1>2, FlattenAppend
<1> QED BY <1>3 DEF Selection, Contributions

\* The first n + 1 records are the first n and the next.
LEMMA FirstMore ==
    ASSUME NEW S, NEW s \in Seq(S), NEW n \in Nat, n < Len(s)
    PROVE  /\ SubSeq(s, 1, n) \in Seq(S)
           /\ s[n + 1] \in S
           /\ SubSeq(s, 1, n + 1) = Append(SubSeq(s, 1, n), s[n + 1])
<1>1. Len(s) \in Nat /\ n + 1 \in 1..Len(s) /\ (n + 1) - 1 = n
  BY LenProperties
<1>2. s[n + 1] \in S /\ \A i \in 1..n : s[i] \in S
  BY <1>1, ElementOfSeq
<1>3. SubSeq(s, 1, n) \in Seq(S)
  BY <1>2, SubSeqProperties
<1>4. SubSeq(s, 1, n + 1) = SubSeq(s, 1, n) \o <<s[n + 1]>>
  BY <1>1, SubSeqRecursiveSecond
<1>5. Append(SubSeq(s, 1, n), s[n + 1]) = SubSeq(s, 1, n) \o <<s[n + 1]>>
  BY <1>2, <1>3, AppendIsConcat
<1> QED BY <1>2, <1>3, <1>4, <1>5

\* What is selected of the records read so far is the beginning of what is
\* selected of all.
LEMMA SelectionBegins ==
    ASSUME NEW c \in Commands, NEW rs \in Seq(Record), NEW n \in 0..Len(rs)
    PROVE  \E t \in Seq(Event) :
              Selection(c, rs) = Selection(c, SubSeq(rs, 1, n)) \o t
<1> DEFINE first(k) == Selection(c, SubSeq(rs, 1, k))
           Begins(k) == \E t \in Seq(Event) : first(n + k) = first(n) \o t
           Done == {k \in Nat : n + k <= Len(rs) => Begins(k)}
<1>1. Len(rs) \in Nat /\ n \in Nat
  BY LenProperties
<1>2. ASSUME NEW k \in 0..Len(rs) PROVE first(k) \in Seq(Event)
  <2>1. \A i \in 1..k : rs[i] \in Record
    BY <1>1, ElementOfSeq
  <2>2. SubSeq(rs, 1, k) \in Seq(Record)
    BY <2>1, SubSeqProperties
  <2> QED BY <2>2, SelectionType
<1>3. ASSUME NEW k \in Nat, k < Len(rs)
      PROVE  first(k + 1) = first(k) \o Selected(c, rs[k + 1])
  BY <1>3, FirstMore, SelectionOfMore
<1>4. \A k \in Nat : k < Len(rs) => Selected(c, rs[k + 1]) \in Seq(Event)
  BY FirstMore, SelectedType
<1> HIDE DEF first
<1>5. Begins(0)
  <2>1. n + 0 = n /\ first(n) \in Seq(Event)
    BY <1>1, <1>2
  <2>2. first(n) \o <<>> = first(n)
    BY <2>1, ConcatEmptySeq
  <2> QED BY <2>1, <2>2, EmptySeq
<1>6. ASSUME NEW k \in Nat, n + (k + 1) <= Len(rs), Begins(k) PROVE Begins(k + 1)
  <2>1. PICK t \in Seq(Event) : first(n + k) = first(n) \o t
    BY <1>6
  <2>2. n + (k + 1) = (n + k) + 1 /\ n + k \in Nat /\ n + k < Len(rs)
    BY <1>1, <1>6
  <2> DEFINE u == Selected(c, rs[(n + k) + 1])
  <2>3. u \in Seq(Event)
    BY <2>2, <1>4
  <2>4. first(n + (k + 1)) = (first(n) \o t) \o u
    BY <2>1, <2>2, <1>3
  <2>5. first(n) \in Seq(Event)
    BY <1>2
  <2> HIDE DEF u
  <2>6. (first(n) \o t) \o u = first(n) \o (t \o u)
    BY <2>3, <2>5, ConcatAssociative
  <2>7. t \o u \in Seq(Event)
    BY <2>3, ConcatProperties
  <2> QED BY <2>4, <2>6, <2>7
<1>7. Done = Nat
  <2>1. 0 \in Done
    BY <1>5
  <2>2. \A k \in Done : k + 1 \in Done
    <3> HIDE DEF Begins
    <3>1. \A k \in Nat : n + (k + 1) <= Len(rs) => n + k <= Len(rs)
      BY <1>1
    <3> QED BY <1>6, <3>1
  <2>3. Done \in SUBSET Nat
    OBVIOUS
  <2> HIDE DEF Done
  <2> QED BY <2>1, <2>2, <2>3, SetInduction
<1>8. Begins(Len(rs) - n)
  <2>1. Len(rs) - n \in Nat /\ n + (Len(rs) - n) <= Len(rs)
    BY <1>1
  <2>2. Len(rs) - n \in Done
    <3> HIDE DEF Done
    <3> QED BY <2>1, <1>7
  <2> HIDE DEF Begins
  <2> QED BY <2>1, <2>2
<1>9. n + (Len(rs) - n) = Len(rs) /\ SubSeq(rs, 1, Len(rs)) = rs
  BY <1>1, SubSeqFull
<1> QED BY <1>8, <1>9 DEF first

-----------------------------------------------------------------------------
(* What every variable holds.                                              *)

\* What is assumed of a command.
LEMMA CommandFacts ==
    ASSUME NEW c \in Commands
    PROVE  /\ c \in Command
           /\ c.source \in Paths
           /\ c.output # c.source
           /\ c.verb = "extract" <=> c.output \in Paths
           /\ c.verb = "run" \/ c.verb = "extract"
BY CommandsAssumption DEF Command

\* A file is not the absence of one.
LEMMA ContentFacts ==
    ASSUME NEW x \in Content
    PROVE  /\ x # NoFile
           /\ x.records \in Seq(Record)
           /\ x.framed \in BOOLEAN
BY PathsAssumption DEF Content

\* The records and files that the actions name.
LEMMA SpecialContents ==
    Damaged \in Record /\ Empty \in Content /\ Headless \in Content
BY EmptySeq DEF Damaged, Empty, Headless, Content, Record

\* A session begins with every variable in its type.
LEMMA TypeInit == Init => TypeOK
<1> SUFFICES ASSUME Init PROVE TypeOK
  OBVIOUS
<1>1. disk \in [Paths -> Content \cup {NoFile}]
  BY PathsAssumption DEF Init
<1>2. log \in [lines : Seq(Seq(Alert)), torn : BOOLEAN] /\ ~log.torn
  BY EmptySeq DEF Init
<1>3. /\ queue \in Seq(Event) /\ dispatched \in Seq(Event)
      /\ alerts \in Seq(Alert) /\ history \in Seq(Ending)
      /\ logged \in 0..Len(alerts)
  BY EmptySeq DEF Init
<1> QED BY <1>1, <1>2, <1>3 DEF Init, TypeOK, Phases

\* A command that ends is recorded.
LEMMA ExitType ==
    ASSUME TypeOK, NEW code \in {0, 2}, Exit(code), alerts' \in Seq(Alert)
    PROVE  phase' = "idle" /\ history' \in Seq(Ending)
<1>1. [cmd |-> cmd, code |-> code, at |-> phase, alerts |-> alerts'] \in Ending
  BY DEF TypeOK, Ending
<1>2. history \in Seq(Ending)
  BY DEF TypeOK
<1> QED BY <1>1, <1>2, AppendProperties DEF Exit

\* A step that ends the command and touches no more than the alerts.
LEMMA EndsTyped ==
    ASSUME TypeOK, NEW code \in {0, 2}, Exit(code),
           UNCHANGED <<files, cmd, reader, alerts, logged>>
    PROVE  TypeOK'
<1>1. phase' = "idle" /\ history' \in Seq(Ending)
  <2>1. alerts' \in Seq(Alert)
    BY DEF TypeOK
  <2> QED BY <2>1, ExitType
<1> QED BY <1>1 DEF TypeOK, files, reader, Phases

\* A step to another phase that touches nothing else.
LEMMA MovesTyped ==
    ASSUME TypeOK, phase' \in Phases, UNCHANGED history,
           UNCHANGED <<files, cmd, reader, alerts, logged>>,
           phase' \in {"heading", "reading"} =>
              /\ Source \in Content
              /\ cmd.verb = "extract" => disk[cmd.output] \in Content
    PROVE  TypeOK'
BY DEF TypeOK, files, reader, Source

\* The types survive a refusal.
LEMMA RefuseType == ASSUME TypeOK, Refuse PROVE TypeOK'
BY EndsTyped DEF Refuse

\* The types survive a source that does not open.
LEMMA OpenFailsType == ASSUME TypeOK, OpenFails PROVE TypeOK'
BY EndsTyped DEF OpenFails

\* The types survive a record that does not read.
LEMMA ReadFailsType == ASSUME TypeOK, ReadFails PROVE TypeOK'
BY EndsTyped DEF ReadFails

\* The types survive the end of a log.
LEMMA LogDoneType == ASSUME TypeOK, LogDone PROVE TypeOK'
BY EndsTyped DEF LogDone

\* The types survive the next command.
LEMMA BeginType == ASSUME TypeOK, NEW c \in Commands, Begin(c) PROVE TypeOK'
<1>1. /\ queue' \in Seq(Event) /\ dispatched' \in Seq(Event)
      /\ alerts' \in Seq(Alert) /\ logged' \in 0..Len(alerts')
  BY EmptySeq DEF Begin
<1> QED BY <1>1 DEF TypeOK, Begin, files, Phases

\* What is at the source of an accepted command that can be opened.
LEMMA OpenedIsContent == ASSUME TypeOK, Openable PROVE Source \in Content
BY CommandFacts DEF TypeOK, Openable, Source

\* The types survive the opening of a source.
LEMMA OpenSourceType == ASSUME TypeOK, OpenSource PROVE TypeOK'
<1>1. phase' = "reading" /\ phase' \in Phases /\ Source \in Content
  BY OpenedIsContent DEF OpenSource, Phases
<1>2. cmd.verb # "extract"
  BY DEF OpenSource
<1> QED BY <1>1, <1>2, MovesTyped DEF OpenSource

\* An extract writes its output and no other file.
LEMMA WrittenType ==
    ASSUME TypeOK, cmd.verb = "extract", NEW x \in Content,
           disk' = [disk EXCEPT ![cmd.output] = x]
    PROVE  /\ disk' \in [Paths -> Content \cup {NoFile}]
           /\ disk'[cmd.output] \in Content
           /\ disk'[cmd.source] = disk[cmd.source]
<1>1. cmd.output \in Paths /\ cmd.source \in Paths /\ cmd.output # cmd.source
  BY CommandFacts DEF TypeOK
<1> QED BY <1>1 DEF TypeOK

\* A step of an extract that goes on, with its output written.
LEMMA WritesTyped ==
    ASSUME TypeOK, cmd.verb = "extract", Source \in Content, NEW x \in Content,
           disk' = [disk EXCEPT ![cmd.output] = x],
           phase' \in Phases, next' \in Nat \ {0},
           UNCHANGED <<log, cmd, queue, dispatched, alerts, logged, history>>
    PROVE  TypeOK'
<1>1. /\ disk' \in [Paths -> Content \cup {NoFile}]
      /\ disk'[cmd.output] \in Content
      /\ disk'[cmd.source] = disk[cmd.source]
  BY WrittenType
<1> QED BY <1>1 DEF TypeOK, Source

\* The types survive an output that is truncated.
LEMMA CreateOutputType == ASSUME TypeOK, CreateOutput PROVE TypeOK'
<1>1. CASE /\ disk' = [disk EXCEPT ![cmd.output] = Headless]
           /\ phase' = "heading"
           /\ UNCHANGED <<log, cmd, reader, alerts, logged, history>>
  <2>1. cmd.verb = "extract" /\ Source \in Content
    BY OpenedIsContent DEF CreateOutput
  <2>2. phase' \in Phases /\ next' \in Nat \ {0}
    BY <1>1 DEF Phases, TypeOK, reader
  <2> QED BY <1>1, <2>1, <2>2, SpecialContents, WritesTyped DEF reader
<1>2. CASE /\ UNCHANGED <<files, cmd, reader, alerts, logged>>
           /\ Exit(2)
  BY <1>2, EndsTyped
<1> QED BY <1>1, <1>2 DEF CreateOutput

\* The types survive the header of an output.
LEMMA WriteHeaderType ==
    ASSUME TypeOK, cmd.verb = "extract", WriteHeader PROVE TypeOK'
<1>1. CASE /\ disk' = [disk EXCEPT ![cmd.output] = Empty]
           /\ phase' = "reading"
           /\ UNCHANGED <<log, cmd, reader, alerts, logged, history>>
  <2>1. Source \in Content
    BY DEF WriteHeader, TypeOK
  <2>2. phase' \in Phases /\ next' \in Nat \ {0}
    BY <1>1 DEF Phases, TypeOK, reader
  <2> QED BY <1>1, <2>1, <2>2, SpecialContents, WritesTyped DEF reader
<1>2. CASE /\ UNCHANGED <<files, cmd, reader, alerts, logged>>
           /\ Exit(2)
  BY <1>2, EndsTyped
<1> QED BY <1>1, <1>2 DEF WriteHeader

\* The record a reader is at.
LEMMA AtRecordFacts ==
    ASSUME TypeOK, AtRecord
    PROVE  /\ Source \in Content
           /\ next \in 1..Len(Source.records)
           /\ Source.records[next] \in Record
<1>1. Source \in Content /\ next \in Nat \ {0} /\ next <= Len(Source.records)
  BY DEF TypeOK, AtRecord
<1>2. Source.records \in Seq(Record)
  BY <1>1, ContentFacts
<1>3. next \in 1..Len(Source.records)
  BY <1>1, <1>2
<1> QED BY <1>1, <1>2, <1>3, ElementOfSeq

\* The types survive a record that is read.
LEMMA ReadRecordType == ASSUME TypeOK, ReadRecord PROVE TypeOK'
<1>1. Source.records[next] \in Record /\ cmd \in Commands
  BY AtRecordFacts DEF ReadRecord, TypeOK
<1>2. queue' \in Seq(Event)
  BY <1>1, SelectedType DEF ReadRecord
<1>3. next' \in Nat \ {0}
  BY DEF ReadRecord, TypeOK
<1> QED BY <1>2, <1>3 DEF ReadRecord, TypeOK, files, Source

\* The types survive a frame that is skipped.
LEMMA SkipFrameType == ASSUME TypeOK, SkipFrame PROVE TypeOK'
<1>1. next' \in Nat \ {0}
  BY DEF SkipFrame, TypeOK
<1> QED BY <1>1 DEF SkipFrame, TypeOK, files, Source

\* A frame put behind those of the output.
LEMMA PutIsWrite ==
    ASSUME TypeOK, phase = "reading", cmd.verb = "extract", NEW r \in Record, Put(r)
    PROVE  \E x \in Content : /\ x.framed = disk[cmd.output].framed
                              /\ x.records = Append(disk[cmd.output].records, r)
                              /\ disk' = [disk EXCEPT ![cmd.output] = x]
<1> DEFINE old == disk[cmd.output]
           new == [old EXCEPT !.records = Append(@, r)]
<1>1. old \in Content /\ cmd.output \in Paths
  BY CommandFacts DEF TypeOK
<1>2. old.records \in Seq(Record)
  BY <1>1, ContentFacts
<1>3. Append(old.records, r) \in Seq(Record)
  BY <1>2, AppendProperties
<1>4. /\ new \in Content
      /\ new.framed = old.framed
      /\ new.records = Append(old.records, r)
  BY <1>1, <1>3 DEF Content
<1>5. disk' = [disk EXCEPT ![cmd.output] = new]
  BY <1>1 DEF Put
<1> QED BY <1>4, <1>5

\* The types survive a frame that is copied, or half copied.
LEMMA CopyFrameType == ASSUME TypeOK, CopyFrame PROVE TypeOK'
<1>1. /\ phase = "reading" /\ cmd.verb = "extract"
      /\ Source \in Content /\ Source.records[next] \in Record
  BY AtRecordFacts DEF CopyFrame, AtRecord
<1>2. CASE /\ Put(Source.records[next])
           /\ next' = next + 1
           /\ UNCHANGED <<log, cmd, phase, queue, dispatched, alerts, logged,
                          history>>
  <2>1. PICK x \in Content : disk' = [disk EXCEPT ![cmd.output] = x]
    BY <1>1, <1>2, PutIsWrite
  <2>2. phase' \in Phases /\ next' \in Nat \ {0}
    BY <1>2 DEF TypeOK
  <2> QED BY <1>1, <1>2, <2>1, <2>2, WritesTyped
<1>3. CASE /\ disk' = disk \/ Put(Damaged)
           /\ UNCHANGED <<log, cmd, reader, alerts, logged>>
           /\ Exit(2)
  <2>1. disk' \in [Paths -> Content \cup {NoFile}]
    <3>1. CASE disk' = disk
      BY <3>1 DEF TypeOK
    <3>2. CASE Put(Damaged)
      <4>1. PICK x \in Content : disk' = [disk EXCEPT ![cmd.output] = x]
        BY <1>1, <3>2, SpecialContents, PutIsWrite
      <4> QED BY <1>1, <4>1, WrittenType
    <3> QED BY <1>3, <3>1, <3>2
  <2>2. phase' = "idle" /\ history' \in Seq(Ending)
    <3>1. alerts' \in Seq(Alert)
      BY <1>3 DEF TypeOK
    <3> QED BY <1>3, <3>1, ExitType
  <2> QED BY <1>3, <2>1, <2>2 DEF TypeOK, reader, Phases
<1> QED BY <1>2, <1>3 DEF CopyFrame

\* The types survive the end of a source.
LEMMA EndOfInputType == ASSUME TypeOK, EndOfInput PROVE TypeOK'
<1>1. CASE cmd.verb = "extract"
  BY <1>1, EndsTyped DEF EndOfInput
<1>2. CASE cmd.verb # "extract"
  BY <1>2, MovesTyped DEF EndOfInput, Phases
<1> QED BY <1>1, <1>2

\* The alerts that are raised follow the others and are numbered on.
LEMMA RaiseType ==
    ASSUME TypeOK, NEW n \in 0..MaxRaised, Raise(n)
    PROVE  /\ alerts' \in Seq(Alert)
           /\ Len(alerts') = Len(alerts) + n
           /\ \A k \in 1..Len(alerts) : alerts'[k] = alerts[k]
           /\ \A k \in 1..Len(alerts') :
                 k > Len(alerts) => alerts'[k].run = Len(history) + 1
<1> DEFINE more == [i \in 1..n |-> [run |-> Len(history) + 1,
                                    no  |-> Len(alerts) + i]]
<1>1. /\ Len(history) \in Nat /\ Len(alerts) \in Nat /\ n \in Nat
      /\ alerts \in Seq(Alert)
  BY BoundsAssumption, LenProperties DEF TypeOK
<1>2. more \in Seq(Alert) /\ Len(more) = n
  BY <1>1 DEF Alert
<1>3. \A i \in 1..n : more[i].run = Len(history) + 1
  OBVIOUS
<1>4. alerts' = alerts \o more
  BY DEF Raise
<1> HIDE DEF more
<1>5. /\ alerts \o more \in Seq(Alert)
      /\ Len(alerts \o more) = Len(alerts) + Len(more)
      /\ \A i \in 1..Len(alerts) + Len(more) : (alerts \o more)[i] =
            IF i <= Len(alerts) THEN alerts[i] ELSE more[i - Len(alerts)]
  BY <1>1, <1>2, ConcatProperties
<1>6. ASSUME NEW k \in 1..Len(alerts'), k > Len(alerts)
      PROVE  alerts'[k].run = Len(history) + 1
  <2>1. k - Len(alerts) \in 1..n /\ alerts'[k] = more[k - Len(alerts)]
    BY <1>1, <1>2, <1>4, <1>5, <1>6
  <2> QED BY <2>1, <1>3
<1>7. \A k \in 1..Len(alerts) : alerts'[k] = alerts[k]
  BY <1>1, <1>2, <1>4, <1>5
<1> QED BY <1>2, <1>4, <1>5, <1>6, <1>7

\* The types survive an event that is handled.
LEMMA DispatchType ==
    ASSUME TypeOK, NEW n \in 0..MaxRaised, NEW code \in {0, 2}, Dispatch(n, code)
    PROVE  TypeOK'
<1>1. Head(queue) \in Event /\ Tail(queue) \in Seq(Event)
  BY HeadTailProperties DEF Dispatch, TypeOK
<1>2. dispatched' \in Seq(Event) /\ queue' \in Seq(Event)
  BY <1>1, AppendProperties DEF Dispatch, TypeOK
<1>3. alerts' \in Seq(Alert) /\ logged' \in 0..Len(alerts')
  <2>1. alerts' \in Seq(Alert) /\ Len(alerts') = Len(alerts) + n
    BY RaiseType DEF Dispatch
  <2>2. logged \in 0..Len(alerts) /\ logged' = logged /\ Len(alerts) \in Nat /\ n \in Nat
    BY BoundsAssumption, LenProperties DEF Dispatch, TypeOK
  <2> QED BY <2>1, <2>2
<1>4. CASE code = 0
  BY <1>2, <1>3, <1>4 DEF Dispatch, TypeOK, files, Source
<1>5. CASE code # 0
  <2>1. phase' = "idle" /\ history' \in Seq(Ending)
    BY <1>3, <1>5, ExitType DEF Dispatch
  <2> QED BY <1>2, <1>3, <2>1 DEF Dispatch, TypeOK, files, Phases
<1> QED BY <1>4, <1>5

\* The types survive the finish handlers.
LEMMA FinishType ==
    ASSUME TypeOK, NEW n \in 0..MaxRaised, NEW code \in {0, 2}, Finish(n, code)
    PROVE  TypeOK'
<1>1. alerts' \in Seq(Alert) /\ logged' \in 0..Len(alerts')
  <2>1. alerts' \in Seq(Alert) /\ Len(alerts') = Len(alerts) + n
    BY RaiseType DEF Finish
  <2>2. logged \in 0..Len(alerts) /\ logged' = logged /\ Len(alerts) \in Nat /\ n \in Nat
    BY BoundsAssumption, LenProperties DEF Finish, TypeOK
  <2> QED BY <2>1, <2>2
<1>2. CASE code = 0 /\ cmd.log
  BY <1>1, <1>2 DEF Finish, TypeOK, files, reader, Phases
<1>3. CASE ~(code = 0 /\ cmd.log)
  <2>1. Exit(code)
    BY <1>3 DEF Finish
  <2>2. phase' = "idle" /\ history' \in Seq(Ending)
    BY <1>1, <2>1, ExitType
  <2> QED BY <1>1, <2>2 DEF Finish, TypeOK, files, reader, Phases
<1> QED BY <1>2, <1>3

\* The log with an entry more still consists of lines of alerts.
LEMMA WithEntryType ==
    ASSUME TypeOK, NEW a \in Alert
    PROVE  WithEntry(a) \in Seq(Seq(Alert)) /\ WithEntry(a) # <<>>
<1>1. log.lines \in Seq(Seq(Alert)) /\ (log.torn => log.lines # <<>>)
  BY DEF TypeOK
<1>2. CASE log.torn
  <2>1. Len(log.lines) \in 1..Len(log.lines)
    BY <1>1, <1>2, EmptySeq
  <2>2. log.lines[Len(log.lines)] \in Seq(Alert)
    BY <1>1, <2>1, ElementOfSeq
  <2> DEFINE l == Append(log.lines[Len(log.lines)], a)
  <2>3. l \in Seq(Alert)
    BY <2>2, AppendProperties
  <2>4. WithEntry(a) = [log.lines EXCEPT ![Len(log.lines)] = l]
    BY <1>1, <1>2, <2>1 DEF WithEntry
  <2> HIDE DEF l
  <2>5. /\ WithEntry(a) \in Seq(Seq(Alert))
        /\ Len(WithEntry(a)) = Len(log.lines)
    BY <1>1, <2>1, <2>3, <2>4, ExceptSeq
  <2> QED BY <2>1, <2>5, <1>1, EmptySeq
<1>3. CASE ~log.torn
  <2>1. <<a>> \in Seq(Alert)
    OBVIOUS
  <2> QED BY <1>1, <1>3, <2>1, AppendProperties DEF WithEntry
<1> QED BY <1>2, <1>3

\* The alert written next.
LEMMA NextAlert ==
    ASSUME TypeOK, logged < Len(alerts)
    PROVE  logged + 1 \in 1..Len(alerts) /\ alerts[logged + 1] \in Alert
<1>1. logged + 1 \in 1..Len(alerts) /\ alerts \in Seq(Alert)
  BY LenProperties DEF TypeOK
<1> QED BY <1>1, ElementOfSeq

\* The types survive an entry in the log.
LEMMA LogAlertType == ASSUME TypeOK, LogAlert PROVE TypeOK'
<1>1. logged + 1 \in 1..Len(alerts) /\ alerts[logged + 1] \in Alert
  BY NextAlert DEF LogAlert
<1>2. log' \in [lines : Seq(Seq(Alert)), torn : BOOLEAN] /\ ~log'.torn
  BY <1>1, WithEntryType DEF LogAlert
<1>3. logged' \in 0..Len(alerts')
  BY <1>1 DEF LogAlert
<1> QED BY <1>2, <1>3 DEF LogAlert, TypeOK, reader

\* The types survive an entry that fails, perhaps within its line.
LEMMA LogFailsType == ASSUME TypeOK, LogFails PROVE TypeOK'
<1>1. phase' = "idle" /\ history' \in Seq(Ending)
  <2>1. alerts' \in Seq(Alert) /\ Exit(2)
    BY DEF LogFails, TypeOK
  <2> QED BY <2>1, ExitType
<1>2. log' \in [lines : Seq(Seq(Alert)), torn : BOOLEAN] /\ (log'.torn => log'.lines # <<>>)
  <2>1. CASE log' = log
    BY <2>1 DEF TypeOK
  <2>2. CASE /\ logged < Len(alerts)
             /\ log' = [lines |-> WithEntry(alerts[logged + 1]), torn |-> TRUE]
    BY <2>2, NextAlert, WithEntryType
  <2> QED BY <2>1, <2>2 DEF LogFails
<1> QED BY <1>1, <1>2 DEF LogFails, TypeOK, reader, Phases

-----------------------------------------------------------------------------
(* Events reach the sink in order.                                         *)

\* Nothing has been read.
AtStart == next = 1 /\ queue = <<>> /\ dispatched = <<>>

\* The records that have been read.
ReadSoFar == SubSeq(Source.records, 1, next - 1)

\* What was dispatched and what is queued is what was selected of the records
\* read so far.
RunOrder ==
    /\ phase = "opening" => AtStart
    /\ phase = "heading" => AtStart /\ cmd.verb = "extract"
    /\ phase \in {"finishing", "logging"} => cmd.verb = "run"
    /\ phase \in {"reading", "finishing", "logging"} =>
          /\ Source \in Content
          /\ next <= Len(Source.records) + 1
          /\ cmd.verb = "run" => dispatched \o queue = Selection(cmd, ReadSoFar)
          /\ cmd.verb = "extract" => queue = <<>>
          /\ phase # "reading" => queue = <<>> /\ next = Len(Source.records) + 1

\* Every step keeps the types: what an extract writes next is its output.
LEMMA TypeStep ==
    ASSUME TypeOK, RunOrder, [Next]_vars PROVE TypeOK'
<1>1. CASE \E c \in Commands : Begin(c)
  BY <1>1, BeginType
<1>2. CASE Refuse \/ OpenFails \/ OpenSource \/ CreateOutput
  BY <1>2, RefuseType, OpenFailsType, OpenSourceType, CreateOutputType
<1>3. CASE WriteHeader
  BY <1>3, WriteHeaderType DEF RunOrder, WriteHeader
<1>4. CASE ReadFails \/ ReadRecord \/ SkipFrame \/ CopyFrame \/ EndOfInput
  BY <1>4, ReadFailsType, ReadRecordType, SkipFrameType, CopyFrameType,
     EndOfInputType
<1>5. ASSUME NEW n \in 0..MaxRaised, NEW code \in {0, 2},
             Dispatch(n, code) \/ Finish(n, code)
      PROVE  TypeOK'
  BY <1>5, DispatchType, FinishType
<1>6. CASE LogAlert \/ LogFails \/ LogDone
  BY <1>6, LogAlertType, LogFailsType, LogDoneType
<1>7. CASE UNCHANGED vars
  BY <1>7 DEF TypeOK, vars, Source
<1> QED BY <1>1, <1>2, <1>3, <1>4, <1>5, <1>6, <1>7 DEF Next, Work, Terminated

\* Nothing has been read before the session.
LEMMA OrderInit == Init => RunOrder
BY DEF Init, RunOrder

\* Nothing is claimed of a command that has ended.
LEMMA OrderAtEnd == ASSUME NEW code \in {0, 2}, Exit(code) PROVE RunOrder'
BY DEF Exit, RunOrder

\* What has been read is a sequence of records.
LEMMA ReadSoFarType ==
    ASSUME TypeOK, Source \in Content, next <= Len(Source.records) + 1
    PROVE  ReadSoFar \in Seq(Record)
<1>1. Source.records \in Seq(Record) /\ Len(Source.records) \in Nat
  BY ContentFacts, LenProperties
<1>2. \A i \in 1..(next - 1) : Source.records[i] \in Record
  BY <1>1, ElementOfSeq DEF TypeOK
<1>3. next - 1 \in Int
  BY DEF TypeOK
<1> QED BY <1>2, <1>3, SubSeqProperties DEF ReadSoFar

\* Reading one record more.
LEMMA ReadOneMore ==
    ASSUME TypeOK, AtRecord, Source' = Source, next' = next + 1
    PROVE  /\ ReadSoFar \in Seq(Record)
           /\ ReadSoFar' = Append(ReadSoFar, Source.records[next])
<1>1. /\ Source.records \in Seq(Record) /\ next \in 1..Len(Source.records)
      /\ Len(Source.records) \in Nat
  BY AtRecordFacts, ContentFacts, LenProperties
<1> DEFINE n == next - 1
<1>2. n \in Nat /\ n < Len(Source.records) /\ n + 1 = next /\ next' - 1 = n + 1
  BY <1>1
<1>3. /\ SubSeq(Source.records, 1, n) \in Seq(Record)
      /\ SubSeq(Source.records, 1, n + 1)
            = Append(SubSeq(Source.records, 1, n), Source.records[n + 1])
  <2> HIDE DEF n
  <2> QED BY <1>1, <1>2, FirstMore
<1> QED BY <1>2, <1>3 DEF ReadSoFar

\* A file of which nothing has been read has contributed nothing.
LEMMA NothingRead ==
    ASSUME next = 1, Source \in Content
    PROVE  /\ Selection(cmd, ReadSoFar) = <<>>
           /\ next <= Len(Source.records) + 1
<1>1. ReadSoFar = <<>>
  BY SubSeqEmpty DEF ReadSoFar
<1>2. Len(Source.records) \in Nat
  BY ContentFacts, LenProperties
<1> QED BY <1>1, <1>2, SelectionOfNone

\* Opening a source: nothing is read, nothing dispatched.
LEMMA OpenSourceOrder ==
    ASSUME TypeOK, RunOrder, OpenSource PROVE RunOrder'
<1>1. Source \in Content /\ AtStart
  BY OpenedIsContent DEF OpenSource, Accepted, RunOrder
<1>2. Selection(cmd, ReadSoFar) = <<>> /\ next <= Len(Source.records) + 1
  BY <1>1, NothingRead DEF AtStart
<1>3. dispatched \o queue = <<>>
  BY <1>1 DEF AtStart
<1>4. Source' = Source /\ ReadSoFar' = ReadSoFar /\ UNCHANGED <<cmd, reader>>
  BY DEF OpenSource, Source, ReadSoFar, files, reader
<1>5. phase' = "reading" /\ cmd.verb = "run"
  BY DEF OpenSource
<1> QED BY <1>1, <1>2, <1>3, <1>4, <1>5 DEF RunOrder, reader, Selection

\* Truncating an output leaves the source as it was.
LEMMA CreateOutputOrder ==
    ASSUME TypeOK, RunOrder, CreateOutput PROVE RunOrder'
<1>1. CASE Exit(2)
  BY <1>1, OrderAtEnd
<1>2. CASE /\ disk' = [disk EXCEPT ![cmd.output] = Headless]
           /\ phase' = "heading"
           /\ UNCHANGED <<log, cmd, reader, alerts, logged, history>>
  BY <1>2 DEF CreateOutput, Accepted, RunOrder, AtStart, reader
<1> QED BY <1>1, <1>2 DEF CreateOutput

\* So does writing its header.
LEMMA WriteHeaderOrder ==
    ASSUME TypeOK, RunOrder, WriteHeader PROVE RunOrder'
<1>1. CASE Exit(2)
  BY <1>1, OrderAtEnd
<1>2. CASE /\ disk' = [disk EXCEPT ![cmd.output] = Empty]
           /\ phase' = "reading"
           /\ UNCHANGED <<log, cmd, reader, alerts, logged, history>>
  <2>1. /\ Source \in Content /\ AtStart /\ cmd.verb = "extract"
    BY DEF WriteHeader, TypeOK, RunOrder
  <2>2. Source' = Source
    BY <1>2, <2>1, SpecialContents, WrittenType DEF Source
  <2>3. next <= Len(Source.records) + 1
    BY <2>1, NothingRead DEF AtStart
  <2> QED BY <1>2, <2>1, <2>2, <2>3 DEF RunOrder, AtStart, reader
<1> QED BY <1>1, <1>2 DEF WriteHeader

\* A record that is read joins the queue with what it contributes.
LEMMA ReadRecordOrder ==
    ASSUME TypeOK, RunOrder, ReadRecord PROVE RunOrder'
<1>1. /\ Source \in Content /\ next \in 1..Len(Source.records)
      /\ Source.records[next] \in Record /\ cmd \in Commands
  BY AtRecordFacts DEF ReadRecord, TypeOK
<1>2. Source' = Source /\ UNCHANGED <<cmd, phase, dispatched>>
  BY DEF ReadRecord, Source, files
<1>3. ReadSoFar \in Seq(Record) /\ ReadSoFar' = Append(ReadSoFar, Source.records[next])
  BY <1>2, ReadOneMore DEF ReadRecord
<1>4. Selection(cmd, ReadSoFar')
         = Selection(cmd, ReadSoFar) \o Selected(cmd, Source.records[next])
  BY <1>1, <1>3, SelectionOfMore
<1>5. dispatched = Selection(cmd, ReadSoFar)
  <2>1. dispatched \o queue = Selection(cmd, ReadSoFar) /\ queue = <<>>
    BY DEF ReadRecord, AtRecord, RunOrder
  <2>2. dispatched \o <<>> = dispatched
    BY ConcatEmptySeq DEF TypeOK
  <2> QED BY <2>1, <2>2
<1>6. dispatched' \o queue' = Selection(cmd', ReadSoFar')
  BY <1>2, <1>4, <1>5 DEF ReadRecord
<1>7. next' <= Len(Source'.records) + 1
  BY <1>1, <1>2, ContentFacts DEF ReadRecord
<1>8. Selection(cmd', ReadSoFar') = Selection(cmd, ReadSoFar)'
  BY DEF Selection
<1> QED BY <1>1, <1>2, <1>6, <1>7, <1>8 DEF RunOrder, ReadRecord, AtRecord

\* A frame that is skipped has been read, and fills no queue.
LEMMA SkipFrameOrder ==
    ASSUME TypeOK, RunOrder, SkipFrame PROVE RunOrder'
<1>1. Source \in Content /\ next \in 1..Len(Source.records)
  BY AtRecordFacts DEF SkipFrame
<1>2. Source' = Source /\ UNCHANGED <<cmd, phase, queue>>
  BY DEF SkipFrame, Source, files
<1>3. next' <= Len(Source'.records) + 1
  BY <1>1, <1>2, ContentFacts DEF SkipFrame
<1> QED BY <1>1, <1>2, <1>3 DEF RunOrder, SkipFrame, AtRecord

\* A frame that is copied leaves the source alone.
LEMMA CopyLeavesSource ==
    ASSUME TypeOK, phase = "reading", cmd.verb = "extract", NEW r \in Record,
           Put(r), UNCHANGED cmd
    PROVE  Source' = Source
<1>1. PICK x \in Content : disk' = [disk EXCEPT ![cmd.output] = x]
  BY PutIsWrite
<1> QED BY <1>1, WrittenType DEF Source

\* Nor does a frame that is copied, and the output is not the source.
LEMMA CopyFrameOrder ==
    ASSUME TypeOK, RunOrder, CopyFrame PROVE RunOrder'
<1>1. CASE Exit(2)
  BY <1>1, OrderAtEnd
<1>2. CASE /\ Put(Source.records[next])
           /\ next' = next + 1
           /\ UNCHANGED <<log, cmd, phase, queue, dispatched, alerts, logged,
                          history>>
  <2>1. /\ Source \in Content /\ next \in 1..Len(Source.records)
        /\ Source.records[next] \in Record
    BY AtRecordFacts DEF CopyFrame
  <2>2. Source' = Source
    BY <1>2, <2>1, CopyLeavesSource DEF CopyFrame, AtRecord
  <2>3. next' <= Len(Source'.records) + 1
    BY <1>2, <2>1, <2>2, ContentFacts
  <2> QED BY <1>2, <2>1, <2>2, <2>3 DEF RunOrder, CopyFrame, AtRecord
<1> QED BY <1>1, <1>2 DEF CopyFrame

\* The head of the queue moves behind what was dispatched.
LEMMA HeadMoves ==
    ASSUME NEW S, NEW d \in Seq(S), NEW q \in Seq(S), q # <<>>
    PROVE  Append(d, Head(q)) \o Tail(q) = d \o q
<1>1. /\ Head(q) \in S /\ Tail(q) \in Seq(S) /\ <<Head(q)>> \in Seq(S)
  BY HeadTailProperties
<1>2. q = <<Head(q)>> \o Tail(q)
  <2>1. Len(q) \in Nat /\ 1 \in 1..Len(q) /\ Len(q) \in 1..Len(q)
    BY EmptySeq
  <2>2. SubSeq(q, 1, Len(q)) = <<q[1]>> \o SubSeq(q, 2, Len(q))
    BY <2>1, SubSeqRecursiveFirst
  <2>3. SubSeq(q, 1, Len(q)) = q /\ Tail(q) = SubSeq(q, 2, Len(q)) /\ Head(q) = q[1]
    BY SubSeqFull, TailIsSubSeq
  <2> QED BY <2>2, <2>3
<1>3. Append(d, Head(q)) = d \o <<Head(q)>>
  BY <1>1, AppendIsConcat
<1>4. (d \o <<Head(q)>>) \o Tail(q) = d \o (<<Head(q)>> \o Tail(q))
  BY <1>1, ConcatAssociative
<1> QED BY <1>2, <1>3, <1>4

\* An event leaves the queue for the sink.
LEMMA DispatchOrder ==
    ASSUME TypeOK, RunOrder, NEW n \in 0..MaxRaised, NEW code \in {0, 2},
           Dispatch(n, code)
    PROVE  RunOrder'
<1>1. CASE code # 0
  BY <1>1, OrderAtEnd DEF Dispatch
<1>2. CASE code = 0
  <2>1. /\ UNCHANGED <<phase, cmd, next>> /\ Source' = Source
        /\ ReadSoFar' = ReadSoFar
    BY <1>2 DEF Dispatch, Source, ReadSoFar, files
  <2>2. dispatched' \o queue' = dispatched \o queue
    BY HeadMoves DEF Dispatch, TypeOK
  <2>3. queue # <<>> /\ phase = "reading"
    BY DEF Dispatch
  <2>4. cmd.verb = "run"
    BY <2>3, CommandFacts DEF RunOrder, TypeOK
  <2> QED BY <2>1, <2>2, <2>3, <2>4 DEF RunOrder, Selection
<1> QED BY <1>1, <1>2

\* At the end of the source all of it has been read.
LEMMA EndOfInputOrder ==
    ASSUME TypeOK, RunOrder, EndOfInput PROVE RunOrder'
<1>1. CASE cmd.verb = "extract"
  BY <1>1, OrderAtEnd DEF EndOfInput
<1>2. CASE cmd.verb # "extract"
  <2>1. /\ phase' = "finishing" /\ UNCHANGED <<cmd, reader>> /\ Source' = Source
        /\ ReadSoFar' = ReadSoFar /\ cmd.verb = "run"
    BY <1>2, CommandFacts DEF EndOfInput, Source, ReadSoFar, files, reader, TypeOK
  <2>2. /\ queue = <<>> /\ phase = "reading" /\ Source \in Content
        /\ next <= Len(Source.records) + 1 /\ next > Len(Source.records)
    BY DEF EndOfInput, RunOrder
  <2>3. next = Len(Source.records) + 1
    <3>1. Len(Source.records) \in Nat /\ next \in Nat
      BY <2>2, ContentFacts, LenProperties DEF TypeOK
    <3> QED BY <2>2, <3>1
  <2> QED BY <2>1, <2>2, <2>3 DEF RunOrder, reader, Selection
<1> QED BY <1>1, <1>2

\* After the input nothing of it changes any more.
LEMMA AfterInputOrder ==
    ASSUME RunOrder, phase \in {"finishing", "logging"}, phase' = "logging",
           UNCHANGED <<disk, cmd, reader>>
    PROVE  RunOrder'
BY DEF RunOrder, reader, Source, ReadSoFar, Selection

\* The other actions end the command or come after the reading.
LEMMA OrderStep ==
    ASSUME TypeOK, RunOrder, [Next]_vars PROVE RunOrder'
<1>1. CASE \E c \in Commands : Begin(c)
  BY <1>1 DEF Begin, RunOrder, AtStart
<1>2. CASE Refuse \/ OpenFails \/ ReadFails \/ LogFails \/ LogDone
  BY <1>2, OrderAtEnd DEF Refuse, OpenFails, ReadFails, LogFails, LogDone
<1>3. CASE OpenSource \/ CreateOutput \/ WriteHeader
  BY <1>3, OpenSourceOrder, CreateOutputOrder, WriteHeaderOrder
<1>4. CASE ReadRecord \/ SkipFrame \/ CopyFrame \/ EndOfInput
  BY <1>4, ReadRecordOrder, SkipFrameOrder, CopyFrameOrder, EndOfInputOrder
<1>5. ASSUME NEW n \in 0..MaxRaised, NEW code \in {0, 2}, Dispatch(n, code)
      PROVE  RunOrder'
  BY <1>5, DispatchOrder
<1>6. ASSUME NEW n \in 0..MaxRaised, NEW code \in {0, 2}, Finish(n, code)
      PROVE  RunOrder'
  <2>1. CASE Exit(code)
    BY <2>1, OrderAtEnd
  <2>2. CASE phase' = "logging" /\ UNCHANGED history
    BY <1>6, <2>2, AfterInputOrder DEF Finish, files
  <2> QED BY <1>6, <2>1, <2>2 DEF Finish
<1>7. CASE LogAlert
  BY <1>7, AfterInputOrder DEF LogAlert
<1>8. CASE UNCHANGED vars
  BY <1>8 DEF vars, RunOrder, AtStart, Source, ReadSoFar, Selection
<1> QED BY <1>1, <1>2, <1>3, <1>4, <1>5, <1>6, <1>7, <1>8
        DEF Next, Work, Terminated

\* d is the beginning of d and more, and all of it if there is no more.
LEMMA PrefixOfConcat ==
    ASSUME NEW S, NEW d \in Seq(S), NEW t \in Seq(S) PROVE IsPrefix(d, d \o t)
<1>1. /\ d \o t \in Seq(S) /\ Len(d \o t) = Len(d) + Len(t)
      /\ Len(d) \in Nat /\ Len(t) \in Nat
  BY ConcatProperties
<1>2. \A i \in 1..Len(d) : (d \o t)[i] = d[i]
  BY <1>1, ConcatProperties
<1>3. SubSeq(d \o t, 1, Len(d)) = SubSeq(d, 1, Len(d))
  <2>1. /\ \A i \in 1..Len(d) : (d \o t)[i] \in S
        /\ \A i \in 1..Len(d) : d[i] \in S
    BY <1>2, ElementOfSeq
  <2>2. \A i \in 1..Len(d) : SubSeq(d \o t, 1, Len(d))[i] = SubSeq(d, 1, Len(d))[i]
    BY <1>1, <1>2
  <2>3. /\ SubSeq(d \o t, 1, Len(d)) \in Seq(S) /\ SubSeq(d, 1, Len(d)) \in Seq(S)
        /\ Len(SubSeq(d \o t, 1, Len(d))) = Len(SubSeq(d, 1, Len(d)))
    BY <1>1, <2>1, SubSeqProperties
  <2>4. Len(SubSeq(d \o t, 1, Len(d))) = Len(d)
    BY <1>1
  <2> QED BY <2>2, <2>3, <2>4, SeqEqual
<1> QED BY <1>1, <1>3 DEF IsPrefix

\* The order of the run is the order the property asks for.
LEMMA OrderShown == ASSUME TypeOK, RunOrder PROVE EventsInOrder
<1> SUFFICES ASSUME phase \in {"reading", "finishing", "logging"}, cmd.verb = "run"
             PROVE  /\ IsPrefix(dispatched, Selection(cmd, Source.records))
                    /\ phase # "reading" => dispatched = Selection(cmd, Source.records)
  BY DEF EventsInOrder
<1> DEFINE rs == Source.records
           n == next - 1
           s == Selection(cmd, rs)
<1>1. /\ Source \in Content /\ next <= Len(rs) + 1
      /\ dispatched \o queue = Selection(cmd, SubSeq(rs, 1, n))
      /\ phase # "reading" => queue = <<>> /\ next = Len(rs) + 1
  BY DEF RunOrder, ReadSoFar
<1>2. /\ rs \in Seq(Record) /\ Len(rs) \in Nat /\ cmd \in Commands /\ n \in 0..Len(rs)
      /\ dispatched \in Seq(Event) /\ queue \in Seq(Event)
  BY <1>1, ContentFacts, LenProperties DEF TypeOK
<1>3. IsPrefix(dispatched, s)
  <2>1. PICK t \in Seq(Event) : s = Selection(cmd, SubSeq(rs, 1, n)) \o t
    BY <1>2, SelectionBegins
  <2>2. (dispatched \o queue) \o t = dispatched \o (queue \o t)
    BY <1>2, ConcatAssociative
  <2>3. queue \o t \in Seq(Event)
    BY <1>2, ConcatProperties
  <2>4. s = dispatched \o (queue \o t)
    BY <1>1, <2>1, <2>2
  <2> HIDE DEF s
  <2> QED BY <1>2, <2>3, <2>4, PrefixOfConcat
<1>4. ASSUME phase # "reading" PROVE dispatched = s
  <2>1. queue = <<>> /\ n = Len(rs)
    BY <1>1, <1>2, <1>4
  <2>2. SubSeq(rs, 1, n) = rs
    BY <1>2, <2>1, SubSeqFull
  <2>3. dispatched \o <<>> = dispatched
    BY <1>2, ConcatEmptySeq
  <2> QED BY <1>1, <2>1, <2>2, <2>3
<1> QED BY <1>3, <1>4

\* The inductive invariant: the types hold of what is read only if the order of
\* the phases does, and the order of the events only if the types do.
IInv == TypeOK /\ RunOrder

\* The inductive invariant holds in every state.
LEMMA InvariantHolds == Spec => []IInv
<1>1. Init => IInv
  BY TypeInit, OrderInit DEF IInv
<1>2. IInv /\ [Next]_vars => IInv'
  BY TypeStep, OrderStep DEF IInv
<1> QED BY <1>1, <1>2, PTL DEF Spec

\* Every variable of the pipeline holds what it is declared for, in sessions of
\* any length over any files.
THEOREM TypesHold == Spec => []TypeOK
<1>1. IInv => TypeOK
  BY DEF IInv
<1> QED BY <1>1, InvariantHolds, PTL

\* The sink is handed the selected events of the file, each once and in the order
\* of the file, and the finish handlers run after all of them (runtime.rs:85-102).
THEOREM AlwaysInOrder == Spec => []EventsInOrder
<1>1. IInv => EventsInOrder
  BY OrderShown DEF IInv
<1> QED BY <1>1, InvariantHolds, PTL
-----------------------------------------------------------------------------
(* What an extract leaves behind.                                          *)

\* While a subset is written it stands for the frames read so far.
SubsetSoFar ==
    phase = "reading" /\ cmd.verb = "extract" =>
       LET subset == disk[cmd.output]
       IN  /\ subset.framed
           /\ Extension[cmd.source] = "pcap" =>
                 /\ Selection(cmd, subset.records) = Selection(cmd, ReadSoFar)
                 /\ \A j \in DOMAIN subset.records :
                       Selected(cmd, subset.records[j]) # <<>>

\* A step that ends the command enters it into the history; no other step does.
LEMMA HistorySteps ==
    ASSUME [Next]_vars PROVE UNCHANGED history \/ \E code \in {0, 2} : Exit(code)
<1>1. CASE \E c \in Commands : Begin(c)
  BY <1>1 DEF Begin
<1>2. CASE Refuse \/ OpenFails \/ OpenSource \/ CreateOutput \/ WriteHeader
  BY <1>2 DEF Refuse, OpenFails, OpenSource, CreateOutput, WriteHeader
<1>3. CASE ReadFails \/ ReadRecord \/ SkipFrame \/ CopyFrame \/ EndOfInput
  BY <1>3 DEF ReadFails, ReadRecord, SkipFrame, CopyFrame, EndOfInput
<1>4. ASSUME NEW n \in 0..MaxRaised, NEW code \in {0, 2},
             Dispatch(n, code) \/ Finish(n, code)
      PROVE  UNCHANGED history \/ \E k \in {0, 2} : Exit(k)
  <2>1. UNCHANGED history \/ Exit(code)
    BY <1>4 DEF Dispatch, Finish
  <2> QED BY <2>1
<1>5. CASE LogAlert \/ LogFails \/ LogDone
  BY <1>5 DEF LogAlert, LogFails, LogDone
<1>6. CASE UNCHANGED vars
  BY <1>6 DEF vars
<1> QED BY <1>1, <1>2, <1>3, <1>4, <1>5, <1>6 DEF Next, Work, Terminated

\* An extract that writes goes on writing or ends.
LEMMA WriterSteps ==
    ASSUME [Next]_vars, phase \in {"heading", "reading"}, cmd.verb = "extract"
    PROVE  /\ UNCHANGED cmd
           /\ phase' \in {"heading", "reading"} \/ \E code \in {0, 2} : Exit(code)
<1> DEFINE Goal == /\ UNCHANGED cmd
                   /\ \/ phase' \in {"heading", "reading"}
                      \/ \E code \in {0, 2} : Exit(code)
<1>1. CASE \E c \in Commands : Begin(c)
  BY <1>1 DEF Begin
<1>2. CASE Refuse \/ OpenFails \/ OpenSource \/ CreateOutput \/ WriteHeader
  BY <1>2 DEF Refuse, OpenFails, OpenSource, CreateOutput, WriteHeader, Accepted
<1>3. CASE ReadFails \/ ReadRecord \/ SkipFrame \/ CopyFrame \/ EndOfInput
  BY <1>3 DEF ReadFails, ReadRecord, SkipFrame, CopyFrame, EndOfInput, AtRecord
<1>4. ASSUME NEW n \in 0..MaxRaised, NEW code \in {0, 2},
             Dispatch(n, code) \/ Finish(n, code)
      PROVE  Goal
  <2>1. Dispatch(n, code)
    BY <1>4 DEF Finish
  <2>2. UNCHANGED cmd /\ (UNCHANGED phase \/ Exit(code))
    BY <2>1 DEF Dispatch
  <2> QED BY <2>2
<1>5. CASE LogAlert \/ LogFails \/ LogDone
  BY <1>5 DEF LogAlert, LogFails, LogDone
<1>6. CASE UNCHANGED vars
  BY <1>6 DEF vars
<1> QED BY <1>1, <1>2, <1>3, <1>4, <1>5, <1>6 DEF Next, Work, Terminated

\* An extract goes on writing.
Writing == phase' \in {"heading", "reading"} /\ UNCHANGED <<cmd, history>>

\* Only an extract changes a file, its output, and then it is known to write.
LEMMA DiskSteps ==
    ASSUME TypeOK, RunOrder, [Next]_vars
    PROVE  \/ UNCHANGED disk
           \/ /\ cmd.verb = "extract"
              /\ \E x \in Content : disk' = [disk EXCEPT ![cmd.output] = x]
              /\ Writing \/ (phase = "reading" /\ UNCHANGED cmd /\ Exit(2))
<1>1. CASE UNCHANGED <<files>>
  BY <1>1 DEF files
<1>2. CASE CreateOutput \/ WriteHeader
  BY <1>2, SpecialContents
     DEF CreateOutput, WriteHeader, RunOrder, Writing, files
<1>3. CASE CopyFrame
  <2>1. /\ phase = "reading" /\ cmd.verb = "extract"
        /\ Source.records[next] \in Record
    BY <1>3, AtRecordFacts DEF CopyFrame, AtRecord
  <2>2. CASE Put(Source.records[next])
    <3>1. \E x \in Content : disk' = [disk EXCEPT ![cmd.output] = x]
      BY <2>1, <2>2, PutIsWrite
    <3> QED BY <1>3, <2>1, <3>1 DEF CopyFrame, Writing
  <2>3. CASE Put(Damaged)
    <3>1. \E x \in Content : disk' = [disk EXCEPT ![cmd.output] = x]
      BY <2>1, <2>3, SpecialContents, PutIsWrite
    <3> QED BY <1>3, <2>1, <3>1 DEF CopyFrame, Writing
  <2> QED BY <1>3, <2>2, <2>3 DEF CopyFrame
<1>4. CASE \E c \in Commands : Begin(c)
  BY <1>4, <1>1 DEF Begin
<1>5. CASE Refuse \/ OpenFails \/ OpenSource \/ ReadFails \/ ReadRecord \/ SkipFrame
             \/ EndOfInput
  BY <1>5, <1>1 DEF Refuse, OpenFails, OpenSource, ReadFails, ReadRecord, SkipFrame,
     EndOfInput
<1>6. ASSUME NEW n \in 0..MaxRaised, NEW code \in {0, 2},
             Dispatch(n, code) \/ Finish(n, code)
      PROVE  UNCHANGED disk
  BY <1>6 DEF Dispatch, Finish, files
<1>7. CASE LogAlert \/ LogFails \/ LogDone
  BY <1>7 DEF LogAlert, LogFails, LogDone, files
<1>8. CASE UNCHANGED vars
  BY <1>8 DEF vars
<1> QED BY <1>2, <1>3, <1>4, <1>5, <1>6, <1>7, <1>8 DEF Next, Work, Terminated

\* What is recorded stays as it is; a command that ends is the last entry.
LEMMA HistoryGrows ==
    ASSUME TypeOK, [Next]_vars
    PROVE  /\ Len(history) \in Nat
           /\ DOMAIN history = 1..Len(history)
           /\ DOMAIN history \subseteq DOMAIN history'
           /\ \A i \in DOMAIN history : history'[i] = history[i]
<1>1. history \in Seq(Ending) /\ Len(history) \in Nat /\ DOMAIN history = 1..Len(history)
  BY LenProperties DEF TypeOK
<1>2. CASE UNCHANGED history
  BY <1>1, <1>2
<1>3. ASSUME NEW code \in {0, 2}, Exit(code)
      PROVE  /\ DOMAIN history \subseteq DOMAIN history'
             /\ \A i \in DOMAIN history : history'[i] = history[i]
  BY <1>1, <1>3 DEF Exit
<1> QED BY <1>1, <1>2, <1>3, HistorySteps

\* The command that ends is the last in the history.
LEMMA ExitAppends ==
    ASSUME TypeOK, NEW code \in {0, 2}, Exit(code)
    PROVE  /\ DOMAIN history' = DOMAIN history \cup {Len(history) + 1}
           /\ Len(history') = Len(history) + 1
           /\ history'[Len(history) + 1]
                 = [cmd |-> cmd, code |-> code, at |-> phase, alerts |-> alerts']
<1>1. history \in Seq(Ending) /\ Len(history) \in Nat /\ DOMAIN history = 1..Len(history)
  BY LenProperties DEF TypeOK
<1> QED BY <1>1 DEF Exit

\* c creates a file of the earlier command anew.
Writes(c, old) == c.verb = "extract" /\ c.output \in {old.output, old.source}

\* What has been overwritten stays so ...
LEMMA OverwrittenStays ==
    ASSUME TypeOK, [Next]_vars, NEW i \in DOMAIN history, Overwritten(i)
    PROVE  Overwritten(i)'
<1>1. /\ Len(history) \in Nat /\ DOMAIN history = 1..Len(history)
      /\ DOMAIN history \subseteq DOMAIN history'
      /\ \A j \in DOMAIN history : history'[j] = history[j]
  BY HistoryGrows
<1>2. CASE Writes(cmd, history[i].cmd) /\ phase \in {"heading", "reading"}
  <2>1. UNCHANGED cmd
    BY <1>2, WriterSteps DEF Writes
  <2>2. CASE phase' \in {"heading", "reading"}
    BY <1>1, <1>2, <2>1, <2>2 DEF Overwritten, Writes
  <2>3. ASSUME NEW code \in {0, 2}, Exit(code) PROVE Overwritten(i)'
    <3> DEFINE j == Len(history) + 1
    <3>1. j \in DOMAIN history' /\ history'[j].cmd = cmd /\ history'[j].at = phase
      BY <2>3, ExitAppends
    <3>2. j > i
      BY <1>1
    <3> HIDE DEF j
    <3> QED BY <1>1, <1>2, <3>1, <3>2 DEF Overwritten, Writes
  <2> QED BY <1>2, <2>2, <2>3, WriterSteps DEF Writes
<1>3. CASE \E j \in DOMAIN history : /\ j > i
                                     /\ Writes(history[j].cmd, history[i].cmd)
                                     /\ history[j].at # "opening"
  BY <1>1, <1>3 DEF Overwritten, Writes
<1> QED BY <1>2, <1>3 DEF Overwritten, Writes

\* ... and what has not been is as it was.
LEMMA KeptFiles ==
    ASSUME TypeOK, RunOrder, [Next]_vars, NEW i \in DOMAIN history,
           ~(Overwritten(i)'),
           NEW p \in {history[i].cmd.output, history[i].cmd.source}
    PROVE  disk'[p] = disk[p]
<1>1. SUFFICES ASSUME disk'[p] # disk[p] PROVE FALSE
  OBVIOUS
<1>2. /\ Len(history) \in Nat /\ DOMAIN history = 1..Len(history)
      /\ DOMAIN history \subseteq DOMAIN history'
      /\ \A j \in DOMAIN history : history'[j] = history[j]
  BY HistoryGrows
<1>3. /\ cmd.verb = "extract"
      /\ \E x \in Content : disk' = [disk EXCEPT ![cmd.output] = x]
      /\ Writing \/ (phase = "reading" /\ UNCHANGED cmd /\ Exit(2))
  BY <1>1, DiskSteps
<1>4. p = cmd.output
  BY <1>1, <1>3 DEF TypeOK
<1>5. CASE Writing
  BY <1>2, <1>3, <1>4, <1>5 DEF Writing, Overwritten
<1>6. CASE phase = "reading" /\ UNCHANGED cmd /\ Exit(2)
  <2> DEFINE j == Len(history) + 1
  <2>1. j \in DOMAIN history' /\ history'[j].cmd = cmd /\ history'[j].at = "reading"
    BY <1>6, ExitAppends
  <2>2. j > i
    BY <1>2
  <2> HIDE DEF j
  <2> QED BY <1>2, <1>3, <1>4, <2>1, <2>2 DEF Overwritten
<1> QED BY <1>3, <1>5, <1>6

\* An extract ends well only at the end of its input.
LEMMA ExtractEndsWell ==
    ASSUME TypeOK, RunOrder, [Next]_vars, cmd.verb = "extract", Exit(0)
    PROVE  EndOfInput
<1>0. history \in Seq(Ending)
  BY DEF TypeOK
<1>1. history' # history
  <2>1. Len(history) \in Nat /\ Len(history') = Len(history) + 1
    BY ExitAppends, LenProperties DEF TypeOK
  <2> QED BY <2>1
<1>2. ~Exit(2)
  <2>1. SUFFICES ASSUME Exit(2) PROVE FALSE
    OBVIOUS
  <2>2. /\ history'[Len(history) + 1].code = 0
        /\ history'[Len(history) + 1].code = 2
    BY <2>1, ExitAppends
  <2> QED BY <2>2
<1>3. ~(\E c \in Commands : Begin(c)) /\ ~OpenSource /\ ~ReadRecord /\ ~SkipFrame
        /\ ~LogAlert /\ ~UNCHANGED vars
  BY <1>1 DEF Begin, OpenSource, ReadRecord, SkipFrame, LogAlert, vars
<1>4. ~Refuse /\ ~OpenFails /\ ~CreateOutput /\ ~WriteHeader /\ ~ReadFails
        /\ ~CopyFrame /\ ~LogFails
  BY <1>1, <1>2 DEF Refuse, OpenFails, CreateOutput, WriteHeader, ReadFails,
     CopyFrame, LogFails
<1>5. ~LogDone /\ \A n \in 0..MaxRaised, code \in {0, 2} :
                     ~Dispatch(n, code) /\ ~Finish(n, code)
  BY DEF LogDone, Dispatch, Finish, RunOrder
<1> QED BY <1>3, <1>4, <1>5 DEF Next, Work, Terminated

\* The body of ExtractFeedsRun.
Feeds(c, subset, whole) ==
    /\ subset.framed
    /\ Selection(c, subset.records) = Selection(c, whole.records)
    /\ \A j \in DOMAIN subset.records : Selected(c, subset.records[j]) # <<>>

\* A subset that has been finished goes on to feed a run.
LEMMA FeedsStep ==
    ASSUME TypeOK, RunOrder, SubsetSoFar, ExtractFeedsRun, [Next]_vars
    PROVE  ExtractFeedsRun'
<1>1. /\ Len(history) \in Nat /\ DOMAIN history = 1..Len(history)
      /\ DOMAIN history \subseteq DOMAIN history'
      /\ \A j \in DOMAIN history : history'[j] = history[j]
  BY HistoryGrows
<1>2. SUFFICES ASSUME NEW i \in DOMAIN history', history'[i].cmd.verb = "extract",
                      Extension[history'[i].cmd.source] = "pcap",
                      history'[i].code = 0, ~(Overwritten(i)')
               PROVE  Feeds(history'[i].cmd, disk'[history'[i].cmd.output],
                            disk'[history'[i].cmd.source])
  BY DEF ExtractFeedsRun, Feeds, Selection
<1>3. CASE i \in DOMAIN history
  <2> DEFINE c == history[i].cmd
  <2>1. history'[i] = history[i] /\ ~Overwritten(i)
    BY <1>1, <1>2, <1>3, OverwrittenStays
  <2>2. disk'[c.output] = disk[c.output] /\ disk'[c.source] = disk[c.source]
    BY <1>2, <1>3, KeptFiles
  <2>3. Feeds(c, disk[c.output], disk[c.source])
    BY <1>2, <1>3, <2>1 DEF ExtractFeedsRun, Feeds
  <2> QED BY <2>1, <2>2, <2>3
<1>4. CASE i \notin DOMAIN history
  <2>1. PICK code \in {0, 2} : Exit(code)
    BY <1>2, <1>4, HistorySteps
  <2>2. i = Len(history) + 1 /\ history'[i].cmd = cmd /\ history'[i].code = code
    BY <1>2, <1>4, <2>1, ExitAppends
  <2>3. EndOfInput
    BY <1>2, <2>1, <2>2, ExtractEndsWell
  <2>4. /\ phase = "reading" /\ UNCHANGED disk /\ cmd.verb = "extract"
        /\ next > Len(Source.records)
    BY <1>2, <2>2, <2>3 DEF EndOfInput, files
  <2>5. Source \in Content /\ next <= Len(Source.records) + 1
    BY <2>4 DEF RunOrder
  <2>6. next - 1 = Len(Source.records) /\ Source.records \in Seq(Record)
    <3>1. Len(Source.records) \in Nat /\ next \in Nat /\ Source.records \in Seq(Record)
      BY <2>5, ContentFacts, LenProperties DEF TypeOK
    <3> QED BY <2>4, <2>5, <3>1
  <2>7. ReadSoFar = Source.records
    BY <2>6, SubSeqFull DEF ReadSoFar
  <2>8. Feeds(cmd, disk[cmd.output], Source)
    BY <1>2, <2>2, <2>4, <2>7 DEF SubsetSoFar, Feeds
  <2> QED BY <2>2, <2>4, <2>8 DEF Source
<1> QED BY <1>3, <1>4

\* Copying a frame that is wanted adds to the subset what it adds to the source.
LEMMA CopyFeeds ==
    ASSUME TypeOK, RunOrder, SubsetSoFar, CopyFrame, phase' = "reading"
    PROVE  SubsetSoFar'
<1> DEFINE r == Source.records[next]
           old == disk[cmd.output]
<1>1. /\ phase = "reading" /\ cmd.verb = "extract" /\ AtRecord /\ Wanted(cmd, r)
      /\ r \in Record /\ cmd \in Commands
  BY AtRecordFacts DEF CopyFrame, AtRecord, TypeOK
<1>2. /\ Put(r) /\ next' = next + 1 /\ UNCHANGED cmd
  BY DEF CopyFrame, Exit
<1>3. PICK x \in Content : /\ x.framed = old.framed
                           /\ x.records = Append(old.records, r)
                           /\ disk' = [disk EXCEPT ![cmd.output] = x]
  BY <1>1, <1>2, PutIsWrite
<1>4. Source' = Source
  BY <1>1, <1>2, CopyLeavesSource
<1>5. ReadSoFar \in Seq(Record) /\ ReadSoFar' = Append(ReadSoFar, r)
  BY <1>1, <1>2, <1>4, ReadOneMore
<1>6. old \in Content /\ old.records \in Seq(Record) /\ disk'[cmd.output] = x
  BY <1>1, <1>3, ContentFacts, CommandFacts DEF TypeOK
<1>7. x.framed
  BY <1>1, <1>3 DEF SubsetSoFar
<1>8. ASSUME Extension[cmd.source] = "pcap"
      PROVE  /\ Selection(cmd, x.records) = Selection(cmd, ReadSoFar')
             /\ \A j \in DOMAIN x.records : Selected(cmd, x.records[j]) # <<>>
  <2>1. /\ Selection(cmd, old.records) = Selection(cmd, ReadSoFar)
        /\ \A j \in DOMAIN old.records : Selected(cmd, old.records[j]) # <<>>
    BY <1>1, <1>8 DEF SubsetSoFar
  <2>2. /\ Selection(cmd, x.records) = Selection(cmd, old.records) \o Selected(cmd, r)
        /\ Selection(cmd, ReadSoFar') = Selection(cmd, ReadSoFar) \o Selected(cmd, r)
    BY <1>1, <1>3, <1>5, <1>6, SelectionOfMore
  <2>3. Selected(cmd, r) # <<>>
    BY <1>1, <1>8, WantedIsSelected
  <2>4. \A j \in DOMAIN x.records : x.records[j] = r \/ (j \in DOMAIN old.records
                                       /\ x.records[j] = old.records[j])
    BY <1>1, <1>3, <1>6
  <2> QED BY <2>1, <2>2, <2>3, <2>4
<1> QED BY <1>2, <1>6, <1>7, <1>8 DEF SubsetSoFar, Selection

\* Passing over a frame that is not wanted adds nothing to either.
LEMMA SkipFeeds ==
    ASSUME TypeOK, RunOrder, SubsetSoFar, SkipFrame PROVE SubsetSoFar'
<1> DEFINE r == Source.records[next]
<1>1. /\ phase = "reading" /\ cmd.verb = "extract" /\ AtRecord /\ ~Wanted(cmd, r)
      /\ r \in Record /\ cmd \in Commands
  BY AtRecordFacts DEF SkipFrame, AtRecord, TypeOK
<1>2. next' = next + 1 /\ UNCHANGED <<disk, cmd, phase>> /\ Source' = Source
  BY DEF SkipFrame, files, Source
<1>3. ReadSoFar \in Seq(Record) /\ ReadSoFar' = Append(ReadSoFar, r)
  BY <1>1, <1>2, ReadOneMore
<1>4. ASSUME Extension[cmd.source] = "pcap"
      PROVE  Selection(cmd, ReadSoFar') = Selection(cmd, ReadSoFar)
  <2>1. Selection(cmd, ReadSoFar') = Selection(cmd, ReadSoFar) \o Selected(cmd, r)
    BY <1>1, <1>3, SelectionOfMore
  <2>2. Selected(cmd, r) = <<>>
    BY <1>1, <1>4, WantedIsSelected
  <2>3. Selection(cmd, ReadSoFar) \in Seq(Event)
    BY <1>1, <1>3, SelectionType
  <2> QED BY <2>1, <2>2, <2>3, ConcatEmptySeq
<1> QED BY <1>1, <1>2, <1>4 DEF SubsetSoFar, Selection

\* The frames written go on to stand for the frames read.
LEMMA SubsetStep ==
    ASSUME TypeOK, RunOrder, SubsetSoFar, [Next]_vars PROVE SubsetSoFar'
<1>1. CASE phase' # "reading"
  BY <1>1 DEF SubsetSoFar
<1>2. ASSUME phase' = "reading", cmd'.verb # "extract" PROVE SubsetSoFar'
  BY <1>2 DEF SubsetSoFar
<1>3. ASSUME phase' = "reading", cmd'.verb = "extract" PROVE SubsetSoFar'
  <2>1. CASE (\E c \in Commands : Begin(c)) \/ Refuse \/ OpenFails \/ OpenSource
               \/ CreateOutput \/ ReadFails \/ EndOfInput
    BY <1>3, <2>1 DEF Begin, Refuse, OpenFails, OpenSource, CreateOutput, ReadFails,
       EndOfInput, Exit
  <2>2. CASE WriteHeader
    <3>1. /\ disk' = [disk EXCEPT ![cmd.output] = Empty]
          /\ UNCHANGED <<cmd, next>> /\ cmd.verb = "extract" /\ next = 1
      BY <1>3, <2>2 DEF WriteHeader, Exit, reader, RunOrder, AtStart
    <3>2. Source' = Source /\ Source \in Content /\ disk'[cmd.output] = Empty
      BY <2>2, <3>1, WrittenType, SpecialContents, CommandFacts
         DEF WriteHeader, Source, TypeOK
    <3>3. Selection(cmd, ReadSoFar) = <<>> /\ ReadSoFar' = ReadSoFar
      BY <3>1, <3>2, NothingRead DEF ReadSoFar
    <3>4. /\ Empty.framed /\ Selection(cmd, Empty.records) = <<>>
          /\ DOMAIN Empty.records = {}
      BY SelectionOfNone DEF Empty
    <3> QED BY <3>1, <3>2, <3>3, <3>4 DEF SubsetSoFar, Selection
  <2>3. CASE ReadRecord
    BY <1>3, <2>3 DEF ReadRecord
  <2>4. CASE SkipFrame
    BY <2>4, SkipFeeds
  <2>5. CASE CopyFrame
    BY <1>3, <2>5, CopyFeeds
  <2>6. ASSUME NEW n \in 0..MaxRaised, NEW code \in {0, 2},
               Dispatch(n, code) \/ Finish(n, code)
        PROVE  FALSE
    BY <1>3, <2>6 DEF Dispatch, Finish, Exit, RunOrder
  <2>7. CASE LogAlert \/ LogFails \/ LogDone
    BY <1>3, <2>7 DEF LogAlert, LogFails, LogDone, Exit
  <2>8. CASE UNCHANGED vars
    BY <2>8 DEF vars, SubsetSoFar, ReadSoFar, Source, Selection
  <2> QED BY <2>1, <2>2, <2>3, <2>4, <2>5, <2>6, <2>7, <2>8
          DEF Next, Work, Terminated
<1> QED BY <1>1, <1>2, <1>3

\* A run over what extract copied is fed what the same run over the capture is,
\* whatever commands follow that leave the two files alone (runtime.rs:104-154).
THEOREM ExtractsAlwaysFeed == Spec => []ExtractFeedsRun
<1>1. Init => SubsetSoFar /\ ExtractFeedsRun
  BY DEF Init, SubsetSoFar, ExtractFeedsRun
<1>2. IInv /\ SubsetSoFar /\ ExtractFeedsRun /\ [Next]_vars
         => (SubsetSoFar /\ ExtractFeedsRun)'
  BY SubsetStep, FeedsStep DEF IInv
<1> QED BY <1>1, <1>2, InvariantHolds, PTL DEF Spec

-----------------------------------------------------------------------------
(* What the alert log tells.                                               *)

\* LinesOf and the body of LogTellsRuns, for any lines.
Holding(ls, n) == {k \in DOMAIN ls : \E j \in DOMAIN ls[k] : ls[k][j].run = n}

ToldFrom(ls, i, ended, before, n) ==
    /\ Holding(ls, i) = (before + 1)..(before + n)
    /\ ended.code = 0 /\ ended.cmd.verb = "run" /\ ended.cmd.log =>
          n = Len(ended.alerts)
    /\ ended.code # 0 /\ ended.at # "logging" => n = 0
    /\ \A k \in 1..n :
          /\ HoldsOnly(ls[before + k], i, ended.alerts[k])
          /\ k > 1 => Head(ls[before + k]) = ended.alerts[k]
          /\ ended.code = 0 \/ k < n => Last(ls[before + k]) = ended.alerts[k]

Told(ls, i, ended) ==
    \E before \in 0..Len(ls), n \in 0..Len(ended.alerts) :
       ToldFrom(ls, i, ended, before, n)

\* The log tells the runs when it tells each of them.
LEMMA ToldIsTells ==
    /\ LogTellsRuns <=> \A i \in DOMAIN history : Told(log.lines, i, history[i])
    /\ LogTellsRuns' <=> \A i \in DOMAIN history' : Told(log'.lines, i, history'[i])
BY DEF LogTellsRuns, Told, ToldFrom, Holding, LinesOf

\* The last n lines end in the first n alerts of the run r.
Written(ls, r, n, as) ==
    /\ n <= Len(ls)
    /\ Holding(ls, r) = (Len(ls) - n + 1)..Len(ls)
    /\ \A k \in 1..n :
          /\ HoldsOnly(ls[Len(ls) - n + k], r, as[k])
          /\ k > 1 => Head(ls[Len(ls) - n + k]) = as[k]
          /\ Last(ls[Len(ls) - n + k]) = as[k]

\* ls is the lines with one entry more, in line m, which was old before.
Adds(lines, ls, m, old, a) ==
    /\ lines \in Seq(Seq(Alert)) /\ ls \in Seq(Seq(Alert))
    /\ old \in Seq(Alert) /\ a \in Alert
    /\ m \in Nat \ {0}
    /\ Len(ls) = m
    /\ \A l \in 1..(m - 1) : ls[l] = lines[l]
    /\ ls[m] = Append(old, a)
    /\ (m = Len(lines) /\ old = lines[m]) \/ (m = Len(lines) + 1 /\ old = <<>>)

\* The next entry goes into a line of its own or behind a torn one.
LEMMA WithEntryAdds ==
    ASSUME TypeOK, NEW a \in Alert
    PROVE  \E m \in Nat \ {0}, old \in Seq(Alert) :
              /\ Adds(log.lines, WithEntry(a), m, old, a)
              /\ log.torn <=> m = Len(log.lines)
<1> DEFINE lines == log.lines
           ls == WithEntry(a)
<1>1. /\ lines \in Seq(Seq(Alert)) /\ (log.torn => lines # <<>>)
      /\ Len(lines) \in Nat /\ ls \in Seq(Seq(Alert)) /\ log.torn \in BOOLEAN
  BY WithEntryType, LenProperties DEF TypeOK
<1>2. CASE log.torn
  <2> DEFINE m == Len(lines)
             old == lines[m]
  <2>1. m \in Nat \ {0} /\ m \in 1..Len(lines)
    BY <1>1, <1>2, EmptySeq
  <2>2. old \in Seq(Alert)
    BY <1>1, <2>1, ElementOfSeq
  <2>3. Append(old, a) \in Seq(Alert)
    BY <2>2, AppendProperties
  <2>4. ls = [lines EXCEPT ![m] = Append(old, a)]
    BY <1>2, <1>1, <2>1 DEF WithEntry
  <2>5. /\ Len(ls) = m /\ ls[m] = Append(old, a)
        /\ \A l \in 1..(m - 1) : ls[l] = lines[l]
    <3> HIDE DEF old, ls
    <3> QED BY <1>1, <2>1, <2>3, <2>4, ExceptSeq
  <2>6. Adds(lines, ls, m, old, a)
    <3> HIDE DEF ls
    <3> QED BY <1>1, <2>1, <2>2, <2>5 DEF Adds
  <2> HIDE DEF old, ls
  <2> QED BY <1>2, <2>1, <2>2, <2>6 DEF ls
<1>3. CASE ~log.torn
  <2> DEFINE m == Len(lines) + 1
             old == <<>>
  <2>1. m \in Nat \ {0} /\ m # Len(lines) /\ old \in Seq(Alert) /\ <<a>> \in Seq(Alert)
    BY <1>1, EmptySeq
  <2>2. ls = Append(lines, <<a>>) /\ Append(old, a) = <<a>>
    BY <1>3 DEF WithEntry
  <2>3. /\ Len(ls) = m /\ ls[m] = Append(old, a)
        /\ \A l \in 1..(m - 1) : ls[l] = lines[l]
    <3> HIDE DEF ls
    <3> QED BY <1>1, <2>1, <2>2, AppendProperties
  <2>4. Adds(lines, ls, m, old, a)
    <3> HIDE DEF ls
    <3> QED BY <1>1, <2>1, <2>3 DEF Adds
  <2> HIDE DEF ls
  <2> QED BY <1>3, <2>1, <2>4 DEF ls
<1> QED BY <1>1, <1>2, <1>3

\* The shape of the lines and of the one the entry went into.
LEMMA AddsFacts ==
    ASSUME NEW lines, NEW ls, NEW m, NEW old, NEW a, Adds(lines, ls, m, old, a)
    PROVE  /\ lines \in Seq(Seq(Alert)) /\ ls \in Seq(Seq(Alert))
           /\ old \in Seq(Alert) /\ a \in Alert /\ m \in Nat \ {0}
           /\ DOMAIN lines = 1..Len(lines) /\ DOMAIN ls = 1..m /\ Len(ls) = m
           /\ DOMAIN old = 1..Len(old) /\ Len(old) \in Nat /\ Len(lines) \in Nat
           /\ DOMAIN ls[m] = 1..(Len(old) + 1)
           /\ ls[m] \in Seq(Alert) /\ Len(ls[m]) = Len(old) + 1
           /\ ls[m][Len(old) + 1] = a
           /\ \A j \in 1..Len(old) : ls[m][j] = old[j]
<1>1. /\ lines \in Seq(Seq(Alert)) /\ ls \in Seq(Seq(Alert))
      /\ old \in Seq(Alert) /\ a \in Alert /\ m \in Nat \ {0}
      /\ Len(ls) = m /\ ls[m] = Append(old, a)
  BY DEF Adds
<1>2. /\ Append(old, a) \in Seq(Alert) /\ Len(Append(old, a)) = Len(old) + 1
      /\ \A j \in 1..Len(old) : Append(old, a)[j] = old[j]
      /\ Append(old, a)[Len(old) + 1] = a
  BY <1>1, AppendProperties
<1>3. /\ DOMAIN lines = 1..Len(lines) /\ Len(lines) \in Nat
      /\ DOMAIN ls = 1..m
      /\ DOMAIN old = 1..Len(old) /\ Len(old) \in Nat
      /\ DOMAIN Append(old, a) = 1..(Len(old) + 1)
  BY <1>1, <1>2, LenProperties
<1> QED BY <1>1, <1>2, <1>3

\* An entry of one run adds no line to those of another ...
LEMMA HoldingOthers ==
    ASSUME NEW lines, NEW ls, NEW m, NEW old, NEW a, Adds(lines, ls, m, old, a),
           NEW i \in Nat, a.run # i
    PROVE  Holding(ls, i) = Holding(lines, i)
<1>0. /\ m \in Nat \ {0} /\ Len(lines) \in Nat
      /\ m = Len(lines) \/ m = Len(lines) + 1
  BY AddsFacts DEF Adds
<1>1. /\ DOMAIN lines = 1..Len(lines) /\ DOMAIN ls = 1..m /\ m \in Nat \ {0}
      /\ DOMAIN old = 1..Len(old) /\ Len(old) \in Nat /\ Len(lines) \in Nat
      /\ DOMAIN ls[m] = 1..(Len(old) + 1)
      /\ ls[m][Len(old) + 1] = a
      /\ \A j \in 1..Len(old) : ls[m][j] = old[j]
  BY AddsFacts
<1>2. /\ \A l \in 1..(m - 1) : ls[l] = lines[l]
      /\ (m = Len(lines) /\ old = lines[m]) \/ (m = Len(lines) + 1 /\ old = <<>>)
  BY DEF Adds
<1>3. (\E j \in DOMAIN ls[m] : ls[m][j].run = i) <=> \E j \in DOMAIN old : old[j].run = i
  BY <1>1
<1>4. ASSUME NEW k PROVE k \in Holding(ls, i) <=> k \in Holding(lines, i)
  <2>1. CASE k \in 1..(m - 1)
    <3>1. ls[k] = lines[k]
      BY <1>2, <2>1
    <3>2. k \in 1..m /\ k \in 1..Len(lines)
      BY <1>0, <2>1
    <3>3. k \in DOMAIN ls /\ k \in DOMAIN lines
      BY <1>1, <3>2, Zenon
    <3> QED BY <3>1, <3>3, Zenon DEF Holding
  <2>2. CASE k = m
    <3>1. k \in Holding(ls, i) <=> \E j \in DOMAIN old : old[j].run = i
      BY <1>1, <1>3, <2>2 DEF Holding
    <3>2. CASE m = Len(lines) /\ old = lines[m]
      BY <1>1, <2>2, <3>1, <3>2 DEF Holding
    <3>3. CASE m = Len(lines) + 1 /\ old = <<>>
      <4>1. k \notin DOMAIN lines /\ DOMAIN old = {}
        BY <1>1, <2>2, <3>3
      <4> QED BY <3>1, <4>1 DEF Holding
    <3> QED BY <1>2, <3>2, <3>3
  <2>3. CASE k \notin 1..m
    <3>1. k \notin DOMAIN ls /\ k \notin DOMAIN lines
      BY <1>1, <1>2, <2>3
    <3> QED BY <3>1 DEF Holding
  <2>4. k \in 1..(m - 1) \/ k = m \/ k \notin 1..m
    BY <1>1
  <2> QED BY <2>1, <2>2, <2>3, <2>4
<1> QED BY <1>4

\* ... and the line it is in to its own.
LEMMA HoldingOwn ==
    ASSUME NEW lines, NEW ls, NEW m, NEW old, NEW a, Adds(lines, ls, m, old, a)
    PROVE  Holding(ls, a.run) = Holding(lines, a.run) \cup {m}
<1>0. /\ m \in Nat \ {0} /\ Len(lines) \in Nat
      /\ m = Len(lines) \/ m = Len(lines) + 1
  BY AddsFacts DEF Adds
<1>1. /\ DOMAIN lines = 1..Len(lines) /\ DOMAIN ls = 1..m /\ m \in Nat \ {0}
      /\ DOMAIN old = 1..Len(old) /\ Len(old) \in Nat /\ Len(lines) \in Nat
      /\ DOMAIN ls[m] = 1..(Len(old) + 1)
      /\ ls[m][Len(old) + 1] = a
  BY AddsFacts
<1>2. /\ \A l \in 1..(m - 1) : ls[l] = lines[l]
      /\ m = Len(lines) \/ m = Len(lines) + 1
  BY DEF Adds
<1>3. m \in Holding(ls, a.run)
  BY <1>1 DEF Holding
<1>4. ASSUME NEW k, k # m
      PROVE  k \in Holding(ls, a.run) <=> k \in Holding(lines, a.run)
  <2>1. CASE k \in 1..(m - 1)
    <3>1. ls[k] = lines[k]
      BY <1>2, <2>1
    <3>2. k \in 1..m /\ k \in 1..Len(lines)
      BY <1>0, <2>1
    <3>3. k \in DOMAIN ls /\ k \in DOMAIN lines
      BY <1>1, <3>2, Zenon
    <3> QED BY <3>1, <3>3, Zenon DEF Holding
  <2>2. CASE k \notin 1..m
    <3>1. k \notin 1..m /\ k \notin 1..Len(lines)
      BY <1>0, <2>2
    <3>2. k \notin DOMAIN ls /\ k \notin DOMAIN lines
      BY <1>1, <3>1, Zenon
    <3> QED BY <3>2, Zenon DEF Holding
  <2>3. k \in 1..(m - 1) \/ k \notin 1..m
    BY <1>1, <1>4
  <2> QED BY <2>1, <2>2, <2>3
<1> QED BY <1>3, <1>4

\* Alerts of one run.
OfRun(as, r) == \A k \in DOMAIN as : as[k].run = r

\* Every line has an entry.
NoBlanks(lines) == \A l \in DOMAIN lines : lines[l] # <<>>

\* An alert stays the only one of its run when another run continues the line.
LEMMA HoldsOnlyMore ==
    ASSUME NEW l \in Seq(Alert), NEW a \in Alert, NEW i, NEW x, a.run # i,
           HoldsOnly(l, i, x)
    PROVE  HoldsOnly(Append(l, a), i, x)
<1>1. PICK j \in DOMAIN l : l[j] = x /\ \A k \in DOMAIN l : l[k].run = i => k = j
  BY DEF HoldsOnly
<1>2. /\ DOMAIN l = 1..Len(l) /\ DOMAIN Append(l, a) = 1..(Len(l) + 1)
      /\ Len(l) \in Nat
      /\ \A k \in 1..Len(l) : Append(l, a)[k] = l[k]
      /\ Append(l, a)[Len(l) + 1] = a
  BY AppendProperties, LenProperties
<1>3. j \in DOMAIN Append(l, a) /\ Append(l, a)[j] = x
  BY <1>1, <1>2
<1>4. ASSUME NEW k \in DOMAIN Append(l, a), Append(l, a)[k].run = i PROVE k = j
  <2>1. k # Len(l) + 1
    BY <1>2, <1>4
  <2>2. k \in 1..Len(l)
    BY <1>2, <2>1
  <2> QED BY <1>1, <1>2, <1>4, <2>2
<1> QED BY <1>3, <1>4 DEF HoldsOnly

\* An entry of another run takes nothing from what the log tells of a run that has
\* ended, though it may continue the last line of that run.
LEMMA ToldStays ==
    ASSUME NEW lines, NEW ls, NEW m, NEW old, NEW a, Adds(lines, ls, m, old, a),
           NEW i \in Nat, a.run # i, NEW ended, ended.alerts \in Seq(Alert),
           OfRun(ended.alerts, i), NoBlanks(lines),
           m = Len(lines) => Last(old).run # i \/ ended.code # 0,
           Told(lines, i, ended)
    PROVE  Told(ls, i, ended)
<1>1. PICK before \in 0..Len(lines), n \in 0..Len(ended.alerts) :
         ToldFrom(lines, i, ended, before, n)
  BY DEF Told
<1>2. Holding(ls, i) = Holding(lines, i)
  BY HoldingOthers
<1>3. /\ m \in Nat \ {0} /\ Len(lines) \in Nat /\ Len(ls) = m
      /\ m = Len(lines) \/ m = Len(lines) + 1
  BY AddsFacts DEF Adds
<1>4. Len(ended.alerts) \in Nat /\ DOMAIN ended.alerts = 1..Len(ended.alerts)
  BY LenProperties
<1>5. before \in Nat /\ n \in Nat /\ before \in 0..Len(ls)
  BY <1>1, <1>3, <1>4
<1>6. Holding(lines, i) = (before + 1)..(before + n)
  BY <1>1 DEF ToldFrom
<1>7. \A k \in 1..n : before + k \in Holding(lines, i)
  BY <1>5, <1>6
<1>8. Holding(lines, i) \subseteq 1..Len(lines)
  <2>1. DOMAIN lines = 1..Len(lines)
    BY AddsFacts
  <2> QED BY <2>1 DEF Holding
<1>9. ASSUME NEW k \in 1..n
      PROVE  /\ HoldsOnly(ls[before + k], i, ended.alerts[k])
             /\ k > 1 => Head(ls[before + k]) = ended.alerts[k]
             /\ ended.code = 0 \/ k < n => Last(ls[before + k]) = ended.alerts[k]
  <2> DEFINE l == before + k
  <2>1. /\ HoldsOnly(lines[l], i, ended.alerts[k])
        /\ k > 1 => Head(lines[l]) = ended.alerts[k]
        /\ ended.code = 0 \/ k < n => Last(lines[l]) = ended.alerts[k]
    BY <1>1 DEF ToldFrom
  <2>2. l \in 1..Len(lines) /\ l \in Nat
    BY <1>5, <1>7, <1>8
  <2>3. CASE l # m
    <3>1. l \in 1..(m - 1)
      BY <1>3, <2>2, <2>3
    <3>2. ls[l] = lines[l]
      BY <3>1 DEF Adds
    <3> QED BY <2>1, <3>2
  <2>4. CASE l = m
    <3>1. m = Len(lines)
      BY <1>3, <2>2, <2>4
    <3>2. old = lines[m] /\ ls[m] = Append(old, a) /\ old \in Seq(Alert) /\ a \in Alert
      BY <1>3, <3>1 DEF Adds
    <3>3. HoldsOnly(ls[l], i, ended.alerts[k])
      <4>1. HoldsOnly(old, i, ended.alerts[k])
        BY <2>1, <2>4, <3>2
      <4>2. HoldsOnly(Append(old, a), i, ended.alerts[k])
        BY <3>2, <4>1, HoldsOnlyMore
      <4> QED BY <2>4, <3>2, <4>2
    <3>4. old # <<>>
      <4>1. l \in DOMAIN lines
        BY <2>2, AddsFacts
      <4> QED BY <2>4, <3>2, <4>1 DEF NoBlanks
    <3>5. Head(ls[l]) = Head(lines[l])
      BY <2>4, <3>2, <3>4, HeadTailAppend
    <3>6. ~(ended.code = 0 \/ k < n)
      <4>1. SUFFICES ASSUME ended.code = 0 \/ k < n PROVE FALSE
        OBVIOUS
      <4>2. Last(old) = ended.alerts[k]
        BY <2>1, <2>4, <3>2, <4>1
      <4>3. k \in DOMAIN ended.alerts
        BY <1>4, <1>5, <1>1
      <4>4. Last(old).run = i
        BY <4>2, <4>3 DEF OfRun
      <4>5. k < n
        BY <3>1, <4>1, <4>4
      <4>6. before + (k + 1) \in Holding(lines, i)
        BY <1>5, <1>7, <4>5
      <4>7. before + (k + 1) <= Len(lines)
        BY <1>8, <4>6
      <4> QED BY <1>5, <2>4, <3>1, <4>7
    <3> QED BY <2>1, <3>3, <3>5, <3>6
  <2> QED BY <2>3, <2>4
<1>10. ToldFrom(ls, i, ended, before, n)
  BY <1>1, <1>2, <1>9 DEF ToldFrom
<1> QED BY <1>1, <1>5, <1>10 DEF Told

\* The entry written next continues what has been written of its run; only its
\* first may continue a line.
LEMMA WrittenMore ==
    ASSUME NEW lines, NEW ls, NEW m, NEW old, NEW a, Adds(lines, ls, m, old, a),
           NEW n \in Nat, NEW as, Written(lines, a.run, n, as), as[n + 1] = a,
           m = Len(lines) => n = 0
    PROVE  Written(ls, a.run, n + 1, as)
<1>1. /\ m \in Nat \ {0} /\ Len(lines) \in Nat /\ Len(ls) = m
      /\ m = Len(lines) \/ m = Len(lines) + 1
  BY AddsFacts DEF Adds
<1>2. /\ n <= Len(lines)
      /\ Holding(lines, a.run) = (Len(lines) - n + 1)..Len(lines)
  BY DEF Written
<1>3. n + 1 <= Len(ls)
  BY <1>1, <1>2
<1>4. Holding(ls, a.run) = (Len(ls) - (n + 1) + 1)..Len(ls)
  <2>1. Holding(ls, a.run) = Holding(lines, a.run) \cup {m}
    BY HoldingOwn
  <2>2. CASE m = Len(lines)
    <3>1. n = 0
      BY <2>2
    <3>2. (Len(lines) - n + 1)..Len(lines) = {}
      BY <1>1, <3>1
    <3>3. (Len(ls) - (n + 1) + 1)..Len(ls) = {m}
      BY <1>1, <3>1
    <3> QED BY <1>2, <2>1, <3>2, <3>3
  <2>3. CASE m = Len(lines) + 1
    <3>1. ((Len(lines) - n + 1)..Len(lines)) \cup {m} = (Len(ls) - (n + 1) + 1)..Len(ls)
      BY <1>1, <1>2, <2>3
    <3> QED BY <1>2, <2>1, <3>1
  <2> QED BY <1>1, <2>2, <2>3
<1>5. ASSUME NEW k \in 1..(n + 1)
      PROVE  /\ HoldsOnly(ls[Len(ls) - (n + 1) + k], a.run, as[k])
             /\ k > 1 => Head(ls[Len(ls) - (n + 1) + k]) = as[k]
             /\ Last(ls[Len(ls) - (n + 1) + k]) = as[k]
  <2>1. CASE k \in 1..n
    <3>1. m = Len(lines) + 1
      BY <1>1, <2>1
    <3> DEFINE l == Len(lines) - n + k
    <3>2. Len(ls) - (n + 1) + k = l /\ l \in 1..(m - 1)
      BY <1>1, <1>2, <2>1, <3>1
    <3>3. ls[l] = lines[l]
      BY <3>2 DEF Adds
    <3>4. /\ HoldsOnly(lines[l], a.run, as[k])
          /\ k > 1 => Head(lines[l]) = as[k]
          /\ Last(lines[l]) = as[k]
      BY <2>1 DEF Written
    <3> QED BY <3>2, <3>3, <3>4
  <2>2. CASE k = n + 1
    <3>1. Len(ls) - (n + 1) + k = m /\ as[k] = a
      <4>1. Len(ls) = m /\ m \in Nat
        BY <1>1
      <4>2. m - (n + 1) + k = m
        BY <4>1, <2>2
      <4> QED BY <4>1, <4>2, <2>2
    <3>2. /\ DOMAIN old = 1..Len(old) /\ Len(old) \in Nat
          /\ DOMAIN ls[m] = 1..(Len(old) + 1) /\ Len(ls[m]) = Len(old) + 1
          /\ ls[m][Len(old) + 1] = a
          /\ \A j \in 1..Len(old) : ls[m][j] = old[j]
      BY AddsFacts
    <3>3. (m = Len(lines) /\ old = lines[m]) \/ (m = Len(lines) + 1 /\ old = <<>>)
      BY DEF Adds
    <3>4. ASSUME NEW j \in 1..Len(old) PROVE old[j].run # a.run
      <4>1. m = Len(lines) /\ old = lines[m]
        <5>1. Len(old) # 0
          BY <3>2, <3>4
        <5> QED BY <3>3, <5>1
      <4>2. n = 0
        BY <4>1
      <4>3. Holding(lines, a.run) = {}
        BY <1>1, <1>2, <4>2
      <4>4. m \in DOMAIN lines /\ j \in DOMAIN lines[m]
        BY <1>1, <3>2, <4>1, AddsFacts
      <4> QED BY <4>1, <4>3, <4>4 DEF Holding
    <3>5. HoldsOnly(ls[m], a.run, a)
      <4> DEFINE p == Len(old) + 1
      <4>1. p \in DOMAIN ls[m] /\ ls[m][p] = a
        BY <3>2
      <4>2. ASSUME NEW j \in DOMAIN ls[m], ls[m][j].run = a.run PROVE j = p
        <5>1. j \in 1..Len(old) \/ j = p
          BY <3>2
        <5> QED BY <3>2, <3>4, <4>2, <5>1
      <4> HIDE DEF p
      <4> QED BY <4>1, <4>2 DEF HoldsOnly
    <3>6. Last(ls[m]) = a
      BY <3>2 DEF Last
    <3>7. ASSUME k > 1 PROVE Head(ls[m]) = a
      <4>1. old = <<>>
        BY <1>1, <2>2, <3>3, <3>7
      <4>2. ls[m] = Append(old, a)
        BY DEF Adds
      <4> QED BY <4>1, <4>2
    <3> QED BY <3>1, <3>5, <3>6, <3>7
  <2>3. k \in 1..n \/ k = n + 1
    OBVIOUS
  <2> QED BY <2>1, <2>2, <2>3
<1> QED BY <1>3, <1>4, <1>5 DEF Written

\* What has been written of a run when it ends is what the log tells of it.
LEMMA WrittenTold ==
    ASSUME NEW ls, Len(ls) \in Nat, NEW r, NEW ended, Len(ended.alerts) \in Nat,
           NEW n \in 0..Len(ended.alerts), Written(ls, r, n, ended.alerts),
           ended.code = 0 /\ ended.cmd.verb = "run" /\ ended.cmd.log =>
              n = Len(ended.alerts),
           ended.code # 0 /\ ended.at # "logging" => n = 0
    PROVE  Told(ls, r, ended)
<1> DEFINE before == Len(ls) - n
<1>1. n \in Nat /\ before \in 0..Len(ls) /\ before + n = Len(ls)
  BY DEF Written
<1>2. Holding(ls, r) = (before + 1)..(before + n)
  BY <1>1 DEF Written
<1>3. \A k \in 1..n : /\ HoldsOnly(ls[before + k], r, ended.alerts[k])
                      /\ k > 1 => Head(ls[before + k]) = ended.alerts[k]
                      /\ Last(ls[before + k]) = ended.alerts[k]
  BY DEF Written
<1> HIDE DEF before
<1>4. ToldFrom(ls, r, ended, before, n)
  BY <1>2, <1>3 DEF ToldFrom
<1> QED BY <1>1, <1>4 DEF Told

\* Nothing has been written of a run before its first entry.
LEMMA WrittenNone ==
    ASSUME NEW ls, Len(ls) \in Nat, NEW r, NEW as, NEW bs
    PROVE  /\ Holding(ls, r) = {} => Written(ls, r, 0, as)
           /\ Written(ls, r, 0, bs) => Written(ls, r, 0, as)
BY DEF Written

\* No entry is of a later run than the n-th.
UpTo(lines, n) ==
    \A l \in DOMAIN lines : \A j \in DOMAIN lines[l] : lines[l][j].run <= n

\* An alert is of the run that raised it.
AlertsOfRuns ==
    /\ phase # "idle" => OfRun(alerts, Len(history) + 1)
    /\ \A i \in DOMAIN history : OfRun(history[i].alerts, i)

\* The log holds entries of the runs so far; a torn line is of one that failed.
LogOfRuns ==
    /\ NoBlanks(log.lines)
    /\ UpTo(log.lines, Len(history) + 1)
    /\ phase # "logging" => UpTo(log.lines, Len(history))
    /\ log.torn => LET i == Last(Last(log.lines)).run
                   IN  i \in DOMAIN history /\ history[i].code # 0

\* What a run has written of its alerts.
LogSoFar ==
    /\ phase \notin {"idle", "logging"} => logged = 0
    /\ phase = "logging" =>
          Written(log.lines, Len(history) + 1, logged, alerts)

\* Inductive, beside the types and the order of the run.
LogInv == AlertsOfRuns /\ LogOfRuns /\ LogSoFar /\ LogTellsRuns

\* A run of which there is no entry yet holds no line.
LEMMA Unwritten ==
    ASSUME TypeOK, NEW n \in Nat, UpTo(log.lines, n)
    PROVE  Holding(log.lines, n + 1) = {} /\ UpTo(log.lines, n + 1)
<1>1. \A l \in DOMAIN log.lines : log.lines[l] \in Seq(Alert)
  BY ElementOfSeq, LenProperties DEF TypeOK
<1>2. ASSUME NEW l \in DOMAIN log.lines, NEW j \in DOMAIN log.lines[l]
      PROVE  log.lines[l][j].run \in Nat /\ log.lines[l][j].run <= n
  <2>1. log.lines[l][j] \in Alert
    BY <1>1, ElementOfSeq, LenProperties
  <2> QED BY <2>1 DEF Alert, UpTo
<1>3. Holding(log.lines, n + 1) = {}
  BY <1>2 DEF Holding
<1>4. UpTo(log.lines, n + 1)
  BY <1>2 DEF UpTo
<1> QED BY <1>3, <1>4

\* The alerts that are raised are of the run that raises them.
LEMMA RaiseOfRun ==
    ASSUME TypeOK, NEW n \in 0..MaxRaised, Raise(n),
           OfRun(alerts, Len(history) + 1)
    PROVE  OfRun(alerts', Len(history) + 1)
<1>1. /\ alerts' \in Seq(Alert) /\ Len(alerts') \in Nat
      /\ DOMAIN alerts' = 1..Len(alerts') /\ Len(alerts') = Len(alerts) + n
      /\ DOMAIN alerts = 1..Len(alerts) /\ Len(alerts) \in Nat
      /\ \A k \in 1..Len(alerts) : alerts'[k] = alerts[k]
      /\ \A k \in 1..Len(alerts') :
            k > Len(alerts) => alerts'[k].run = Len(history) + 1
  BY RaiseType, LenProperties DEF TypeOK
<1>2. ASSUME NEW k \in DOMAIN alerts' PROVE alerts'[k].run = Len(history) + 1
  <2>1. CASE k > Len(alerts)
    BY <1>1, <2>1
  <2>2. CASE k \in 1..Len(alerts)
    BY <1>1, <2>2 DEF OfRun
  <2>3. k > Len(alerts) \/ k \in 1..Len(alerts)
    BY <1>1
  <2> QED BY <2>1, <2>2, <2>3
<1> QED BY <1>2 DEF OfRun

\* The command goes on and has not come to its log.
GoesOn ==
    /\ phase \notin {"idle", "logging"} /\ phase' # "idle"
    /\ UNCHANGED <<log, logged, history>>
    /\ OfRun(alerts', Len(history) + 1)

\* The command ends before it comes to its log, if it has one.
EndsUnlogged(code) ==
    /\ phase \notin {"idle", "logging"}
    /\ Exit(code)
    /\ UNCHANGED <<log, logged>>
    /\ OfRun(alerts', Len(history) + 1)
    /\ code = 0 => ~(cmd.verb = "run" /\ cmd.log)

\* The steps of a session, by what they do to the log.
LEMMA LogSteps ==
    ASSUME TypeOK, RunOrder, AlertsOfRuns, [Next]_vars
    PROVE  \/ \E c \in Commands : Begin(c)
           \/ GoesOn
           \/ \E code \in {0, 2} : EndsUnlogged(code)
           \/ LogAlert \/ LogFails \/ LogDone
           \/ UNCHANGED vars
<1> DEFINE Goal == GoesOn \/ \E code \in {0, 2} : EndsUnlogged(code)
<1>1. CASE Refuse \/ OpenFails \/ ReadFails
  <2>1. /\ phase \in {"opening", "reading"} /\ Exit(2)
        /\ UNCHANGED <<log, alerts, logged>>
    BY <1>1 DEF Refuse, OpenFails, ReadFails, Accepted, AtRecord, files
  <2>2. OfRun(alerts', Len(history) + 1)
    BY <2>1 DEF AlertsOfRuns
  <2> QED BY <2>1, <2>2 DEF EndsUnlogged
<1>2. CASE OpenSource \/ CreateOutput \/ WriteHeader
  <2>1. /\ phase \in {"opening", "heading"} /\ UNCHANGED <<log, alerts, logged>>
        /\ (phase' # "idle" /\ UNCHANGED history) \/ Exit(2)
    BY <1>2 DEF OpenSource, CreateOutput, WriteHeader, Accepted, files
  <2>2. OfRun(alerts', Len(history) + 1)
    BY <2>1 DEF AlertsOfRuns
  <2> QED BY <2>1, <2>2 DEF EndsUnlogged, GoesOn
<1>3. CASE ReadRecord \/ SkipFrame \/ CopyFrame
  <2>1. /\ phase = "reading" /\ UNCHANGED <<log, alerts, logged>>
        /\ (phase' = phase /\ UNCHANGED history) \/ Exit(2)
    BY <1>3 DEF ReadRecord, SkipFrame, CopyFrame, AtRecord, files
  <2>2. OfRun(alerts', Len(history) + 1)
    BY <2>1 DEF AlertsOfRuns
  <2> QED BY <2>1, <2>2 DEF EndsUnlogged, GoesOn
<1>4. CASE EndOfInput
  <2>1. /\ phase = "reading" /\ UNCHANGED <<log, alerts, logged>>
        /\ \/ phase' = "finishing" /\ UNCHANGED history
           \/ cmd.verb = "extract" /\ Exit(0)
    BY <1>4 DEF EndOfInput, files
  <2>2. OfRun(alerts', Len(history) + 1)
    BY <2>1 DEF AlertsOfRuns
  <2> QED BY <2>1, <2>2 DEF EndsUnlogged, GoesOn
<1>5. ASSUME NEW n \in 0..MaxRaised, NEW code \in {0, 2},
             Dispatch(n, code) \/ Finish(n, code)
      PROVE  Goal
  <2>1. /\ phase \in {"reading", "finishing"} /\ UNCHANGED <<log, logged>> /\ Raise(n)
    BY <1>5 DEF Dispatch, Finish, files
  <2>2. OfRun(alerts', Len(history) + 1)
    BY <2>1, RaiseOfRun DEF AlertsOfRuns
  <2>3. \/ phase' # "idle" /\ UNCHANGED history
        \/ Exit(code) /\ (code = 0 => ~cmd.log)
    <3>1. CASE Dispatch(n, code)
      BY <2>1, <3>1 DEF Dispatch
    <3>2. CASE Finish(n, code) /\ code # 0
      BY <3>2 DEF Finish
    <3>3. CASE Finish(n, code) /\ code = 0 /\ cmd.log
      BY <3>3 DEF Finish
    <3>4. CASE Finish(n, code) /\ code = 0 /\ ~cmd.log
      BY <3>4 DEF Finish
    <3> QED BY <1>5, <3>1, <3>2, <3>3, <3>4
  <2> QED BY <2>1, <2>2, <2>3 DEF EndsUnlogged, GoesOn
<1> QED BY <1>1, <1>2, <1>3, <1>4, <1>5 DEF Next, Work, Terminated

\* The history of a command that ends, in the terms of the invariants.
LEMMA EndsTold ==
    ASSUME TypeOK, AlertsOfRuns, NEW code \in {0, 2}, Exit(code),
           alerts' \in Seq(Alert), OfRun(alerts', Len(history) + 1),
           NEW n \in 0..Len(alerts'), log'.lines \in Seq(Seq(Alert)),
           Written(log'.lines, Len(history) + 1, n, alerts'),
           code = 0 /\ cmd.verb = "run" /\ cmd.log => n = Len(alerts'),
           code # 0 /\ phase # "logging" => n = 0,
           \A i \in DOMAIN history : Told(log'.lines, i, history[i])
    PROVE  AlertsOfRuns' /\ LogTellsRuns' /\ LogSoFar'
<1> DEFINE r == Len(history) + 1
           ended == [cmd |-> cmd, code |-> code, at |-> phase, alerts |-> alerts']
<1>1. /\ DOMAIN history' = DOMAIN history \cup {r} /\ history'[r] = ended
      /\ \A i \in DOMAIN history : history'[i] = history[i]
      /\ phase' = "idle"
  <2>1. /\ history \in Seq(Ending) /\ Len(history) \in Nat
        /\ DOMAIN history = 1..Len(history)
    BY LenProperties DEF TypeOK
  <2>2. \A i \in DOMAIN history : history'[i] = history[i]
    BY <2>1 DEF Exit
  <2> QED BY <2>2, ExitAppends DEF Exit
<1>2. Len(log'.lines) \in Nat /\ Len(alerts') \in Nat
  BY LenProperties
<1> HIDE DEF r
<1>3. Told(log'.lines, r, ended)
  <2>1. /\ ended.alerts = alerts' /\ ended.code = code /\ ended.at = phase
        /\ ended.cmd = cmd
    OBVIOUS
  <2>2. Written(log'.lines, r, n, alerts')
    BY DEF r
  <2> HIDE DEF ended
  <2> QED BY <1>2, <2>1, <2>2, WrittenTold
<1>4. OfRun(ended.alerts, r)
  BY DEF r
<1> HIDE DEF ended
<1>5. LogTellsRuns'
  <2>1. ASSUME NEW i \in DOMAIN history' PROVE Told(log'.lines, i, history'[i])
    BY <1>1, <1>3, <2>1
  <2> QED BY <2>1, ToldIsTells
<1>6. AlertsOfRuns'
  <2>1. ASSUME NEW i \in DOMAIN history' PROVE OfRun(history'[i].alerts, i)
    BY <1>1, <1>4, <2>1 DEF AlertsOfRuns
  <2> QED BY <1>1, <2>1 DEF AlertsOfRuns, OfRun
<1>7. LogSoFar'
  BY <1>1 DEF LogSoFar
<1> QED BY <1>5, <1>6, <1>7

\* What the types say of the history and of the alerts.
LEMMA HistoryOf ==
    ASSUME TypeOK
    PROVE  /\ Len(history) \in Nat /\ DOMAIN history = 1..Len(history)
           /\ Len(history) + 1 \notin DOMAIN history
           /\ DOMAIN history \subseteq Nat
           /\ \A i \in DOMAIN history : history[i].alerts \in Seq(Alert)
           /\ Len(alerts) \in Nat /\ DOMAIN alerts = 1..Len(alerts)
           /\ logged \in Nat
<1>1. history \in Seq(Ending) /\ alerts \in Seq(Alert) /\ logged \in 0..Len(alerts)
  BY DEF TypeOK
<1>2. /\ Len(history) \in Nat /\ DOMAIN history = 1..Len(history)
      /\ Len(alerts) \in Nat /\ DOMAIN alerts = 1..Len(alerts)
  BY <1>1, LenProperties
<1>3. \A i \in DOMAIN history : history[i] \in Ending
  BY <1>1, <1>2, ElementOfSeq
<1>4. \A i \in DOMAIN history : history[i].alerts \in Seq(Alert)
  BY <1>3 DEF Ending
<1> QED BY <1>1, <1>2, <1>4

\* The next command leaves the log alone and has raised nothing.
LEMMA BeginTells ==
    ASSUME TypeOK, LogInv, NEW c \in Commands, Begin(c) PROVE LogInv'
<1>1. /\ phase = "idle" /\ phase' = "opening" /\ alerts' = <<>> /\ logged' = 0
      /\ UNCHANGED <<log, history>>
  BY DEF Begin, files
<1>2. AlertsOfRuns'
  BY <1>1 DEF LogInv, AlertsOfRuns, OfRun
<1>3. LogOfRuns' /\ LogSoFar'
  BY <1>1 DEF LogInv, LogOfRuns, LogSoFar
<1>4. LogTellsRuns'
  BY <1>1, ToldIsTells DEF LogInv
<1> QED BY <1>2, <1>3, <1>4 DEF LogInv

\* A command that goes on has logged nothing before it comes to that.
LEMMA GoesOnTells ==
    ASSUME TypeOK, LogInv, GoesOn PROVE LogInv'
<1>1. /\ phase \notin {"idle", "logging"} /\ phase' # "idle" /\ logged' = 0
      /\ UNCHANGED <<log, history>> /\ OfRun(alerts', Len(history) + 1)
  BY DEF GoesOn, LogInv, LogSoFar
<1>2. AlertsOfRuns'
  BY <1>1 DEF LogInv, AlertsOfRuns
<1>3. LogOfRuns'
  BY <1>1 DEF LogInv, LogOfRuns
<1>4. LogSoFar'
  <2>1. Len(log.lines) \in Nat
    BY LenProperties DEF TypeOK
  <2>2. Holding(log.lines, Len(history) + 1) = {}
    BY <1>1, HistoryOf, Unwritten DEF LogInv, LogOfRuns
  <2>3. Written(log.lines, Len(history) + 1, 0, alerts')
    BY <2>1, <2>2, WrittenNone
  <2> QED BY <1>1, <2>3 DEF LogSoFar
<1>5. LogTellsRuns'
  BY <1>1, ToldIsTells DEF LogInv
<1> QED BY <1>2, <1>3, <1>4, <1>5 DEF LogInv

\* The lines stay within the runs so far when a command ends.
LEMMA EndsOfRuns ==
    ASSUME TypeOK, NEW code \in {0, 2}, Exit(code),
           NoBlanks(log'.lines), UpTo(log'.lines, Len(history) + 1),
           log'.lines \in Seq(Seq(Alert)),
           log'.torn => LET i == Last(Last(log'.lines)).run
                        IN  \/ i \in DOMAIN history /\ history[i].code # 0
                            \/ i = Len(history) + 1 /\ code # 0
    PROVE  LogOfRuns'
<1> DEFINE r == Len(history) + 1
           i == Last(Last(log'.lines)).run
<1>1. /\ DOMAIN history' = DOMAIN history \cup {r} /\ Len(history') = r
      /\ history'[r].code = code /\ Len(history) \in Nat
      /\ \A k \in DOMAIN history : history'[k] = history[k]
      /\ phase' = "idle"
  <2>1. /\ history \in Seq(Ending) /\ Len(history) \in Nat
        /\ DOMAIN history = 1..Len(history)
    BY LenProperties DEF TypeOK
  <2>2. \A k \in DOMAIN history : history'[k] = history[k]
    BY <2>1 DEF Exit
  <2> QED BY <2>1, <2>2, ExitAppends DEF Exit
<1>2. UpTo(log'.lines, r + 1)
  <2>1. \A l \in DOMAIN log'.lines : log'.lines[l] \in Seq(Alert)
    BY ElementOfSeq, LenProperties
  <2>2. ASSUME NEW l \in DOMAIN log'.lines, NEW j \in DOMAIN log'.lines[l]
        PROVE  log'.lines[l][j].run <= r + 1
    <3>1. log'.lines[l][j] \in Alert
      BY <2>1, ElementOfSeq, LenProperties
    <3>2. log'.lines[l][j].run \in Nat /\ log'.lines[l][j].run <= r
      BY <3>1 DEF Alert, UpTo
    <3> QED BY <1>1, <3>2
  <2> QED BY <2>2 DEF UpTo
<1>3. log'.torn => i \in DOMAIN history' /\ history'[i].code # 0
  <2> HIDE DEF r
  <2>1. log'.torn => \/ i \in DOMAIN history /\ history[i].code # 0
                     \/ i = r /\ code # 0
    BY DEF r
  <2> HIDE DEF i
  <2> QED BY <1>1, <2>1
<1> QED BY <1>1, <1>2, <1>3 DEF LogOfRuns

\* A command that ends before it comes to the log has nothing in it.
LEMMA EndsUnloggedTells ==
    ASSUME TypeOK, TypeOK', LogInv, NEW code \in {0, 2}, EndsUnlogged(code)
    PROVE  LogInv'
<1>1. /\ phase \notin {"idle", "logging"} /\ Exit(code) /\ UNCHANGED log
      /\ OfRun(alerts', Len(history) + 1)
      /\ code = 0 => ~(cmd.verb = "run" /\ cmd.log)
  BY DEF EndsUnlogged
<1>2. /\ log.lines \in Seq(Seq(Alert)) /\ Len(log.lines) \in Nat
      /\ alerts' \in Seq(Alert) /\ Len(alerts') \in Nat
  BY LenProperties DEF TypeOK
<1>3. /\ Holding(log.lines, Len(history) + 1) = {}
      /\ UpTo(log.lines, Len(history) + 1) /\ NoBlanks(log.lines)
  BY <1>1, HistoryOf, Unwritten DEF LogInv, LogOfRuns
<1>4. Written(log.lines, Len(history) + 1, 0, alerts')
  BY <1>2, <1>3, WrittenNone
<1>5. \A i \in DOMAIN history : Told(log'.lines, i, history[i])
  BY <1>1, ToldIsTells DEF LogInv
<1>6. 0 \in 0..Len(alerts')
  BY <1>2
<1>7. AlertsOfRuns' /\ LogTellsRuns' /\ LogSoFar'
  BY <1>1, <1>2, <1>4, <1>5, <1>6, EndsTold DEF LogInv
<1>8. LogOfRuns'
  BY <1>1, <1>2, <1>3, EndsOfRuns DEF LogInv, LogOfRuns
<1> QED BY <1>7, <1>8 DEF LogInv

\* One more entry: it is the next of its run, and nothing that the log tells of
\* the runs before it is lost.
LEMMA EntryTells ==
    ASSUME TypeOK, LogInv, phase = "logging", logged < Len(alerts),
           NEW ls, ls = WithEntry(alerts[logged + 1])
    PROVE  /\ ls \in Seq(Seq(Alert))
           /\ NoBlanks(ls) /\ UpTo(ls, Len(history) + 1)
           /\ Written(ls, Len(history) + 1, logged + 1, alerts)
           /\ \A i \in DOMAIN history : Told(ls, i, history[i])
           /\ Last(Last(ls)).run = Len(history) + 1
<1> DEFINE r == Len(history) + 1
           a == alerts[logged + 1]
           lines == log.lines
<1>1. logged + 1 \in DOMAIN alerts /\ a \in Alert /\ a.run = r /\ r \in Nat
  <2>1. logged + 1 \in DOMAIN alerts /\ logged + 1 \in 1..Len(alerts) /\ r \in Nat
    BY HistoryOf
  <2>2. a \in Alert
    BY <2>1, ElementOfSeq DEF TypeOK
  <2> QED BY <2>1, <2>2 DEF LogInv, AlertsOfRuns, OfRun
<1>2. PICK m \in Nat \ {0}, old \in Seq(Alert) :
         Adds(lines, ls, m, old, a) /\ (log.torn <=> m = Len(lines))
  BY <1>1, WithEntryAdds
<1>3. /\ NoBlanks(lines) /\ UpTo(lines, r)
      /\ log.torn => /\ Last(Last(lines)).run \in DOMAIN history
                     /\ history[Last(Last(lines)).run].code # 0
      /\ Written(lines, r, logged, alerts)
      /\ \A i \in DOMAIN history : Told(lines, i, history[i])
      /\ \A i \in DOMAIN history : OfRun(history[i].alerts, i)
  BY ToldIsTells DEF LogInv, LogOfRuns, LogSoFar, AlertsOfRuns
<1>4. /\ lines \in Seq(Seq(Alert)) /\ ls \in Seq(Seq(Alert)) /\ Len(ls) = m
      /\ DOMAIN lines = 1..Len(lines) /\ DOMAIN ls = 1..m
      /\ ls[m] \in Seq(Alert) /\ Len(ls[m]) = Len(old) + 1
      /\ Len(old) \in Nat /\ Len(lines) \in Nat
      /\ DOMAIN ls[m] = 1..(Len(old) + 1) /\ DOMAIN old = 1..Len(old)
      /\ ls[m][Len(old) + 1] = a
      /\ \A j \in 1..Len(old) : ls[m][j] = old[j]
  BY <1>2, AddsFacts
<1>5. /\ \A l \in 1..(m - 1) : ls[l] = lines[l]
      /\ (m = Len(lines) /\ old = lines[m]) \/ (m = Len(lines) + 1 /\ old = <<>>)
  BY <1>2 DEF Adds
<1>6. log.torn => Last(old) = Last(Last(lines))
  BY <1>2, <1>4, <1>5 DEF Last
<1>7. m = Len(lines) => logged = 0
  <2>1. SUFFICES ASSUME log.torn, logged # 0 PROVE FALSE
    BY <1>2
  <2>2. logged \in 1..logged /\ logged \in DOMAIN alerts
    BY <2>1, <1>1, HistoryOf
  <2>3. Last(lines[Len(lines) - logged + logged]) = alerts[logged]
    BY <1>3, <2>2 DEF Written
  <2>4. Len(lines) - logged + logged = Len(lines)
    BY <1>4, HistoryOf
  <2>5. Last(lines[Len(lines)]).run = r
    BY <2>2, <2>3, <2>4 DEF LogInv, AlertsOfRuns, OfRun
  <2>6. Last(Last(lines)).run = r
    BY <2>5 DEF Last
  <2> QED BY <1>3, <2>1, <2>6, HistoryOf
<1>8. \A l \in 1..(m - 1) : l \in DOMAIN lines
  BY <1>4, <1>5
<1>9. NoBlanks(ls)
  <2>1. ASSUME NEW l \in 1..m PROVE ls[l] # <<>>
    <3>1. CASE l = m
      <4>1. Len(ls[m]) # 0
        BY <1>4
      <4> QED BY <3>1, <4>1
    <3>2. CASE l \in 1..(m - 1)
      <4>1. ls[l] = lines[l] /\ l \in DOMAIN lines
        BY <1>5, <1>8, <3>2
      <4> QED BY <1>3, <4>1 DEF NoBlanks
    <3> QED BY <3>1, <3>2
  <2> QED BY <1>4, <2>1 DEF NoBlanks
<1> HIDE DEF r, a, lines
<1>10. UpTo(ls, r)
  <2>1. ASSUME NEW l \in 1..m, NEW j \in DOMAIN ls[l] PROVE ls[l][j].run <= r
    <3>1. CASE l \in 1..(m - 1)
      <4>1. ls[l] = lines[l] /\ l \in DOMAIN lines
        BY <1>5, <1>8, <3>1
      <4> QED BY <1>3, <2>1, <4>1 DEF UpTo
    <3>2. CASE l = m /\ j = Len(old) + 1
      BY <1>1, <1>4, <3>2
    <3>3. CASE l = m /\ j \in 1..Len(old)
      <4>1. m = Len(lines) /\ old = lines[m]
        <5>1. Len(old) # 0
          BY <1>4, <3>3
        <5> QED BY <1>5, <5>1
      <4>2. m \in DOMAIN lines /\ j \in DOMAIN lines[m] /\ ls[l][j] = lines[m][j]
        BY <1>4, <3>3, <4>1
      <4> QED BY <1>3, <4>2 DEF UpTo
    <3>4. l \in 1..(m - 1) \/ l = m
      OBVIOUS
    <3>5. l = m => j = Len(old) + 1 \/ j \in 1..Len(old)
      BY <1>4, <2>1
    <3> QED BY <3>1, <3>2, <3>3, <3>4, <3>5
  <2> QED BY <1>4, <2>1 DEF UpTo
<1>11. Written(ls, r, logged + 1, alerts)
  <2>1. Written(lines, a.run, logged, alerts) /\ alerts[logged + 1] = a /\ logged \in Nat
    BY <1>1, <1>3, HistoryOf DEF a
  <2>2. Written(ls, a.run, logged + 1, alerts)
    BY <1>2, <1>7, <2>1, WrittenMore
  <2> QED BY <1>1, <2>2
<1>12. ASSUME NEW i \in DOMAIN history PROVE Told(ls, i, history[i])
  <2>1. i \in Nat /\ a.run # i /\ history[i].alerts \in Seq(Alert)
    BY <1>1, HistoryOf DEF r
  <2>2. m = Len(lines) => Last(old).run # i \/ history[i].code # 0
    BY <1>2, <1>3, <1>6
  <2>3. OfRun(history[i].alerts, i) /\ Told(lines, i, history[i]) /\ NoBlanks(lines)
    BY <1>3
  <2> QED BY <1>2, <2>1, <2>2, <2>3, ToldStays
<1>13. Last(Last(ls)).run = r
  <2>1. Last(ls) = ls[m] /\ Last(ls[m]) = a
    BY <1>4 DEF Last
  <2> QED BY <1>1, <2>1
<1> QED BY <1>4, <1>9, <1>10, <1>11, <1>12, <1>13 DEF r

\* An entry that is written is told.
LEMMA LogAlertTells ==
    ASSUME TypeOK, LogInv, LogAlert PROVE LogInv'
<1> DEFINE ls == WithEntry(alerts[logged + 1])
<1>1. /\ phase = "logging" /\ logged < Len(alerts) /\ UNCHANGED <<phase, alerts, history>>
      /\ log' = [lines |-> ls, torn |-> FALSE] /\ logged' = logged + 1
  BY DEF LogAlert
<1> HIDE DEF ls
<1>2. /\ NoBlanks(ls) /\ UpTo(ls, Len(history) + 1)
      /\ Written(ls, Len(history) + 1, logged + 1, alerts)
      /\ \A i \in DOMAIN history : Told(ls, i, history[i])
  BY <1>1, EntryTells DEF ls
<1>3. log'.lines = ls /\ ~log'.torn
  BY <1>1
<1>4. AlertsOfRuns'
  BY <1>1 DEF LogInv, AlertsOfRuns
<1>5. LogOfRuns'
  BY <1>1, <1>2, <1>3 DEF LogOfRuns
<1>6. LogSoFar'
  BY <1>1, <1>2, <1>3 DEF LogSoFar
<1>7. LogTellsRuns'
  BY <1>1, <1>2, <1>3, ToldIsTells
<1> QED BY <1>4, <1>5, <1>6, <1>7 DEF LogInv

\* The log tells what was written before an entry failed.
LEMMA LogFailsTells ==
    ASSUME TypeOK, LogInv, LogFails PROVE LogInv'
<1> DEFINE r == Len(history) + 1
<1>1. phase = "logging" /\ Exit(2) /\ UNCHANGED alerts
  BY DEF LogFails
<1>2. /\ alerts' \in Seq(Alert) /\ OfRun(alerts', r) /\ Len(alerts') \in Nat
      /\ logged \in 0..Len(alerts') /\ Len(alerts') = Len(alerts)
  BY <1>1, LenProperties DEF TypeOK, LogInv, AlertsOfRuns
<1>3. CASE log' = log
  <2>1. /\ log'.lines \in Seq(Seq(Alert)) /\ NoBlanks(log'.lines) /\ UpTo(log'.lines, r)
        /\ Written(log'.lines, r, logged, alerts')
        /\ \A i \in DOMAIN history : Told(log'.lines, i, history[i])
    BY <1>1, <1>3, ToldIsTells DEF LogInv, LogOfRuns, LogSoFar, TypeOK
  <2>2. AlertsOfRuns' /\ LogTellsRuns' /\ LogSoFar'
    BY <1>1, <1>2, <2>1, EndsTold DEF LogInv
  <2>3. LogOfRuns'
    BY <1>1, <1>3, <2>1, EndsOfRuns DEF LogInv, LogOfRuns
  <2> QED BY <2>2, <2>3 DEF LogInv
<1>4. CASE log' # log
  <2> DEFINE ls == WithEntry(alerts[logged + 1])
  <2>1. logged < Len(alerts) /\ log' = [lines |-> ls, torn |-> TRUE]
    BY <1>4 DEF LogFails
  <2> HIDE DEF ls
  <2>2. /\ ls \in Seq(Seq(Alert)) /\ NoBlanks(ls) /\ UpTo(ls, r)
        /\ Written(ls, r, logged + 1, alerts)
        /\ \A i \in DOMAIN history : Told(ls, i, history[i])
        /\ Last(Last(ls)).run = r
    BY <1>1, <2>1, EntryTells DEF ls
  <2>3. log'.lines = ls /\ logged + 1 \in 0..Len(alerts')
    BY <1>2, <2>1
  <2>4. Written(log'.lines, r, logged + 1, alerts')
    BY <1>1, <2>2, <2>3
  <2>5. AlertsOfRuns' /\ LogTellsRuns' /\ LogSoFar'
    BY <1>1, <1>2, <2>2, <2>3, <2>4, EndsTold DEF LogInv
  <2>6. LogOfRuns'
    BY <1>1, <2>2, <2>3, EndsOfRuns
  <2> QED BY <2>5, <2>6 DEF LogInv
<1> QED BY <1>3, <1>4

\* A run whose log is complete has told all its alerts.
LEMMA LogDoneTells ==
    ASSUME TypeOK, LogInv, LogDone PROVE LogInv'
<1> DEFINE r == Len(history) + 1
<1>1. /\ phase = "logging" /\ Exit(0) /\ UNCHANGED <<log, alerts>>
      /\ logged = Len(alerts')
  BY DEF LogDone, files
<1>2. /\ alerts' \in Seq(Alert) /\ OfRun(alerts', r) /\ Len(alerts') \in Nat
      /\ logged \in 0..Len(alerts')
  BY <1>1, LenProperties DEF TypeOK, LogInv, AlertsOfRuns
<1>3. /\ log'.lines \in Seq(Seq(Alert)) /\ NoBlanks(log'.lines) /\ UpTo(log'.lines, r)
      /\ Written(log'.lines, r, logged, alerts')
      /\ \A i \in DOMAIN history : Told(log'.lines, i, history[i])
  BY <1>1, ToldIsTells DEF LogInv, LogOfRuns, LogSoFar, TypeOK
<1>4. AlertsOfRuns' /\ LogTellsRuns' /\ LogSoFar'
  BY <1>1, <1>2, <1>3, EndsTold DEF LogInv
<1>5. LogOfRuns'
  BY <1>1, <1>3, EndsOfRuns DEF LogInv, LogOfRuns
<1> QED BY <1>4, <1>5 DEF LogInv

\* Every step of a session keeps what the log tells.
LEMMA LogStep ==
    ASSUME TypeOK, TypeOK', RunOrder, LogInv, [Next]_vars PROVE LogInv'
<1>1. CASE \E c \in Commands : Begin(c)
  BY <1>1, BeginTells
<1>2. CASE GoesOn
  BY <1>2, GoesOnTells
<1>3. CASE \E code \in {0, 2} : EndsUnlogged(code)
  BY <1>3, EndsUnloggedTells
<1>4. CASE LogAlert
  BY <1>4, LogAlertTells
<1>5. CASE LogFails
  BY <1>5, LogFailsTells
<1>6. CASE LogDone
  BY <1>6, LogDoneTells
<1>7. CASE UNCHANGED vars
  <2>1. UNCHANGED <<log, phase, alerts, logged, history>>
    BY <1>7 DEF vars
  <2> QED BY <2>1, ToldIsTells DEF LogInv, AlertsOfRuns, LogOfRuns, LogSoFar
<1> QED BY <1>1, <1>2, <1>3, <1>4, <1>5, <1>6, <1>7, LogSteps DEF LogInv

\* In sessions of any length the log tells what every run came to, for good.
THEOREM LogAlwaysTells == Spec => []LogTellsRuns
<1>1. Init => LogInv
  <2>1. ASSUME Init
        PROVE  /\ phase = "idle" /\ history = <<>> /\ log.lines = <<>> /\ ~log.torn
    BY <2>1 DEF Init
  <2> QED BY <2>1 DEF LogInv, AlertsOfRuns, LogOfRuns, LogSoFar, LogTellsRuns, NoBlanks,
                      UpTo
<1>2. IInv /\ IInv' /\ LogInv /\ [Next]_vars => LogInv'
  BY LogStep DEF IInv
<1>3. LogInv => LogTellsRuns
  BY DEF LogInv
<1> QED BY <1>1, <1>2, <1>3, InvariantHolds, PTL DEF Spec
=============================================================================
