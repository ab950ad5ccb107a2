----------------------------- MODULE LexerProofs ----------------------------
(***************************************************************************)
(* Proofs about Lexer: every token of every text is placed where it is.    *)
(***************************************************************************)
EXTENDS Lexer, NaturalsInduction, WellFoundedInduction, FiniteSetTheorems, TLAPS
-----------------------------------------------------------------------------
(* Loops.                                                                  *)

\* A set that holds 0 and the successor of each of its elements holds every number.
LEMMA SetInduction ==
    ASSUME NEW S \in SUBSET Nat, 0 \in S, \A n \in S : n + 1 \in S
    PROVE  S = Nat
<1> DEFINE T == Nat \ S
<1>1. SUFFICES ASSUME T # {} PROVE FALSE
  OBVIOUS
<1>2. IsWellFoundedOn(OpToRel(<, Nat), Nat)
  BY NatLessThanWellFounded
<1>3. PICK x \in T : \A y \in T : ~(<<y, x>> \in OpToRel(<, Nat))
  BY <1>1, <1>2, WFMin, Zenon
<1>4. \A y \in T : ~(y < x)
  BY <1>3, Zenon DEF OpToRel
<1>5. x - 1 \in Nat /\ x - 1 < x
  OBVIOUS
<1>6. x - 1 \in S
  BY <1>4, <1>5
<1> QED BY <1>5, <1>6

\* Where a walk ends, as its next place has it.
Ended(step, f, p) == IF step[p] = p THEN p ELSE f[step[p]]

\* Each step leaves less to go.
Descends(step, left) ==
    /\ left \in [DOMAIN step -> Nat]
    /\ \A p \in DOMAIN step :
          step[p] \in DOMAIN step /\ (step[p] # p => left[step[p]] < left[p])

\* f tells where the walks end that have less than k to go.
Tells(step, left, f, k) ==
    /\ f = [p \in DOMAIN step |-> f[p]]
    /\ \A p \in DOMAIN step : left[p] < k => f[p] = Ended(step, f, p)

LEMMA EndedByNext ==
    ASSUME NEW step, NEW left, Descends(step, left), NEW p \in DOMAIN step, NEW f, NEW g,
           \A q \in DOMAIN step : left[q] < left[p] => f[q] = g[q]
    PROVE  Ended(step, f, p) = Ended(step, g, p)
BY Zenon DEF Ended, Descends

LEMMA SomeTells ==
    ASSUME NEW step, NEW left, Descends(step, left), NEW k \in Nat
    PROVE  \E f : Tells(step, left, f, k)
<1> DEFINE D == DOMAIN step
           Done == {n \in Nat : \E f : Tells(step, left, f, n)}
<1>0. \A p \in D : left[p] \in Nat
  BY DEF Descends
<1>1. 0 \in Done
  <2> DEFINE f == [p \in D |-> 0]
  <2>1. f = [p \in D |-> f[p]]
    OBVIOUS
  <2> HIDE DEF f
  <2>2. \A n \in Nat : ~(n < 0)
    OBVIOUS
  <2>3. Tells(step, left, f, 0)
    BY <1>0, <2>1, <2>2, Zenon DEF Tells
  <2> QED BY <2>3
<1>2. ASSUME NEW n \in Nat, NEW f, Tells(step, left, f, n)
      PROVE  \E g : Tells(step, left, g, n + 1)
  <2> DEFINE g == [p \in D |-> IF left[p] < n THEN f[p] ELSE Ended(step, f, p)]
  <2>1. /\ g = [p \in D |-> g[p]]
        /\ \A p \in D : left[p] < n => g[p] = f[p]
        /\ \A p \in D : ~(left[p] < n) => g[p] = Ended(step, f, p)
    BY Zenon
  <2> HIDE DEF g
  <2>2. ASSUME NEW p \in D, left[p] < n + 1
        PROVE  g[p] = Ended(step, g, p)
    <3>1. g[p] = Ended(step, f, p)
      BY <1>2, <2>1, Zenon DEF Tells
    <3>2. \A q \in D : left[q] < left[p] => f[q] = g[q]
      <4> TAKE q \in D
      <4> HAVE left[q] < left[p]
      <4>1. left[q] < n
        BY <1>0, <2>2
      <4> QED BY <2>1, <4>1
    <3>3. Ended(step, f, p) = Ended(step, g, p)
      BY <3>2, EndedByNext
    <3> QED BY <3>1, <3>3
  <2> QED BY <2>1, <2>2 DEF Tells
<1>3. \A n \in Done : n + 1 \in Done
  BY <1>2
<1>4. Done \in SUBSET Nat
  OBVIOUS
<1> HIDE DEF Done
<1>5. k \in Done
  BY <1>1, <1>3, <1>4, SetInduction
<1> QED BY <1>5 DEF Done

LEMMA AllTellTheSame ==
    ASSUME NEW step, NEW left, Descends(step, left), NEW k \in Nat, NEW m \in Nat,
           NEW f, Tells(step, left, f, k), NEW g, Tells(step, left, g, m),
           NEW y \in DOMAIN step, left[y] < k, left[y] < m
    PROVE  f[y] = g[y]
<1> DEFINE D == DOMAIN step
           Done == {n \in Nat : \A p \in D :
                      left[p] < n /\ left[p] < k /\ left[p] < m => f[p] = g[p]}
<1>0. \A p \in D : left[p] \in Nat
  BY DEF Descends
<1>1. 0 \in Done
  BY <1>0
<1>2. ASSUME NEW n \in Done PROVE n + 1 \in Done
  <2> SUFFICES ASSUME NEW p \in D, left[p] < n + 1, left[p] < k, left[p] < m
               PROVE  f[p] = g[p]
    OBVIOUS
  <2>1. \A q \in D : left[q] < left[p] => f[q] = g[q]
    <3> TAKE q \in D
    <3> HAVE left[q] < left[p]
    <3>1. left[q] < n /\ left[q] < k /\ left[q] < m
      BY <1>0
    <3> QED BY <1>2, <3>1
  <2>2. f[p] = Ended(step, f, p) /\ g[p] = Ended(step, g, p)
    BY Zenon DEF Tells
  <2>3. Ended(step, f, p) = Ended(step, g, p)
    BY <2>1, EndedByNext
  <2> QED BY <2>2, <2>3
<1>3. Done \in SUBSET Nat
  OBVIOUS
<1> HIDE DEF Done
<1>4. Done = Nat
  BY <1>1, <1>2, <1>3, SetInduction
<1>5. left[y] + 1 \in Done /\ left[y] < left[y] + 1
  BY <1>0, <1>4
<1> QED BY <1>5 DEF Done

\* A walk goes on as from the next place.
LEMMA WalkGoesOn ==
    ASSUME NEW step, NEW left, Descends(step, left)
    PROVE  \A p \in DOMAIN step :
              Walk(step, p) = IF step[p] = p THEN p ELSE Walk(step, step[p])
<1> DEFINE D == DOMAIN step
           Body(h) == [p \in D |-> IF step[p] = p THEN p ELSE h[step[p]]]
           walk == CHOOSE h : h = Body(h)
           some(n) == CHOOSE f : Tells(step, left, f, n)
           f == [p \in D |-> some(left[p] + 1)[p]]
<1>0. \A p \in D : left[p] \in Nat /\ step[p] \in D
  BY DEF Descends
<1>1. \A n \in Nat : Tells(step, left, some(n), n)
  BY SomeTells
<1>2. f = [p \in D |-> f[p]] /\ \A p \in D : f[p] = some(left[p] + 1)[p]
  OBVIOUS
<1> HIDE DEF some, f
<1>3. ASSUME NEW p \in D PROVE f[p] = Ended(step, f, p)
  <2> DEFINE n == left[p] + 1
             g == some(n)
  <2>1. n \in Nat /\ left[p] < n /\ Tells(step, left, g, n)
    BY <1>0, <1>1
  <2>2. ASSUME NEW q \in D, left[q] < left[p] PROVE g[q] = f[q]
    <3> DEFINE m == left[q] + 1
    <3>1. m \in Nat /\ left[q] < m /\ Tells(step, left, some(m), m) /\ left[q] < n
      BY <1>0, <1>1, <2>2
    <3> HIDE DEF g, n
    <3>2. some(m)[q] = g[q]
      <4> HIDE DEF m
      <4> QED BY <2>1, <3>1, AllTellTheSame
    <3> QED BY <1>2, <3>2
  <2> HIDE DEF g, n
  <2>3. g[p] = Ended(step, g, p)
    BY <2>1, Zenon DEF Tells
  <2>4. Ended(step, g, p) = Ended(step, f, p)
    BY <2>2, EndedByNext
  <2>5. f[p] = g[p]
    BY <1>2 DEF g, n
  <2> QED BY <2>3, <2>4, <2>5
<1>4. f = Body(f)
  <2>1. Body(f) = [p \in D |-> Ended(step, f, p)]
    BY Zenon DEF Ended
  <2>2. [p \in D |-> Ended(step, f, p)] = [p \in D |-> f[p]]
    BY <1>3
  <2> QED BY <1>2, <2>1, <2>2, Zenon
<1>5. walk = Body(walk)
  <2> HIDE DEF Body
  <2> QED BY <1>4
<1>6. \A p : Walk(step, p) = walk[p]
  BY DEF Walk
<1> HIDE DEF walk
<1>7. \A p \in D : walk[p] = IF step[p] = p THEN p ELSE walk[step[p]]
  BY <1>5
<1> QED BY <1>6, <1>7, Zenon

\* What no step ends holds where a walk ends, and there no step is left.
LEMMA WalkKeeps ==
    ASSUME NEW step, NEW left, Descends(step, left), NEW Good \in SUBSET DOMAIN step,
           \A p \in Good : step[p] \in Good, NEW from \in Good
    PROVE  Walk(step, from) \in Good /\ step[Walk(step, from)] = Walk(step, from)
<1> DEFINE Ends(p) == Walk(step, p) \in Good /\ step[Walk(step, p)] = Walk(step, p)
           Done == {n \in Nat : \A p \in Good : left[p] < n => Ends(p)}
<1>0. \A p \in Good : left[p] \in Nat
  BY DEF Descends
<1>1. 0 \in Done
  BY <1>0
<1>2. ASSUME NEW n \in Done PROVE n + 1 \in Done
  <2> SUFFICES ASSUME NEW p \in Good, left[p] < n + 1 PROVE Ends(p)
    OBVIOUS
  <2>1. Walk(step, p) = IF step[p] = p THEN p ELSE Walk(step, step[p])
    BY WalkGoesOn
  <2>2. CASE step[p] = p
    BY <2>1, <2>2
  <2>3. CASE step[p] # p
    <3>1. step[p] \in Good /\ left[step[p]] < left[p]
      BY <2>3 DEF Descends
    <3>2. left[step[p]] < n
      BY <1>0, <3>1
    <3>3. Ends(step[p])
      BY <1>2, <3>1, <3>2
    <3> QED BY <2>1, <2>3, <3>3
  <2> QED BY <2>2, <2>3
<1>3. Done \in SUBSET Nat
  OBVIOUS
<1> HIDE DEF Done
<1>4. Done = Nat
  BY <1>1, <1>2, <1>3, SetInduction
<1>5. left[from] + 1 \in Done /\ left[from] < left[from] + 1
  BY <1>0, <1>4
<1> QED BY <1>5 DEF Done

-----------------------------------------------------------------------------
(* Places.                                                                 *)

TruePlaces(text) == {p \in Places(text) : TruePlace(text, p)}

Left(text, p) == Len(text) - p.offset

LEMMA PeekIs ==
    ASSUME NEW text, IsText(text), NEW p \in Places(text)
    PROVE  /\ Len(text) \in Nat /\ p.offset \in 0..Len(text)
           /\ Peek(text, p) # NoChar =>
                 /\ p.offset + 1 \in 1..Len(text) /\ Peek(text, p) = text[p.offset + 1]
                 /\ Peek(text, p) \in ToSet(text)
<1>1. Len(text) \in Nat /\ p.offset \in 0..Len(text)
  BY DEF Places, IsText
<1>2. CASE p.offset < Len(text)
  <2>1. p.offset + 1 \in 1..Len(text) /\ Peek(text, p) = text[p.offset + 1]
    BY <1>1, <1>2 DEF Peek
  <2>2. DOMAIN text = 1..Len(text)
    BY DEF IsText
  <2>3. Peek(text, p) \in ToSet(text)
    BY <2>1, <2>2, Zenon DEF ToSet
  <2> QED BY <1>1, <2>1, <2>3
<1>3. CASE ~(p.offset < Len(text))
  <2>1. Peek(text, p) = NoChar
    BY <1>3 DEF Peek
  <2> QED BY <1>1, <2>1
<1> QED BY <1>2, <1>3

\* To advance is to go to the next place, but at the end.
LEMMA AdvanceIs ==
    ASSUME NEW text, IsText(text), NEW p \in Places(text)
    PROVE  /\ Advance(text, p) \in Places(text)
           /\ Peek(text, p) = NoChar => Advance(text, p) = p
           /\ Peek(text, p) # NoChar =>
                 /\ Advance(text, p).offset = p.offset + 1
                 /\ Advance(text, p) # p
<1>1. CASE Peek(text, p) = NoChar
  BY <1>1 DEF Advance, Newline, NoChar
<1>2. CASE Peek(text, p) # NoChar
  <2>1. p.offset + 1 \in 0..Len(text) /\ p.offset \in Nat /\ p.line \in Nat /\ p.col \in Nat
    BY <1>2, PeekIs DEF Places
  <2>2. \/ Advance(text, p) = [offset |-> p.offset + 1, line |-> p.line + 1, col |-> 1]
        \/ Advance(text, p) = [offset |-> p.offset + 1, line |-> p.line, col |-> p.col + 1]
    BY <1>2 DEF Advance, Newline, NoChar
  <2>3. Advance(text, p) \in Places(text) /\ Advance(text, p).offset = p.offset + 1
    BY <2>1, <2>2 DEF Places
  <2>4. Advance(text, p) # p
    BY <2>1, <2>3
  <2> QED BY <1>2, <2>3, <2>4
<1> QED BY <1>1, <1>2

LEMMA GreatestIs ==
    ASSUME NEW S \in SUBSET Nat, NEW x \in S, \A y \in S : y <= x
    PROVE  Max(S) = x
<1>1. \A y \in S : x >= y
  OBVIOUS
<1>2. \A z \in S : (\A y \in S : z >= y) => z = x
  OBVIOUS
<1> QED BY <1>1, <1>2 DEF Max

\* Some numbers up to a bound have a greatest.
LEMMA MaxOfSome ==
    ASSUME NEW n \in Nat, NEW S \in SUBSET (1..n), S # {}
    PROVE  Max(S) \in S
<1> DEFINE T == {k \in Nat : \E y \in S : y + k = n}
<1>1. T \in SUBSET Nat /\ T # {}
  <2>1. PICK y \in S : TRUE
    OBVIOUS
  <2>2. n - y \in T
    BY <2>1
  <2> QED BY <2>2
<1>2. IsWellFoundedOn(OpToRel(<, Nat), Nat)
  BY NatLessThanWellFounded
<1>3. PICK k \in T : \A j \in T : ~(<<j, k>> \in OpToRel(<, Nat))
  BY <1>1, <1>2, WFMin, Zenon
<1>4. \A j \in T : ~(j < k)
  BY <1>1, <1>3, Zenon DEF OpToRel
<1>5. PICK x \in S : x + k = n
  OBVIOUS
<1>6. \A y \in S : x >= y
  <2> TAKE y \in S
  <2>1. n - y \in T
    OBVIOUS
  <2> QED BY <1>4, <1>5, <2>1
<1> QED BY <1>6 DEF Max

\* The line and the column it counts on the way are those of the place.
LEMMA AdvanceTrue ==
    ASSUME NEW text, IsText(text), NEW p \in TruePlaces(text)
    PROVE  Advance(text, p) \in TruePlaces(text)
<1> DEFINE next == Advance(text, p)
           c == text[p.offset + 1]
           breaks(q) == {j \in 1..q.offset : text[j] = Newline}
           last(q) == IF breaks(q) = {} THEN 0 ELSE Max(breaks(q))
<1>1. /\ p \in Places(text) /\ p.line = 1 + Cardinality(breaks(p))
      /\ p.col = p.offset + 1 - last(p)
  BY DEF TruePlaces, TruePlace
<1>2. next \in Places(text) /\ p.offset \in Nat
  BY <1>1, AdvanceIs, PeekIs
<1>3. CASE Peek(text, p) = NoChar
  BY <1>1, <1>3, AdvanceIs, Zenon
<1>4. CASE Peek(text, p) # NoChar
  <2>1. next.offset = p.offset + 1 /\ Peek(text, p) = c
    BY <1>1, <1>4, AdvanceIs, PeekIs
  <2>2. /\ IsFiniteSet(breaks(p)) /\ breaks(p) \in SUBSET (1..p.offset)
        /\ Cardinality(breaks(p)) \in Nat
    <3>1. IsFiniteSet(1..p.offset)
      BY <1>2, FS_Interval
    <3>2. breaks(p) \in SUBSET (1..p.offset)
      OBVIOUS
    <3> QED BY <3>1, <3>2, FS_Subset, FS_CardinalityType
  <2>3. CASE c = Newline
    <3>1. next = [offset |-> p.offset + 1, line |-> p.line + 1, col |-> 1]
      BY <1>4, <2>1, <2>3 DEF Advance
    <3>2. breaks(next) = breaks(p) \cup {p.offset + 1}
      BY <1>2, <2>1, <2>3
    <3> HIDE DEF next, breaks
    <3>3. Cardinality(breaks(next)) = Cardinality(breaks(p)) + 1
      <4>1. p.offset + 1 \notin breaks(p)
        BY <1>2, <2>2
      <4> QED BY <2>2, <3>2, <4>1, FS_AddElement
    <3>4. Max(breaks(next)) = p.offset + 1
      <4>1. breaks(next) \in SUBSET Nat /\ p.offset + 1 \in breaks(next)
            /\ \A y \in breaks(next) : y <= p.offset + 1
        BY <1>2, <2>2, <3>2
      <4> QED BY <4>1, GreatestIs
    <3>5. breaks(next) # {}
      BY <3>2
    <3>6. next.line = 1 + Cardinality(breaks(next))
      BY <1>1, <2>2, <3>1, <3>3
    <3>7. next.col = next.offset + 1 - last(next)
      BY <1>2, <3>1, <3>4, <3>5
    <3> QED BY <1>2, <3>6, <3>7 DEF TruePlaces, TruePlace, next, breaks
  <2>4. CASE c # Newline
    <3>1. next = [offset |-> p.offset + 1, line |-> p.line, col |-> p.col + 1]
      BY <1>4, <2>1, <2>4 DEF Advance
    <3>2. breaks(next) = breaks(p)
      BY <1>2, <2>1, <2>4
    <3> HIDE DEF next, breaks
    <3>3. last(p) \in Int
      <4>1. CASE breaks(p) = {}
        BY <4>1
      <4>2. CASE breaks(p) # {}
        <5>1. Max(breaks(p)) \in breaks(p)
          BY <1>2, <2>2, <4>2, MaxOfSome
        <5>2. Max(breaks(p)) \in Int
          BY <2>2, <5>1
        <5> QED BY <4>2, <5>2
      <4> QED BY <4>1, <4>2
    <3>4. next.line = 1 + Cardinality(breaks(next))
      BY <1>1, <3>1, <3>2
    <3>5. next.col = next.offset + 1 - last(next)
      <4>1. last(next) = last(p)
        BY <3>2
      <4> HIDE DEF last
      <4> QED BY <1>1, <1>2, <3>1, <3>3, <4>1
    <3> QED BY <1>2, <3>4, <3>5 DEF TruePlaces, TruePlace, next, breaks
  <2> QED BY <2>3, <2>4
<1> QED BY <1>3, <1>4

-----------------------------------------------------------------------------
(* Spaces, comments, words.                                                *)

PastStep(text, chars, p) == IF Peek(text, p) \in chars THEN Advance(text, p) ELSE p

LEMMA PastDescends ==
    ASSUME NEW text, IsText(text), NEW chars
    PROVE  /\ DOMAIN [p \in Places(text) |-> PastStep(text, chars, p)] = Places(text)
           /\ Descends([p \in Places(text) |-> PastStep(text, chars, p)],
                       [p \in Places(text) |-> Left(text, p)])
<1> DEFINE step == [p \in Places(text) |-> PastStep(text, chars, p)]
           left == [p \in Places(text) |-> Left(text, p)]
<1>1. DOMAIN step = Places(text) /\ \A p \in Places(text) :
         step[p] = PastStep(text, chars, p) /\ left[p] = Left(text, p)
  OBVIOUS
<1>2. ASSUME NEW p \in Places(text)
      PROVE  /\ Left(text, p) \in Nat /\ step[p] \in Places(text)
             /\ step[p] # p => Left(text, step[p]) < Left(text, p)
  <2>1. Left(text, p) \in Nat
    BY PeekIs DEF Left
  <2>2. CASE step[p] = p
    BY <2>1, <2>2
  <2>3. CASE step[p] # p
    <3>1. step[p] = Advance(text, p)
      BY <1>1, <2>3 DEF PastStep
    <3>2. step[p] \in Places(text) /\ step[p].offset = p.offset + 1
      BY <2>3, <3>1, AdvanceIs, Zenon
    <3> QED BY <2>1, <3>2, PeekIs DEF Left
  <2> QED BY <2>2, <2>3
<1>3. left \in [Places(text) -> Nat]
  BY <1>2
<1> HIDE DEF step, left
<1> QED BY <1>1, <1>2, <1>3, Zenon DEF Descends, step, left

LEMMA PastWalks ==
    ASSUME NEW text, NEW chars
    PROVE  \A p : Past(text, p, chars)
                     = Walk([q \in Places(text) |-> PastStep(text, chars, q)], p)
BY Zenon DEF Past, PastStep

\* What advancing does not end holds past any characters.
LEMMA PastKeeps ==
    ASSUME NEW text, IsText(text), NEW chars, NEW Good \in SUBSET Places(text),
           \A p \in Good : Advance(text, p) \in Good, NEW at \in Good
    PROVE  Past(text, at, chars) \in Good
<1> DEFINE step == [p \in Places(text) |-> PastStep(text, chars, p)]
           left == [p \in Places(text) |-> Left(text, p)]
<1>1. \A p \in Good : step[p] \in Good
  BY DEF PastStep
<1>2. DOMAIN step = Places(text) /\ Descends(step, left)
  BY PastDescends
<1> HIDE DEF step, left
<1>3. Walk(step, at) \in Good
  BY <1>1, <1>2, WalkKeeps
<1> QED BY <1>3, PastWalks DEF step

LEMMA PastTrue ==
    ASSUME NEW text, IsText(text), NEW chars, NEW at \in TruePlaces(text)
    PROVE  Past(text, at, chars) \in TruePlaces(text)
<1>1. TruePlaces(text) \in SUBSET Places(text)
  BY DEF TruePlaces
<1>2. \A p \in TruePlaces(text) : Advance(text, p) \in TruePlaces(text)
  BY AdvanceTrue
<1> QED BY <1>1, <1>2, PastKeeps

\* Past a character there is means further on.
LEMMA PastMoves ==
    ASSUME NEW text, IsText(text), NEW chars, NEW p \in Places(text),
           Peek(text, p) \in chars, Peek(text, p) # NoChar
    PROVE  Past(text, p, chars) \in Places(text) /\ Past(text, p, chars).offset > p.offset
<1> DEFINE step == [q \in Places(text) |-> PastStep(text, chars, q)]
           left == [q \in Places(text) |-> Left(text, q)]
           next == Advance(text, p)
           Good == {q \in Places(text) : q.offset > p.offset}
<1>1. /\ next \in Places(text) /\ next.offset = p.offset + 1 /\ next # p
      /\ p.offset \in Nat
  BY AdvanceIs, PeekIs
<1>2. step[p] = next
  BY DEF PastStep
<1>3. DOMAIN step = Places(text) /\ Descends(step, left)
  BY PastDescends
<1>4. \A q \in Good : Advance(text, q) \in Good
  <2> TAKE q \in Good
  <2>1. q \in Places(text) /\ q.offset \in Nat
    BY PeekIs
  <2>2. Advance(text, q) = q \/ Advance(text, q).offset = q.offset + 1
    BY <2>1, AdvanceIs, Zenon
  <2>3. Advance(text, q) \in Places(text)
    BY <2>1, AdvanceIs
  <2> QED BY <1>1, <2>1, <2>2, <2>3
<1>5. next \in Good
  BY <1>1
<1> HIDE DEF step, left, next
<1>6. Walk(step, p) = Walk(step, next)
  BY <1>1, <1>2, <1>3, WalkGoesOn
<1>7. Past(text, p, chars) = Past(text, next, chars)
  BY <1>6, PastWalks, Zenon DEF step
<1>8. Past(text, next, chars) \in Good
  <2>1. Good \in SUBSET Places(text)
    OBVIOUS
  <2> HIDE DEF Good
  <2> QED BY <1>4, <1>5, <2>1, PastKeeps
<1> QED BY <1>7, <1>8

SkipStep(text, p) ==
    CASE Peek(text, p) \in Space -> Advance(text, p)
      [] Peek(text, p) = "#" -> Past(text, p, ToSet(text) \ {Newline})
      [] OTHER -> p

\* Skipping moves on from a space and from a comment, and from nothing else.
LEMMA SkipStepIs ==
    ASSUME NEW text, IsText(text), NEW p \in Places(text)
    PROVE  /\ SkipStep(text, p) \in Places(text)
           /\ Peek(text, p) \in Space \cup {"#"} => SkipStep(text, p).offset > p.offset
           /\ Peek(text, p) \notin Space \cup {"#"} => SkipStep(text, p) = p
           /\ p \in TruePlaces(text) => SkipStep(text, p) \in TruePlaces(text)
<1>0. p.offset \in Nat
  BY PeekIs
<1>1. CASE Peek(text, p) \in Space
  <2>1. Peek(text, p) # "#" /\ Peek(text, p) # NoChar
    BY <1>1 DEF Space, Tab, Return, Newline, NoChar
  <2>2. SkipStep(text, p) = Advance(text, p)
    BY <1>1, <2>1 DEF SkipStep
  <2>3. Advance(text, p) \in Places(text) /\ Advance(text, p).offset = p.offset + 1
    BY <2>1, AdvanceIs, Zenon
  <2>4. p \in TruePlaces(text) => Advance(text, p) \in TruePlaces(text)
    BY AdvanceTrue
  <2> QED BY <1>0, <1>1, <2>2, <2>3, <2>4
<1>2. CASE Peek(text, p) = "#"
  <2> DEFINE chars == ToSet(text) \ {Newline}
  <2>1. Peek(text, p) \notin Space /\ Peek(text, p) # NoChar /\ Peek(text, p) # Newline
    BY <1>2 DEF Space, Tab, Return, Newline, NoChar
  <2>2. SkipStep(text, p) = Past(text, p, chars)
    BY <1>2, <2>1 DEF SkipStep
  <2>3. Peek(text, p) \in chars
    BY <2>1, PeekIs
  <2> HIDE DEF chars
  <2>4. Past(text, p, chars) \in Places(text) /\ Past(text, p, chars).offset > p.offset
    BY <2>1, <2>3, PastMoves
  <2>5. p \in TruePlaces(text) => Past(text, p, chars) \in TruePlaces(text)
    BY PastTrue
  <2> QED BY <1>2, <2>1, <2>2, <2>4, <2>5
<1>3. CASE Peek(text, p) \notin Space \cup {"#"}
  BY <1>3 DEF SkipStep
<1> QED BY <1>1, <1>2, <1>3

\* After spaces and comments the lexer is where it says, and at neither.
LEMMA SkipTrue ==
    ASSUME NEW text, IsText(text), NEW at \in TruePlaces(text)
    PROVE  /\ Skip(text, at) \in TruePlaces(text)
           /\ Peek(text, Skip(text, at)) \notin Space \cup {"#"}
<1> DEFINE step == [p \in Places(text) |-> SkipStep(text, p)]
           left == [p \in Places(text) |-> Left(text, p)]
<1>1. Skip(text, at) = Walk(step, at)
  BY Zenon DEF Skip, SkipStep
<1>2. DOMAIN step = Places(text) /\ \A p \in Places(text) :
         step[p] = SkipStep(text, p) /\ left[p] = Left(text, p)
  OBVIOUS
<1>3. ASSUME NEW p \in Places(text)
      PROVE  /\ Left(text, p) \in Nat /\ step[p] \in Places(text)
             /\ step[p] # p => Left(text, step[p]) < Left(text, p)
  <2>1. Left(text, p) \in Nat
    BY PeekIs DEF Left
  <2>2. CASE step[p] = p
    BY <2>1, <2>2
  <2>3. CASE step[p] # p
    <3>1. step[p] \in Places(text) /\ step[p].offset > p.offset
      BY <1>2, <2>3, SkipStepIs
    <3> QED BY <2>1, <3>1, PeekIs DEF Left
  <2> QED BY <2>2, <2>3
<1>4. left \in [Places(text) -> Nat]
  BY <1>3
<1> HIDE DEF step, left
<1>5. Descends(step, left)
  <2>1. DOMAIN left = Places(text) /\ \A p \in Places(text) : left[p] = Left(text, p)
    BY <1>2, <1>4
  <2> QED BY <1>2, <1>3, <1>4, Zenon DEF Descends
<1>6. /\ TruePlaces(text) \in SUBSET DOMAIN step
      /\ \A p \in TruePlaces(text) : step[p] \in TruePlaces(text)
  <2>1. TruePlaces(text) \in SUBSET Places(text)
    BY DEF TruePlaces
  <2> QED BY <1>2, <2>1, SkipStepIs
<1>7. /\ Walk(step, at) \in TruePlaces(text)
      /\ step[Walk(step, at)] = Walk(step, at)
  BY <1>5, <1>6, WalkKeeps
<1>8. Peek(text, Walk(step, at)) \notin Space \cup {"#"}
  <2> DEFINE end == Walk(step, at)
  <2>1. end \in Places(text) /\ SkipStep(text, end) = end
    BY <1>2, <1>6, <1>7
  <2> HIDE DEF end
  <2>2. ~(end.offset > end.offset)
    BY <2>1, PeekIs
  <2>3. Peek(text, end) \notin Space \cup {"#"}
    BY <2>1, <2>2, SkipStepIs
  <2> QED BY <2>3 DEF end
<1> QED BY <1>1, <1>7, <1>8

-----------------------------------------------------------------------------
(* Tokens.                                                                 *)

\* A text between quotes is walked by characters and escapes.
LEMMA TextStepIs ==
    ASSUME NEW text, IsText(text), NEW s \in TextsRead(text)
    PROVE  /\ TextStep(text, s) \in TextsRead(text)
           /\ TextStep(text, s) # s => TextStep(text, s).at.offset > s.at.offset
           /\ s.at \in TruePlaces(text) => TextStep(text, s).at \in TruePlaces(text)
<1> DEFINE C == ToSet(text) \cup {Escapes[c] : c \in DOMAIN Escapes}
           p == s.at
           c == Peek(text, p)
           next == Advance(text, p)
           e == Peek(text, next)
           over == Advance(text, next)
<1>1. /\ p \in Places(text) /\ s.chars \in Seq(C)
      /\ TextsRead(text) = [at : Places(text), chars : Seq(C)]
  BY Zenon DEF TextsRead
<1>2. next \in Places(text) /\ over \in Places(text) /\ p.offset \in Nat
  BY <1>1, AdvanceIs, PeekIs
<1>3. p \in TruePlaces(text) => next \in TruePlaces(text) /\ over \in TruePlaces(text)
  BY AdvanceTrue
<1>4. CASE c = Escape /\ e \in DOMAIN Escapes
  <2>1. c # NoChar /\ e # NoChar
    BY <1>4 DEF Escape, NoChar, Escapes, Quote
  <2>2. TextStep(text, s) = [at |-> over, chars |-> Append(s.chars, Escapes[e])]
    BY <1>4 DEF TextStep
  <2>3. next.offset = p.offset + 1 /\ over.offset = next.offset + 1
    BY <1>1, <1>2, <2>1, AdvanceIs, Zenon
  <2>4. Append(s.chars, Escapes[e]) \in Seq(C)
    <3>1. Escapes[e] \in C
      BY <1>4
    <3> HIDE DEF C
    <3> QED BY <1>1, <3>1
  <2> HIDE DEF C, p, c, next, e, over
  <2>5. [at |-> over, chars |-> Append(s.chars, Escapes[e])] \in TextsRead(text)
    BY <1>1, <1>2, <2>4
  <2> QED BY <1>2, <1>3, <2>2, <2>3, <2>5 DEF p
<1>5. CASE c \notin {Escape, Quote, NoChar}
  <2>1. TextStep(text, s) = [at |-> next, chars |-> Append(s.chars, c)]
    BY <1>5 DEF TextStep
  <2>2. next.offset = p.offset + 1 /\ c \in ToSet(text)
    BY <1>1, <1>5, AdvanceIs, PeekIs, Zenon
  <2>3. Append(s.chars, c) \in Seq(C)
    <3>1. c \in C
      BY <2>2
    <3> HIDE DEF C
    <3> QED BY <1>1, <3>1
  <2> HIDE DEF C, p, c, next, e, over
  <2>4. [at |-> next, chars |-> Append(s.chars, c)] \in TextsRead(text)
    BY <1>1, <1>2, <2>3
  <2> QED BY <1>2, <1>3, <2>1, <2>2, <2>4 DEF p
<1>6. CASE ~(c = Escape /\ e \in DOMAIN Escapes) /\ c \in {Escape, Quote, NoChar}
  <2>1. TextStep(text, s) = s
    BY <1>6, Zenon DEF TextStep
  <2> QED BY <2>1
<1> QED BY <1>4, <1>5, <1>6

LEMMA LexTextTrue ==
    ASSUME NEW text, IsText(text), NEW at \in TruePlaces(text)
    PROVE  LexText(text, at).after \in TruePlaces(text)
<1> DEFINE step == [s \in TextsRead(text) |-> TextStep(text, s)]
           left == [s \in TextsRead(text) |-> Left(text, s.at)]
           Good == {s \in TextsRead(text) : s.at \in TruePlaces(text)}
           start == [at |-> at, chars |-> <<>>]
           end == Walk(step, start)
           next == Advance(text, end.at)
<1>1. LexText(text, at) = IF Peek(text, end.at) = Quote
                          THEN Lexed(Literal(Str(end.chars)), next)
                          ELSE Unlexed(Advance(text, next))
  BY Zenon DEF LexText
<1>2. \A s \in TextsRead(text) : s.at \in Places(text)
  BY DEF TextsRead
<1>3. ASSUME NEW s \in TextsRead(text)
      PROVE  /\ Left(text, s.at) \in Nat /\ step[s] \in TextsRead(text)
             /\ step[s] # s => Left(text, step[s].at) < Left(text, s.at)
  <2>1. Left(text, s.at) \in Nat /\ step[s] = TextStep(text, s)
    BY <1>2, PeekIs DEF Left
  <2> HIDE DEF step
  <2>2. step[s] \in TextsRead(text)
    BY <2>1, TextStepIs
  <2>3. CASE step[s] # s
    <3>1. step[s].at.offset > s.at.offset
      BY <2>1, <2>3, TextStepIs
    <3>2. /\ step[s].at \in Places(text) /\ s.at \in Places(text)
      BY <1>2, <2>2
    <3>3. step[s].at.offset \in Nat /\ s.at.offset \in Nat /\ Len(text) \in Nat
      BY <3>2, PeekIs
    <3> QED BY <2>1, <2>2, <3>1, <3>3 DEF Left
  <2> QED BY <2>1, <2>2, <2>3
<1>4. DOMAIN step = TextsRead(text) /\ left \in [TextsRead(text) -> Nat]
      /\ \A s \in TextsRead(text) : left[s] = Left(text, s.at) /\ step[s] = TextStep(text, s)
  BY <1>3
<1> HIDE DEF step, left
<1>5. Descends(step, left)
  BY <1>3, <1>4, Zenon DEF Descends
<1>6. Good \in SUBSET DOMAIN step /\ \A s \in Good : step[s] \in Good
  BY <1>3, <1>4, TextStepIs
<1>7. start \in Good
  <2>1. at \in Places(text)
    BY DEF TruePlaces
  <2> QED BY <2>1 DEF TextsRead
<1> HIDE DEF Good, start
<1>8. end \in Good
  BY <1>5, <1>6, <1>7, WalkKeeps
<1> HIDE DEF end
<1>9. next \in TruePlaces(text) /\ Advance(text, next) \in TruePlaces(text)
  BY <1>8, AdvanceTrue DEF Good
<1> QED BY <1>1, <1>9 DEF Lexed, Unlexed

LEMMA LexNumberTrue ==
    ASSUME NEW text, IsText(text), NEW at \in TruePlaces(text)
    PROVE  LexNumber(text, at).after \in TruePlaces(text)
<1> DEFINE whole == Past(text, at, Digits)
           point == Advance(text, whole)
           end == Past(text, point, Digits)
<1>1. whole \in TruePlaces(text) /\ end \in TruePlaces(text)
  BY PastTrue, AdvanceTrue
<1>2. LexNumber(text, at).after \in {whole, end}
  <2> HIDE DEF whole, point, end
  <2> QED BY Zenon DEF LexNumber, Lexed, Unlexed, whole, point, end
<1> QED BY <1>1, <1>2

\* Whatever comes next, the lexer is where it says after it; and at the end of the
\* text the token is the end.
LEMMA LexAtTrue ==
    ASSUME NEW text, IsText(text), NEW at \in TruePlaces(text)
    PROVE  /\ LexAt(text, at).after \in TruePlaces(text)
           /\ Peek(text, at) = NoChar => LexAt(text, at).token = Eof
<1> DEFINE c == Peek(text, at)
           next == Advance(text, at)
           over == Advance(text, next)
           t == LexAt(text, at)
<1>1. next \in TruePlaces(text) /\ over \in TruePlaces(text)
  BY AdvanceTrue
<1>2. LexText(text, next).after \in TruePlaces(text)
  BY <1>1, LexTextTrue
<1>3. LexNumber(text, at).after \in TruePlaces(text)
  BY LexNumberTrue
<1>4. LexIdentifier(text, at).after \in TruePlaces(text)
  <2>1. LexIdentifier(text, at).after = Past(text, at, Letters \cup Digits)
    BY DEF LexIdentifier, Lexed
  <2> QED BY <2>1, PastTrue
<1>5. c = NoChar => t = Lexed(Eof, at)
  <2>1. NoChar \notin Marks /\ NoChar \notin DOMAIN Doubled /\ NoChar # Quote
    BY DEF NoChar, Marks, Doubled, Quote
  <2>2. NoChar \notin Digits /\ NoChar \notin Letters
    BY CharactersAssumption
  <2> QED BY <2>1, <2>2 DEF LexAt
<1>6. \/ t = Lexed(Eof, at) \/ t = Lexed(Sym(c), next)
      \/ t = Lexed(Sym(Doubled[c]), over)
      \/ t = LexText(text, next) \/ t = LexNumber(text, at)
      \/ t = LexIdentifier(text, at) \/ t = Unlexed(at)
  BY DEF LexAt
<1>7. t.after \in TruePlaces(text)
  <2> HIDE DEF t, next, over, c
  <2> QED BY <1>1, <1>2, <1>3, <1>4, <1>6 DEF Lexed, Unlexed
<1>8. c = NoChar => t.token = Eof
  BY <1>5 DEF Lexed
<1> QED BY <1>7, <1>8
-----------------------------------------------------------------------------
(* The lexer.                                                              *)

IsSequence(s) == s \in Seq(ToSet(s))

IInv ==
    /\ IsText(source) /\ position \in TruePlaces(source)
    /\ IsSequence(read) /\ PositionsAreTrue

LEMMA Appended ==
    ASSUME NEW s, IsSequence(s), NEW x
    PROVE  /\ IsSequence(Append(s, x))
           /\ \A i \in DOMAIN Append(s, x) :
                 (i \in DOMAIN s /\ Append(s, x)[i] = s[i]) \/ Append(s, x)[i] = x
<1> DEFINE S == ToSet(s) \cup {x}
           a == Append(s, x)
<1>1. s \in Seq(S) /\ x \in S
  <2>1. s \in Seq(ToSet(s)) /\ ToSet(s) \in SUBSET S /\ x \in S
    BY DEF IsSequence
  <2> HIDE DEF S
  <2>2. \A i \in 1..Len(s) : s[i] \in S
    BY <2>1
  <2> QED BY <2>1, <2>2
<1> HIDE DEF S
<1>2. /\ a \in Seq(S) /\ Len(a) = Len(s) + 1 /\ Len(s) \in Nat /\ a[Len(s) + 1] = x
      /\ \A i \in 1..Len(s) : a[i] = s[i]
  BY <1>1
<1> HIDE DEF a
<1>3. DOMAIN a = 1..Len(s) + 1 /\ DOMAIN s = 1..Len(s)
  BY <1>1, <1>2
<1>4. \A i \in 1..Len(a) : a[i] \in ToSet(a)
  BY <1>2, <1>3 DEF ToSet
<1>5. a \in Seq(ToSet(a))
  BY <1>2, <1>4
<1>6. \A i \in DOMAIN a : (i \in DOMAIN s /\ a[i] = s[i]) \/ a[i] = x
  BY <1>2, <1>3
<1> QED BY <1>5, <1>6 DEF IsSequence, a

LEMMA StartIsTrue == LexerInit /\ IsText(source) => IInv
<1> SUFFICES ASSUME LexerInit, IsText(source) PROVE IInv
  OBVIOUS
<1>1. Len(source) \in Nat
  BY DEF IsText
<1>2. Start \in Places(source)
  BY <1>1 DEF Start, Places
<1>3. {j \in 1..Start.offset : source[j] = Newline} = {}
  BY DEF Start
<1>4. TruePlace(source, Start)
  BY <1>3, FS_EmptySet DEF TruePlace, Start
<1>5. IsSequence(<<>>) /\ DOMAIN <<>> = {}
  BY DEF IsSequence
<1> QED BY <1>2, <1>4, <1>5 DEF LexerInit, IInv, TruePlaces, PositionsAreTrue

LEMMA NextTokenKeeps == IInv /\ [NextToken]_lvars => IInv'
<1> SUFFICES ASSUME IInv, [NextToken]_lvars PROVE IInv'
  OBVIOUS
<1>1. CASE NextToken
  <2> DEFINE at == Skip(source, position)
             t == LexAt(source, at)
             r == [token |-> t.token, start |-> at]
             Placed(e) == /\ TruePlace(source, e.start)
                          /\ e.token # Eof =>
                                source[e.start.offset + 1] \notin Space \cup {"#"}
  <2>1. IsText(source) /\ position \in TruePlaces(source) /\ IsSequence(read)
        /\ \A i \in DOMAIN read : Placed(read[i])
    BY DEF IInv, PositionsAreTrue
  <2>2. /\ position' = t.after /\ source' = source
        /\ read' = IF t.ok THEN Append(read, r) ELSE read
    BY <1>1 DEF NextToken
  <2>3. at \in TruePlaces(source) /\ Peek(source, at) \notin Space \cup {"#"}
    BY <2>1, SkipTrue
  <2>4. t.after \in TruePlaces(source) /\ (Peek(source, at) = NoChar => t.token = Eof)
    BY <2>1, <2>3, LexAtTrue
  <2> HIDE DEF at, t
  <2>5. Placed(r)
    <3>1. at \in Places(source) /\ TruePlace(source, at)
      BY <2>3 DEF TruePlaces
    <3>2. Peek(source, at) # NoChar => Peek(source, at) = source[at.offset + 1]
      BY <2>1, <3>1, PeekIs
    <3> QED BY <2>3, <2>4, <3>1, <3>2
  <2> HIDE DEF r
  <2>6. IsSequence(read') /\ \A i \in DOMAIN read' : Placed(read'[i])
    <3>1. CASE t.ok
      <4>1. read' = Append(read, r)
        BY <2>2, <3>1
      <4> HIDE DEF Placed
      <4> QED BY <2>1, <2>5, <4>1, Appended
    <3>2. CASE ~t.ok
      BY <2>1, <2>2, <3>2
    <3> QED BY <3>1, <3>2
  <2> QED BY <2>1, <2>2, <2>4, <2>6 DEF IInv, PositionsAreTrue
<1>2. CASE UNCHANGED lvars
  BY <1>2 DEF IInv, PositionsAreTrue, lvars
<1> QED BY <1>1, <1>2

\* PositionsAreTrue, for a text of any length with any characters in it, and any
\* keywords: the line and column of a token are those of its first character.
THEOREM PositionsAlwaysTrue == LexerSpec => []PositionsAreTrue
<1>1. IInv => PositionsAreTrue
  BY DEF IInv
<1> QED BY <1>1, StartIsTrue, NextTokenKeeps, PTL DEF LexerSpec
=============================================================================
