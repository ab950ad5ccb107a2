---------------------------- MODULE LoopsProofs -----------------------------
(***************************************************************************)
(* In a module whose loops are nested every loop is fed by the iterator    *)
(* its own ForInit made, whatever events arrive.  The invariant divides    *)
(* the iterators among the activations: each has those of its open loops,  *)
(* innermost on top, above those of its caller; below them all lie what    *)
(* loops that were returned from have left behind, which no open loop ever *)
(* comes down to.                                                          *)
(***************************************************************************)
EXTENDS OperandsProofs, Nesting

\* The iterator at p is that of the loop of its place in opened.
Located(opened, mark, p) ==
    LET o == iterators[p].owner
        i == o.depth
    IN  /\ i \in DOMAIN calls
        /\ p - mark[i] \in DOMAIN opened[i]
        /\ o.unit = calls[i].unit
        /\ o.at = opened[i][p - mark[i]]
        /\ iterators[p].key = Code(o.unit)[o.at + 1].arg

\* opened has the loops each activation is in, by its ip, and mark the number of
\* iterators below those of each activation.
Divided(opened, mark) ==
    /\ opened \in [DOMAIN calls -> Seq(Nat)]
    /\ mark \in [1..Len(calls) + 1 -> Nat]
    /\ mark[Len(calls) + 1] = Len(iterators)
    /\ \A i, j \in 1..Len(calls) + 1 : i <= j => mark[i] <= mark[j]
    /\ \A i \in DOMAIN calls :
          /\ mark[i + 1] = mark[i] + Len(opened[i])
          /\ frames[i].ip \in 0..Len(Code(calls[i].unit))
          /\ opened[i] \in Nests(Code(calls[i].unit))[frames[i].ip]
    /\ \A p \in mark[1] + 1..Len(iterators) : Located(opened, mark, p)

\* No activation above one with open loops disturbs these.
Undisturbed(opened) ==
    \A i, j \in DOMAIN calls :
       i < j /\ opened[i] # <<>> =>
          Spares(module, calls[j].unit.n, Keys(Code(calls[i].unit), opened[i]))

LoopInv ==
    /\ Matched
    /\ \A i \in DOMAIN calls : i > 1 => calls[i].unit.kind = "function"
    /\ status \in {"idle", "done"} => calls = <<>>
    /\ status = "running" =>
          \E opened, mark : Divided(opened, mark) /\ Undisturbed(opened)
-----------------------------------------------------------------------------
(* What is known where an activation is.                                   *)

\* The code of the top activation is nested.
LEMMA TopNested ==
    ASSUME IInv, UnitsNested(module), calls # <<>>
    PROVE  Nested(module, Code(Running))
<1>1. Running \in Units
  BY TopFrame
<1> QED BY <1>1 DEF Units, UnitsNested, Code

\* The numbers of the top activation.
LEMMA TopOpen ==
    ASSUME IInv, LoopInv, UnitsNested(module), calls # <<>>,
           NEW opened, NEW mark, Divided(opened, mark)
    PROVE  LET n == Len(calls)
               code == Code(Running)
           IN  /\ n \in Nat \ {0} /\ DOMAIN calls = 1..n /\ n \in DOMAIN calls
               /\ Len(frames) = n /\ DOMAIN frames = 1..n
               /\ code \in Seq(Instruction) /\ Len(code) \in Nat
               /\ Frame.ip \in 0..Len(code)
               /\ opened[n] \in Seq(Nat) /\ Len(opened[n]) \in Nat
               /\ opened[n] \in Nests(code)[Frame.ip]
               /\ ~AtEnd => NestedAt(module, code, Frame.ip, opened[n])
               /\ mark[n] \in Nat /\ mark[1] \in Nat /\ mark[1] <= mark[n]
               /\ Len(iterators) = mark[n] + Len(opened[n])
<1> DEFINE n == Len(calls)
           code == Code(Running)
<1>1. /\ n \in Nat \ {0} /\ DOMAIN calls = 1..n /\ n \in DOMAIN calls
      /\ Len(frames) = n /\ DOMAIN frames = 1..n
      /\ code \in Seq(Instruction) /\ Len(code) \in Nat
  <2>1. calls \in Seq(CallType) /\ frames \in Seq(FrameType) /\ Len(frames) = Len(calls)
    BY Types DEF LoopInv, Matched
  <2>2. n \in Nat \ {0} /\ code \in Seq(Instruction)
    BY TopFrame
  <2> QED BY <2>1, <2>2
<1>2. /\ Frame.ip \in 0..Len(code) /\ opened[n] \in Nests(code)[Frame.ip]
      /\ opened[n] \in Seq(Nat) /\ mark[n + 1] = mark[n] + Len(opened[n])
      /\ mark[n + 1] = Len(iterators)
  BY <1>1 DEF Divided, Running, Frame
<1>3. /\ mark[n] \in Nat /\ mark[1] \in Nat /\ mark[1] <= mark[n]
      /\ Len(iterators) = mark[n] + Len(opened[n]) /\ Len(opened[n]) \in Nat
  <2>1. n \in 1..n + 1 /\ 1 \in 1..n + 1 /\ 1 <= n
    BY <1>1
  <2> QED BY <1>2, <2>1 DEF Divided
<1>4. ASSUME ~AtEnd PROVE NestedAt(module, code, Frame.ip, opened[n])
  <2>1. Frame.ip < Len(code)
    BY <1>1, <1>2, <1>4 DEF AtEnd
  <2>2. Nested(module, code)
    BY TopNested
  <2> HIDE DEF code
  <2> QED BY <1>2, <2>1, <2>2, Zenon DEF Nested
<1> QED BY <1>1, <1>2, <1>3, <1>4

\* The iterators above the mark of the top activation are those of its own loops.
LEMMA OwnLoops ==
    ASSUME IInv, LoopInv, UnitsNested(module), calls # <<>>,
           NEW opened, NEW mark, Divided(opened, mark),
           NEW k \in DOMAIN opened[Len(calls)]
    PROVE  LET p == mark[Len(calls)] + k
               at == opened[Len(calls)][k]
           IN  /\ p \in 1..Len(iterators)
               /\ iterators[p].owner = [depth |-> Len(calls), unit |-> Running, at |-> at]
               /\ iterators[p].key = Code(Running)[at + 1].arg
<1> DEFINE n == Len(calls)
           p == mark[n] + k
           o == iterators[p].owner
<1>1. /\ n \in Nat \ {0} /\ DOMAIN calls = 1..n
      /\ opened[n] \in Seq(Nat) /\ Len(opened[n]) \in Nat
      /\ mark[n] \in Nat /\ mark[1] \in Nat /\ mark[1] <= mark[n]
      /\ Len(iterators) = mark[n] + Len(opened[n])
  BY TopOpen
<1>2. k \in 1..Len(opened[n])
  BY <1>1
<1>3. p \in mark[1] + 1..Len(iterators) /\ p \in 1..Len(iterators)
  BY <1>1, <1>2
<1>4. Located(opened, mark, p)
  BY <1>3 DEF Divided
<1>5. o.depth = n
  <2> SUFFICES ASSUME o.depth # n PROVE FALSE
    OBVIOUS
  <2> DEFINE i == o.depth
  <2>1. i \in 1..n /\ p - mark[i] \in DOMAIN opened[i]
    BY <1>1, <1>4 DEF Located
  <2>2. i # n
    OBVIOUS
  <2> HIDE DEF i, n
  <2>3. /\ i \in 1..n + 1 /\ i + 1 \in 1..n + 1 /\ n \in 1..n + 1 /\ i + 1 <= n
        /\ i \in DOMAIN calls
    BY <1>1, <2>1, <2>2
  <2>4. /\ opened[i] \in Seq(Nat) /\ mark[i] \in Nat
        /\ mark[i + 1] = mark[i] + Len(opened[i]) /\ mark[i + 1] <= mark[n]
    <3>1. opened[i] \in Seq(Nat) /\ mark[i + 1] = mark[i] + Len(opened[i])
      BY <2>3 DEF Divided
    <3>2. mark[i] \in Nat /\ mark[i + 1] <= mark[n]
      BY <2>3 DEF Divided, n
    <3> QED BY <3>1, <3>2
  <2>5. p - mark[i] <= Len(opened[i])
    BY <2>1, <2>4
  <2> QED BY <1>1, <1>2, <2>4, <2>5
<1>6. o \in [depth : Nat, unit : Units, at : Nat]
  <2>1. iterators \in Seq(IteratorType)
    BY Types
  <2>2. iterators[p] \in IteratorType
    BY <1>3, <2>1
  <2> QED BY <2>2 DEF IteratorType
<1>7. /\ o.unit = Running /\ o.at = opened[n][p - mark[n]]
      /\ iterators[p].key = Code(o.unit)[o.at + 1].arg
  BY <1>4, <1>5 DEF Located, Running
<1>8. p - mark[n] = k
  BY <1>1, <1>2
<1>9. o = [depth |-> n, unit |-> Running, at |-> opened[n][k]]
  BY <1>5, <1>6, <1>7, <1>8
<1> QED BY <1>3, <1>7, <1>8, <1>9
-----------------------------------------------------------------------------
(* What keeps the invariant.                                               *)

\* The top frame goes on at ip, and the frames below stay.
GoesTo(ip) ==
    /\ frames' \in Seq(FrameType) /\ Advances
    /\ frames'[Len(frames)].ip = ip
    /\ \A i \in DOMAIN frames : i # Len(frames) => frames'[i] = frames[i]

\* Two iterators of the same loop.
SameLoop(a, b) == a.key = b.key /\ a.owner = b.owner

\* Without open loops of its own, or of others, nothing has to be divided.
LEMMA NotRunning ==
    ASSUME IInv, LoopInv, UNCHANGED calls, Matched',
           status' \in {"failed", "panicked"}
    PROVE  LoopInv'
BY DEF LoopInv

\* The marks after the d lowest iterators are gone, with the top nest s.
Lower(mark, n, d, s) ==
    [i \in 1..n + 1 |-> IF i = n + 1 THEN mark[n] - d + Len(s) ELSE mark[i] - d]

\* The nests after that of n is s.
Reopen(opened, n, s) == [opened EXCEPT ![n] = s]

\* The marks go by the lengths of the nests.
Marks(n, opened, mark) ==
    /\ opened \in [1..n -> Seq(Nat)]
    /\ mark \in [1..n + 1 -> Nat]
    /\ \A i, j \in 1..n + 1 : i <= j => mark[i] <= mark[j]
    /\ \A i \in 1..n : mark[i + 1] = mark[i] + Len(opened[i])

\* The marks stay in order when the top nest changes and the lowest iterators go.
LEMMA MarksLower ==
    ASSUME NEW n \in Nat \ {0}, NEW opened, NEW mark, Marks(n, opened, mark),
           NEW s \in Seq(Nat), NEW d \in Nat, d <= mark[1]
    PROVE  /\ Marks(n, Reopen(opened, n, s), Lower(mark, n, d, s))
           /\ Lower(mark, n, d, s)[n + 1] = mark[n] - d + Len(s)
           /\ \A i \in 1..n : Lower(mark, n, d, s)[i] = mark[i] - d
<1> DEFINE later == Reopen(opened, n, s)
           low == Lower(mark, n, d, s)
           len == mark[n] - d + Len(s)
<1>1. /\ opened \in [1..n -> Seq(Nat)]
      /\ mark \in [1..n + 1 -> Nat]
      /\ \A i, j \in 1..n + 1 : i <= j => mark[i] <= mark[j]
      /\ \A i \in 1..n : mark[i + 1] = mark[i] + Len(opened[i])
  BY DEF Marks
<1>2. later \in [1..n -> Seq(Nat)] /\ later[n] = s /\ \A i \in 1..n : i # n => later[i] = opened[i]
  BY <1>1 DEF Reopen
<1>3. ASSUME NEW i \in 1..n
      PROVE  /\ i \in 1..n + 1 /\ i + 1 \in 1..n + 1 /\ i # n + 1
             /\ mark[i] \in Nat /\ mark[1] <= mark[i] /\ mark[i] <= mark[n]
  <2>1. i \in 1..n + 1 /\ 1 \in 1..n + 1 /\ n \in 1..n + 1 /\ 1 <= i /\ i <= n
    OBVIOUS
  <2>2. mark[i] \in Nat /\ mark[1] <= mark[i] /\ mark[i] <= mark[n]
    BY <1>1, <2>1
  <2> QED BY <2>2
<1>4. mark[1] \in Nat /\ mark[n] \in Nat /\ mark[1] <= mark[n] /\ Len(s) \in Nat
  <2>1. n \in 1..n
    OBVIOUS
  <2>2. 1 \in 1..n + 1
    OBVIOUS
  <2> QED BY <1>1, <1>3, <2>1, <2>2
<1>5. len \in Nat
  BY <1>4
<1>6. low[n + 1] = len
  <2>1. n + 1 \in 1..n + 1
    OBVIOUS
  <2> QED BY <2>1 DEF Lower
<1>7. \A i \in 1..n : low[i] = mark[i] - d /\ low[i] \in Nat /\ low[i] <= len
  <2> TAKE i \in 1..n
  <2>1. low[i] = mark[i] - d
    BY <1>3 DEF Lower
  <2>2. mark[i] \in Nat /\ mark[1] <= mark[i] /\ mark[i] <= mark[n]
    BY <1>3
  <2> HIDE DEF low
  <2> QED BY <1>4, <2>1, <2>2
<1>8. DOMAIN low = 1..n + 1 /\ low = [i \in 1..n + 1 |-> low[i]]
  BY DEF Lower
<1> HIDE DEF low, later, len
<1>9. \A i \in 1..n + 1 : i = n + 1 \/ i \in 1..n
  OBVIOUS
<1>10. low \in [1..n + 1 -> Nat]
  <2>1. \A i \in 1..n + 1 : low[i] \in Nat
    BY <1>5, <1>6, <1>7, <1>9
  <2> QED BY <1>8, <2>1
<1>11. \A i, j \in 1..n + 1 : i <= j => low[i] <= low[j]
  <2> TAKE i, j \in 1..n + 1
  <2> HAVE i <= j
  <2>1. CASE j = n + 1
    BY <1>5, <1>6, <1>7, <1>9, <2>1
  <2>2. CASE j \in 1..n
    <3>1. i \in 1..n
      BY <2>2
    <3>2. mark[i] <= mark[j] /\ mark[i] \in Nat /\ mark[j] \in Nat
      BY <1>1
    <3>3. low[i] = mark[i] - d /\ low[j] = mark[j] - d
      BY <1>7, <2>2, <3>1
    <3> QED BY <3>2, <3>3
  <2> QED BY <1>9, <2>1, <2>2
<1>12. \A i \in 1..n : low[i + 1] = low[i] + Len(later[i])
  <2> TAKE i \in 1..n
  <2>1. CASE i = n
    <3>1. low[n] = mark[n] - d /\ later[n] = s /\ low[n + 1] = mark[n] - d + Len(s)
      BY <1>2, <1>6, <1>7, <2>1 DEF len
    <3> QED BY <2>1, <3>1
  <2>2. CASE i # n
    <3>1. i + 1 \in 1..n
      BY <2>2
    <3>2. mark[i + 1] = mark[i] + Len(opened[i]) /\ mark[i] \in Nat /\ Len(opened[i]) \in Nat
      BY <1>1, <1>3
    <3>3. low[i] = mark[i] - d /\ low[i + 1] = mark[i + 1] - d /\ later[i] = opened[i]
      BY <1>2, <1>7, <2>2, <3>1
    <3> QED BY <3>2, <3>3
  <2> QED BY <2>1, <2>2
<1> QED BY <1>2, <1>6, <1>7, <1>10, <1>11, <1>12 DEF Marks, later, low, len

\* Places above the lowest mark a, for the top mark b and l loops on top, after the d
\* lowest iterators are gone.
LEMMA Places ==
    ASSUME NEW a \in Nat, NEW b \in Nat, NEW d \in Nat, NEW l \in Nat, a <= b, d <= a,
           NEW p \in a - d + 1..b - d + l
    PROVE  /\ p <= b - d => p + d \in a + 1..b /\ p = (p + d) - d
           /\ ~(p <= b - d) => p - (b - d) \in 1..l /\ p = b - d + (p - (b - d))
OBVIOUS

\* What places an iterator of the next state.
LEMMA LocatedLater ==
    ASSUME UNCHANGED <<module, calls>>, NEW opened, NEW mark, NEW p,
           LET o == iterators'[p].owner
               i == o.depth
           IN  /\ i \in DOMAIN calls
               /\ p - mark[i] \in DOMAIN opened[i]
               /\ o.unit = calls[i].unit
               /\ o.at = opened[i][p - mark[i]]
               /\ iterators'[p].key = Code(o.unit)[o.at + 1].arg
    PROVE  Located(opened, mark, p)'
BY DEF Located, Code

\* The iterators that are left are those of before, moved down by d, under those of the
\* loops in s.
Opens(n, mark, d, s) ==
    /\ iterators' \in Seq(IteratorType)
    /\ Len(iterators') = mark[n] - d + Len(s)
    /\ \A p \in mark[1] + 1..mark[n] : SameLoop(iterators'[p - d], iterators[p])
    /\ \A k \in DOMAIN s :
          /\ iterators'[mark[n] - d + k].owner =
                [depth |-> n, unit |-> Running, at |-> s[k]]
          /\ iterators'[mark[n] - d + k].key = Code(Running)[s[k] + 1].arg

\* The top activation goes on with the loops of s open; d iterators from below all
\* activations may be gone.
LEMMA TopMoves ==
    ASSUME IInv, LoopInv, UnitsNested(module), calls # <<>>,
           NEW opened, NEW mark, Divided(opened, mark), Undisturbed(opened),
           UNCHANGED <<module, calls>>, status' \notin {"idle", "done"},
           NEW ip \in 0..Len(Code(Running)), GoesTo(ip),
           NEW s \in Seq(Nat), s \in Nests(Code(Running))[ip],
           NEW d \in Nat, d <= mark[1], NEW n, n = Len(calls), Opens(n, mark, d, s)
    PROVE  LoopInv'
<1> DEFINE len == Len(iterators')
           later == Reopen(opened, n, s)
           low == Lower(mark, n, d, s)
<1>0. /\ len \in Nat /\ len = mark[n] - d + Len(s) /\ Len(s) \in Nat
      /\ d \in Nat /\ d <= mark[1]
      /\ \A p \in mark[1] + 1..mark[n] : SameLoop(iterators'[p - d], iterators[p])
      /\ \A k \in DOMAIN s :
            /\ iterators'[mark[n] - d + k].owner = [depth |-> n, unit |-> Running, at |-> s[k]]
            /\ iterators'[mark[n] - d + k].key = Code(Running)[s[k] + 1].arg
      /\ frames'[Len(frames)].ip = ip
  BY DEF GoesTo, Opens
<1> HIDE DEF len
<1>1. /\ n \in Nat \ {0} /\ DOMAIN calls = 1..n /\ DOMAIN frames = 1..n /\ Len(frames) = n
      /\ mark[n] \in Nat /\ mark[1] \in Nat /\ mark[1] <= mark[n]
      /\ Len(opened[n]) \in Nat /\ Len(iterators) = mark[n] + Len(opened[n])
  BY TopOpen
<1>12. calls[n].unit = Running
  BY DEF Running
<1>2. Matched'
  BY MatchedAdvances DEF LoopInv, GoesTo
<1>3. Marks(n, opened, mark)
  BY <1>1 DEF Divided, Marks
<1>4. /\ Marks(n, later, low) /\ low[n + 1] = len
      /\ \A i \in 1..n : low[i] = mark[i] - d
  <2>1. /\ Marks(n, later, low) /\ low[n + 1] = mark[n] - d + Len(s)
        /\ \A i \in 1..n : low[i] = mark[i] - d
    BY <1>0, <1>1, <1>3, MarksLower
  <2> QED BY <1>0, <2>1
<1>5. later[n] = s /\ \A i \in 1..n : i # n => later[i] = opened[i]
  BY <1>1, <1>3 DEF Marks, Reopen
<1>6. low[1] = mark[1] - d /\ low[n] = mark[n] - d
  <2>1. 1 \in 1..n /\ n \in 1..n
    BY <1>1
  <2> QED BY <1>4, <2>1
<1> HIDE DEF later, low
<1>7. /\ frames'[n].ip = ip /\ calls[n].unit = Running
      /\ \A i \in 1..n : i # n => frames'[i] = frames[i]
  BY <1>0, <1>1, <1>12 DEF GoesTo
<1>8. \A i \in 1..n :
          /\ frames'[i].ip \in 0..Len(Code(calls[i].unit))
          /\ later[i] \in Nests(Code(calls[i].unit))[frames'[i].ip]
  <2> TAKE i \in 1..n
  <2>1. CASE i = n
    BY <1>5, <1>7, <2>1
  <2>2. CASE i # n
    <3>1. /\ frames[i].ip \in 0..Len(Code(calls[i].unit))
          /\ opened[i] \in Nests(Code(calls[i].unit))[frames[i].ip]
      BY <1>1 DEF Divided
    <3>2. later[i] = opened[i] /\ frames'[i] = frames[i]
      BY <1>5, <1>7, <2>2
    <3> QED BY <3>1, <3>2
  <2> QED BY <2>1, <2>2
<1>9. ASSUME NEW p \in low[1] + 1..len
      PROVE  LET o == iterators'[p].owner
                 i == o.depth
             IN  /\ i \in 1..n
                 /\ p - low[i] \in DOMAIN later[i]
                 /\ o.unit = calls[i].unit
                 /\ o.at = later[i][p - low[i]]
                 /\ iterators'[p].key = Code(o.unit)[o.at + 1].arg
  <2>0. /\ p <= mark[n] - d => p + d \in mark[1] + 1..mark[n] /\ p = (p + d) - d
        /\ ~(p <= mark[n] - d) => /\ p - (mark[n] - d) \in 1..Len(s)
                                  /\ p = mark[n] - d + (p - (mark[n] - d))
    <3> DEFINE a == mark[1]
               b == mark[n]
               l == Len(s)
    <3>1. p \in a - d + 1..b - d + l /\ a \in Nat /\ b \in Nat /\ l \in Nat /\ a <= b /\ d <= a
      BY <1>0, <1>1, <1>6
    <3> HIDE DEF a, b, l
    <3>2. /\ p <= b - d => p + d \in a + 1..b /\ p = (p + d) - d
          /\ ~(p <= b - d) => p - (b - d) \in 1..l /\ p = b - d + (p - (b - d))
      BY <3>1, Places
    <3> QED BY <3>2 DEF a, b, l
  <2>1. CASE p <= mark[n] - d
    <3> DEFINE q == p + d
               o == iterators[q].owner
               i == o.depth
    <3>1. q \in mark[1] + 1..mark[n] /\ p = q - d /\ q \in mark[1] + 1..Len(iterators)
      <4>1. q \in mark[1] + 1..mark[n] /\ p = q - d
        BY <2>0, <2>1
      <4>2. mark[n] <= Len(iterators) /\ Len(iterators) \in Nat
        BY <1>1
      <4> HIDE DEF q
      <4> QED BY <1>1, <4>1, <4>2
    <3>2. iterators'[p].key = iterators[q].key /\ iterators'[p].owner = o
      BY <1>0, <3>1 DEF SameLoop
    <3>3. Located(opened, mark, q)
      BY <3>1 DEF Divided
    <3>4. /\ i \in 1..n /\ q - mark[i] \in DOMAIN opened[i]
          /\ o.unit = calls[i].unit /\ o.at = opened[i][q - mark[i]]
          /\ iterators[q].key = Code(o.unit)[o.at + 1].arg
      BY <1>1, <3>3 DEF Located
    <3> HIDE DEF o, q
    <3>5. i # n
      <4> SUFFICES ASSUME i = n PROVE FALSE
        OBVIOUS
      <4>1. q - mark[n] \in DOMAIN opened[n] /\ opened[n] \in Seq(Nat)
        BY <1>1, <1>3, <3>4 DEF Marks
      <4>2. q - mark[n] >= 1
        BY <4>1
      <4> QED BY <1>1, <3>1, <4>2
    <3> HIDE DEF i
    <3>6. p - low[i] = q - mark[i]
      <4>1. mark[i] \in Nat
        <5>1. i \in 1..n + 1
          BY <1>1, <3>4
        <5> QED BY <1>3, <5>1 DEF Marks
      <4>2. low[i] = mark[i] - d
        BY <1>4, <3>4
      <4> QED BY <1>1, <3>1, <4>1, <4>2
    <3>7. later[i] = opened[i]
      BY <1>5, <3>4, <3>5
    <3> QED BY <3>2, <3>4, <3>6, <3>7 DEF i
  <2>2. CASE ~(p <= mark[n] - d)
    <3> DEFINE k == p - (mark[n] - d)
    <3>2. k \in 1..Len(s) /\ p = mark[n] - d + k
      BY <2>0, <2>2
    <3>3. k \in DOMAIN s /\ k = p - low[n]
      BY <1>6, <3>2
    <3> HIDE DEF k
    <3>4. /\ iterators'[p].owner = [depth |-> n, unit |-> Running, at |-> s[k]]
          /\ iterators'[p].key = Code(Running)[s[k] + 1].arg
      BY <1>0, <3>2, <3>3
    <3>5. n \in 1..n /\ p - low[n] \in DOMAIN later[n]
      BY <1>1, <1>5, <3>3
    <3> QED BY <1>5, <1>7, <3>3, <3>4, <3>5
  <2> QED BY <2>1, <2>2
<1>10. Divided(later, low)'
  <2>1. /\ later \in [DOMAIN calls -> Seq(Nat)] /\ low \in [1..Len(calls) + 1 -> Nat]
        /\ low[Len(calls) + 1] = Len(iterators')
        /\ \A i, j \in 1..Len(calls) + 1 : i <= j => low[i] <= low[j]
        /\ \A i \in DOMAIN calls : low[i + 1] = low[i] + Len(later[i])
    BY <1>1, <1>4 DEF Marks, len
  <2>2. \A p \in low[1] + 1..len : Located(later, low, p)'
    <3> TAKE p \in low[1] + 1..len
    <3>1. p \in low[1] + 1..len
      OBVIOUS
    <3> QED BY <1>1, <1>9, <3>1, LocatedLater
  <2>3. \A i \in DOMAIN calls : Code(calls[i].unit)' = Code(calls[i].unit)
    BY CodeStays
  <2>4. \A i \in DOMAIN calls :
           /\ frames'[i].ip \in 0..Len(Code(calls[i].unit)')
           /\ later[i] \in Nests(Code(calls[i].unit)')[frames'[i].ip]
    BY <1>1, <1>8, <2>3
  <2>5. \A p \in low[1] + 1..Len(iterators') : Located(later, low, p)'
    BY <2>2 DEF len
  <2> QED BY <2>1, <2>4, <2>5 DEF Divided
<1>11. Undisturbed(later)'
  <2>1. \A i, j \in 1..n : i < j /\ later[i] # <<>> =>
           Spares(module, calls[j].unit.n, Keys(Code(calls[i].unit), later[i]))
    <3> TAKE i, j \in 1..n
    <3> HAVE i < j /\ later[i] # <<>>
    <3>1. later[i] = opened[i]
      BY <1>1, <1>5
    <3> QED BY <1>1, <3>1 DEF Undisturbed
  <2>2. \A i \in 1..n : Code(calls[i].unit)' = Code(calls[i].unit)
    BY CodeStays
  <2> QED BY <1>1, <2>1, <2>2 DEF Undisturbed
<1> QED BY <1>2, <1>10, <1>11 DEF LoopInv
-----------------------------------------------------------------------------
(* Instructions that leave the iterators alone.                            *)

\* An instruction being executed goes on where it says, with the iterators as they were.
LEMMA MovesOn ==
    ASSUME IInv, LoopInv, UnitsNested(module), NEW op, Executing(op),
           op \notin {"ForInit", "ForNext"},
           UNCHANGED <<module, calls, iterators>>, status' = "running",
           NEW x \in Exits(Instr, Frame.ip), GoesTo(x[1])
    PROVE  LoopInv'
<1>1. calls # <<>> /\ status = "running" /\ Instr.op = op /\ ~AtEnd
  BY NextInstruction DEF Executing
<1>2. PICK opened, mark : Divided(opened, mark) /\ Undisturbed(opened)
  BY <1>1 DEF LoopInv
<1> SUFFICES ASSUME NEW n, n = Len(calls) PROVE LoopInv'
  OBVIOUS
<1> DEFINE s == opened[n]
           code == Code(Running)
<1>3. /\ s \in Seq(Nat) /\ Len(s) \in Nat
      /\ NestedAt(module, code, Frame.ip, s)
      /\ mark[n] \in Nat /\ mark[1] \in Nat
      /\ Len(iterators) = mark[n] + Len(s)
  BY <1>1, <1>2, TopOpen
<1>4. x[1] \in 0..Len(code) /\ s \in Nests(code)[x[1]]
  <2>1. Instr = code[Frame.ip + 1]
    BY DEF Instr
  <2> DEFINE w == <<x[1], s>>
  <2>2. w \in LoopExits(Instr, Frame.ip, s) /\ w[1] = x[1] /\ w[2] = s
    BY <1>1 DEF LoopExits
  <2> HIDE DEF w, code, s
  <2>3. \A v \in LoopExits(Instr, Frame.ip, s) :
           v[1] \in 0..Len(code) /\ v[2] \in Nests(code)[v[1]]
    BY <1>3, <2>1 DEF NestedAt
  <2> QED BY <2>2, <2>3
<1>5. \A k \in DOMAIN s :
         /\ iterators[mark[n] + k].owner = [depth |-> n, unit |-> Running, at |-> s[k]]
         /\ iterators[mark[n] + k].key = code[s[k] + 1].arg
  BY <1>1, <1>2, OwnLoops
<1>6. iterators \in Seq(IteratorType) /\ mark[n] - 0 = mark[n]
  BY <1>3, Types
<1>7. \A p \in mark[1] + 1..mark[n] : SameLoop(iterators'[p - 0], iterators[p])
  <2> TAKE p \in mark[1] + 1..mark[n]
  <2>1. p - 0 = p
    BY <1>3
  <2> QED BY <2>1 DEF SameLoop
<1>8. 0 \in Nat /\ 0 <= mark[1]
  BY <1>3
<1> HIDE DEF s, code
<1>9. Opens(n, mark, 0, s)
  BY <1>3, <1>5, <1>6, <1>7 DEF Opens, code
<1> QED BY <1>1, <1>2, <1>3, <1>4, <1>8, <1>9, TopMoves DEF code

\* The same, for an instruction that may fail and otherwise goes on at ip.
LEMMA GoesOnOrStops ==
    ASSUME IInv, LoopInv, UnitsNested(module), NEW op, Executing(op),
           op \notin {"ForInit", "ForNext"},
           UNCHANGED <<module, calls, iterators>>,
           status' \in {"running", "failed", "panicked"},
           NEW ip \in Nat, JumpTo(ip),
           status' = "running" => \E x \in Exits(Instr, Frame.ip) : x[1] = ip
    PROVE  LoopInv'
<1>1. calls # <<>>
  BY NextInstruction
<1>2. GoesTo(ip)
  BY <1>1, StepAdvances, TopIp DEF GoesTo
<1>3. CASE status' = "running"
  BY <1>2, <1>3, MovesOn
<1>4. CASE status' # "running"
  <2>1. Matched'
    BY <1>2, MatchedAdvances DEF GoesTo, LoopInv
  <2> QED BY <1>4, <2>1, NotRunning
<1> QED BY <1>3, <1>4

\* The same, for an instruction that goes on at the next one.
LEMMA StepNests ==
    ASSUME IInv, LoopInv, UnitsNested(module), NEW op, Executing(op),
           op \notin {"ForInit", "ForNext", "Jump", "Return", "IndexAssign"},
           UNCHANGED <<module, calls, iterators>>,
           status' \in {"running", "failed", "panicked"}, Step
    PROVE  LoopInv'
<1>1. calls # <<>> /\ Instr.op = op
  BY NextInstruction
<1>2. Frame.ip + 1 \in Nat /\ JumpTo(Frame.ip + 1)
  BY <1>1, StepJumps
<1>3. \E x \in Exits(Instr, Frame.ip) : x[1] = Frame.ip + 1
  <2> DEFINE next == <<Frame.ip + 1, 0>>
             pushed == <<Frame.ip + 1, 1>>
  <2>1. next[1] = Frame.ip + 1 /\ pushed[1] = Frame.ip + 1
    OBVIOUS
  <2>2. next \in Exits(Instr, Frame.ip) \/ pushed \in Exits(Instr, Frame.ip)
    BY <1>1 DEF Exits
  <2> HIDE DEF next, pushed
  <2> QED BY <2>1, <2>2
<1> QED BY <1>2, <1>3, GoesOnOrStops

\* The same, for one that computes a value.
LEMMA ComputeNests ==
    ASSUME IInv, LoopInv, UnitsNested(module), NEW op \in Producing, Executing(op),
           UNCHANGED <<module, calls, iterators>>, Step, NEW r, NEW n,
           Enough(n) => r \in Outcome, Compute(n, r)
    PROVE  LoopInv'
<1>1. status' \in {"running", "failed", "panicked"}
  BY DEF Compute, Underflow, After, Outcome
<1>2. op \notin {"ForInit", "ForNext", "Jump", "Return", "IndexAssign"}
  BY DEF Producing, BinaryOps, UnaryOps, Comparisons
<1> QED BY <1>1, <1>2, StepNests

\* The same, for one that consumes its operands.
LEMMA ConsumeNests ==
    ASSUME IInv, LoopInv, UnitsNested(module), NEW op, Executing(op),
           op \notin {"ForInit", "ForNext", "Jump", "Return", "IndexAssign"},
           UNCHANGED <<module, calls, iterators>>, Step, NEW n, NEW ok, Consume(n, ok)
    PROVE  LoopInv'
<1>1. status' \in {"running", "failed", "panicked"}
  BY DEF Consume, Underflow, After
<1> QED BY <1>1, StepNests

\* An instruction computes a value, or fails as its operands are of the wrong types.
Computing ==
    \E op \in Producing : \E n, r :
       Executing(op) /\ Compute(n, r) /\ (Enough(n) => r \in Outcome)

\* The instructions that work on operands and locals compute.
LEMMA OperationsCompute ==
    ASSUME IInv, LoadConst \/ LoadVar \/ Binary \/ Unary \/ GetEventField \/ IndexGet
    PROVE  Computing
<1>1. CASE LoadConst
  <2>1. /\ Executing("LoadConst") /\ Instr.arg \in Nat /\ IsConstant(Instr.arg)
        /\ Compute(0, Ok(Constant(Instr.arg)))
    BY <1>1, NextInstruction DEF LoadConst
  <2>2. Ok(Constant(Instr.arg)) \in Outcome
    BY <2>1, ConstantType, MakeOutcome
  <2> QED BY <2>1, <2>2 DEF Computing, Producing
<1>2. CASE LoadVar
  <2> DEFINE r == IF Instr.arg < Len(Frame.locals)
                  THEN Ok(Frame.locals[Instr.arg + 1]) ELSE Panic
  <2>1. Executing("LoadVar") /\ Compute(0, r)
    BY <1>2 DEF LoadVar
  <2>2. Instr.arg \in Nat /\ Frame.locals \in Seq(Value)
    BY <2>1, NextInstruction, TopFrame DEF FrameType
  <2>3. Instr.arg < Len(Frame.locals) => Frame.locals[Instr.arg + 1] \in Value
    BY <2>2
  <2>4. r \in Outcome
    BY <2>3, MakeOutcome
  <2> HIDE DEF r
  <2> QED BY <2>1, <2>4 DEF Computing, Producing
<1>3. CASE Binary
  <2>1. PICK op \in BinaryOps :
           Executing(op) /\ Compute(2, BinaryOp(op, Operand(2), Operand(1)))
    BY <1>3 DEF Binary
  <2>2. Enough(2) => BinaryOp(op, Operand(2), Operand(1)) \in Outcome
    BY OperandTypes, BinaryOpType
  <2>3. op \in Producing
    BY DEF Producing
  <2> QED BY <2>1, <2>2, <2>3 DEF Computing
<1>4. CASE Unary
  <2>1. PICK op \in UnaryOps : Executing(op) /\ Compute(1, UnaryOp(op, Operand(1)))
    BY <1>4 DEF Unary
  <2>2. Enough(1) => UnaryOp(op, Operand(1)) \in Outcome
    BY OperandTypes, UnaryOpType
  <2>3. op \in Producing
    BY DEF Producing
  <2> QED BY <2>1, <2>2, <2>3 DEF Computing
<1>5. CASE GetEventField
  <2> DEFINE r == IF TypeOf(Operand(1)) # "event" THEN Err
                  ELSE IF Name \in Present(Operand(1)[2])
                  THEN Ok(Operand(1)[2][Name]) ELSE Ok(Unit)
  <2>1. Executing("GetEventField") /\ Compute(1, r)
    BY <1>5 DEF GetEventField, ExecutingNamed
  <2>2. Enough(1) => Operand(1) \in Value
    BY OperandTypes
  <2>3. Enough(1) /\ TypeOf(Operand(1)) = "event" => Operand(1)[2] \in EventFields
    BY <2>2, Payload
  <2>4. Enough(1) => r \in Outcome
    BY <2>2, <2>3, FieldType, MakeOutcome, MakeValue
  <2> HIDE DEF r
  <2> QED BY <2>1, <2>4 DEF Computing, Producing
<1>6. CASE IndexGet
  <2> DEFINE ok == Exists(tables, Name) /\ InRange(tables, Name, Operand(1))
             r == IF ok THEN Ok(Str(RowText(RowAt(tables, Name, Operand(1))))) ELSE Err
  <2>1. Executing("IndexGet") /\ Compute(1, r)
    BY <1>6 DEF IndexGet, ExecutingNamed
  <2>2. Enough(1) => Operand(1) \in Value
    BY OperandTypes
  <2>3. Enough(1) /\ ok => RowText(RowAt(tables, Name, Operand(1))) \in Text
    BY <2>2, RowAtType, RowTextType
  <2> HIDE DEF ok
  <2>4. Enough(1) => r \in Outcome
    BY <2>3, MakeValue, MakeOutcome
  <2> HIDE DEF r
  <2> QED BY <2>1, <2>4 DEF Computing, Producing
<1> QED BY <1>1, <1>2, <1>3, <1>4, <1>5, <1>6

\* Calls of built-ins and host functions compute.
LEMMA LibraryComputes ==
    ASSUME IInv, CallBuiltin \/ CallCount \/ CallFilter \/ CallSort
    PROVE  Computing
<1>1. Executing("Call") /\ "Call" \in Producing
  BY DEF CallBuiltin, CallCount, CallFilter, CallSort, ExecutingCall, ExecutingNamed,
         Producing
<1>2. CASE CallBuiltin
  <2> DEFINE n == Arity(Name)
             r == Builtin(Name, Operands(n))
  <2>1. Name \in BuiltinNames /\ Compute(n, r) /\ n \in Nat
    BY <1>2, ArityType DEF CallBuiltin, ExecutingCall
  <2> HIDE DEF n
  <2>2. Enough(n) => r \in Outcome
    BY <2>1, OperandTypes, BuiltinType
  <2> HIDE DEF r
  <2> QED BY <1>1, <2>1, <2>2 DEF Computing
<1>3. CASE CallCount
  <2> DEFINE name == AsText(Operand(1))
             r == IF Exists(tables, name)
                  THEN Ok(Int64(Wrap(Len(tables[name].rows)))) ELSE Err
  <2>1. Compute(1, r)
    BY <1>3 DEF CallCount
  <2> HIDE DEF name
  <2>2. Exists(tables, name) => Len(tables[name].rows) \in Int
    BY RowCount
  <2>3. r \in Outcome
    BY <2>2, WrappedValue, MakeOutcome
  <2> HIDE DEF r
  <2> QED BY <1>1, <2>1, <2>3 DEF Computing
<1>4. CASE CallFilter
  <2> DEFINE name == AsText(Operand(3))
             field == AsText(Operand(2))
             kept == Matching(tables, name, field, AsText(Operand(1)))
             ok == Enough(3) /\ Sortable(tables, name, field)
             r == IF ok THEN Ok(Int64(Wrap(Cardinality(kept)))) ELSE Err
  <2>1. Compute(3, r)
    BY <1>4, Zenon DEF CallFilter
  <2> HIDE DEF name, field
  <2>2. ok => Cardinality(kept) \in Int
    BY CardinalityOfRows DEF Sortable
  <2> HIDE DEF ok, kept
  <2>3. r \in Outcome
    BY <2>2, WrappedValue, MakeOutcome
  <2> HIDE DEF r
  <2> QED BY <1>1, <2>1, <2>3 DEF Computing
<1>5. CASE CallSort
  <2> DEFINE ok == Enough(2) /\ Sortable(tables, AsText(Operand(2)), AsText(Operand(1)))
             r == IF ok THEN Ok(Unit) ELSE Err
  <2>1. Compute(2, r)
    BY <1>5, Zenon DEF CallSort
  <2> HIDE DEF ok
  <2>2. r \in Outcome
    BY MakeValue, MakeOutcome
  <2> HIDE DEF r
  <2> QED BY <1>1, <2>1, <2>2 DEF Computing
<1> QED BY <1>2, <1>3, <1>4, <1>5

\* Computing leaves every loop where it is.
LEMMA ComputingNests ==
    ASSUME IInv, LoopInv, UnitsNested(module), UNCHANGED iterators,
           \/ LoadConst \/ LoadVar \/ Binary \/ Unary \/ GetEventField \/ IndexGet
           \/ CallBuiltin \/ CallCount \/ CallFilter \/ CallSort
    PROVE  LoopInv'
<1>1. Computing
  BY OperationsCompute, LibraryComputes
<1>2. Step /\ UNCHANGED <<module, calls>>
  <2>1. CASE LoadConst \/ LoadVar \/ Binary \/ Unary \/ GetEventField \/ IndexGet
    BY <2>1, Zenon DEF LoadConst, LoadVar, Binary, Unary, GetEventField, IndexGet, host
  <2>2. CASE CallBuiltin \/ CallCount \/ CallFilter \/ CallSort
    BY <2>2, Zenon DEF CallBuiltin, CallCount, CallFilter, CallSort, host
  <2> QED BY <2>1, <2>2
<1>3. PICK op \in Producing : \E n, r :
         Executing(op) /\ Compute(n, r) /\ (Enough(n) => r \in Outcome)
  BY <1>1, Zenon DEF Computing
<1> QED BY <1>2, <1>3, ComputeNests

\* An instruction that fails leaves nothing to keep.
LEMMA FailingNests ==
    ASSUME IInv, LoopInv, UnitsNested(module), BadConstant \/ CallUndefined
    PROVE  LoopInv'
<1>1. calls # <<>>
  BY NextInstruction DEF BadConstant, CallUndefined, ExecutingNamed
<1>2. Step /\ UNCHANGED calls /\ status' = "failed"
  BY DEF BadConstant, CallUndefined
<1>3. Matched'
  BY <1>1, <1>2, StepAdvances, MatchedAdvances DEF LoopInv
<1> QED BY <1>2, <1>3, NotRunning

\* Storing goes on at the next instruction.
LEMMA StoreVarNests ==
    ASSUME IInv, LoopInv, UnitsNested(module), UNCHANGED iterators, StoreVar PROVE LoopInv'
<1>1. Executing("StoreVar") /\ UNCHANGED <<module, calls>>
  BY DEF StoreVar, host
<1>2. calls # <<>> /\ status = "running" /\ Instr.op = "StoreVar"
  BY <1>1, NextInstruction
<1>3. CASE ~Enough(1)
  <2>1. Step /\ status' = "failed"
    BY <1>3 DEF StoreVar, Underflow
  <2> QED BY <1>1, <2>1, StepNests
<1>4. CASE Enough(1)
  <2> DEFINE f == [unit |-> Frame.unit,
                   locals |-> Stored(Frame.locals, Instr.arg, Operand(1)),
                   ip |-> Frame.ip + 1]
             x == <<Frame.ip + 1, 1>>
  <2>1. frames' = [frames EXCEPT ![Len(frames)] = f] /\ UNCHANGED status
    BY <1>4 DEF StoreVar
  <2>2. f.ip = Frame.ip + 1
    OBVIOUS
  <2>3. x \in Exits(Instr, Frame.ip) /\ x[1] = Frame.ip + 1
    BY <1>2 DEF Exits, Producing, BinaryOps, UnaryOps, Comparisons
  <2> HIDE DEF f, x
  <2>4. Len(frames) \in DOMAIN frames
    BY <1>2, TopFrame
  <2>5. Advances /\ frames' \in Seq(FrameType)
    BY StoreVarAdvances
  <2>6. GoesTo(x[1])
    BY <2>1, <2>2, <2>3, <2>4, <2>5 DEF GoesTo
  <2> QED BY <1>1, <1>2, <2>1, <2>3, <2>6, MovesOn
<1> QED BY <1>3, <1>4

\* Jumps go on at the next instruction or at their argument.
LEMMA JumpNests ==
    ASSUME IInv, LoopInv, UnitsNested(module), UNCHANGED iterators,
           Jump \/ Branch("JumpIfFalse", FALSE) \/ Branch("JumpIfTrue", TRUE)
    PROVE  LoopInv'
<1>1. PICK op \in {"Jump", "JumpIfFalse", "JumpIfTrue"} : Executing(op)
  BY DEF Jump, Branch
<1>2. calls # <<>> /\ status = "running" /\ Instr.op = op /\ Instr.arg \in Nat
  BY <1>1, NextInstruction
<1>3. /\ UNCHANGED <<module, calls>>
      /\ Step \/ JumpTo(Instr.arg)
      /\ status' \in {"running", "failed", "panicked"}
      /\ op = "Jump" => JumpTo(Instr.arg)
  <2>1. CASE Jump
    BY <1>2, <2>1 DEF Jump, host
  <2>2. CASE Branch("JumpIfFalse", FALSE) \/ Branch("JumpIfTrue", TRUE)
    BY <1>1, <1>2, <2>2, NextInstruction DEF Branch, host, Consume, Underflow, After
  <2> QED BY <2>1, <2>2
<1>4. CASE JumpTo(Instr.arg)
  <2> DEFINE x == <<Instr.arg, 0>>
  <2>0. x \in Exits(Instr, Frame.ip)
    BY <1>1, OpcodeTable
  <2>1. x \in Exits(Instr, Frame.ip) /\ x[1] = Instr.arg
    BY <2>0
  <2> HIDE DEF x
  <2>2. \E y \in Exits(Instr, Frame.ip) : y[1] = Instr.arg
    BY <2>1
  <2>3. op \notin {"ForInit", "ForNext"} /\ UNCHANGED <<module, calls, iterators>>
    BY <1>1, <1>3
  <2> QED BY <1>1, <1>2, <1>3, <1>4, <2>2, <2>3, GoesOnOrStops
<1>5. CASE ~JumpTo(Instr.arg)
  BY <1>1, <1>3, <1>5, StepNests
<1> QED BY <1>4, <1>5

\* IndexAssign skips the Pop that names the column, or fails.
LEMMA IndexAssignNests ==
    ASSUME IInv, LoopInv, UnitsNested(module), UNCHANGED iterators, IndexAssign
    PROVE  LoopInv'
<1> DEFINE next == Frame.ip + 2
           code == Code(Running)
           hasField == /\ next <= Len(code)
                       /\ code[next].op = "Pop"
                       /\ IsName(code[next].arg)
           field == Constant(code[next].arg)[2]
           ok == /\ Enough(2) /\ hasField
                 /\ CanAssign(tables, Name, Operand(1), field)
           to == Frame.ip + (IF ok THEN 2 ELSE 1)
<1>1. Executing("IndexAssign") /\ UNCHANGED <<module, calls>>
  BY DEF IndexAssign, ExecutingNamed, host
<1>2. Consume(2, ok) /\ JumpTo(to)
  BY Zenon DEF IndexAssign
<1> HIDE DEF ok
<1>3. /\ calls # <<>> /\ Instr.op = "IndexAssign" /\ Frame.ip \in Nat
  BY <1>1, NextInstruction, TopFrame DEF FrameType
<1>4. to \in Nat /\ (ok => to = Frame.ip + 2)
  BY <1>3
<1>5. /\ status' \in {"running", "failed", "panicked"}
      /\ status' = "running" => ok
  BY <1>2 DEF Consume, Underflow, After
<1>6. ok => \E x \in Exits(Instr, Frame.ip) : x[1] = to
  <2> DEFINE x == <<Frame.ip + 2, 0>>
  <2>0. x \in Exits(Instr, Frame.ip)
    BY <1>1, OpcodeTable
  <2>1. x \in Exits(Instr, Frame.ip) /\ x[1] = Frame.ip + 2
    BY <2>0
  <2> HIDE DEF x
  <2> QED BY <1>4, <2>1
<1> HIDE DEF to
<1> QED BY <1>1, <1>2, <1>4, <1>5, <1>6, GoesOnOrStops

\* Inserting a row goes on at the next instruction, or fails.
LEMMA InsertTableNests ==
    ASSUME IInv, LoopInv, UnitsNested(module), UNCHANGED iterators, InsertTable
    PROVE  LoopInv'
<1>1. Executing("InsertTable") /\ UNCHANGED <<module, calls>> /\ Step
  BY DEF InsertTable, ExecutingNamed, host
<1>2. CASE Exists(tables, Name)
  <2> DEFINE n == Len(tables[Name].fields)
             ok == Enough(n) /\ CanInsert(tables, Name, Operands(n))
  <2>1. Consume(n, ok)
    BY <1>2, Zenon DEF InsertTable
  <2> HIDE DEF n, ok
  <2> QED BY <1>1, <2>1, ConsumeNests
<1>3. CASE ~Exists(tables, Name)
  <2>1. status' = "failed"
    BY <1>3 DEF InsertTable
  <2> QED BY <1>1, <2>1, StepNests
<1> QED BY <1>2, <1>3

\* The other statements go on at the next instruction, or fail.
LEMMA StatementNests ==
    ASSUME IInv, LoopInv, UnitsNested(module), UNCHANGED iterators,
           Alert \/ PrintValue \/ ShowTable \/ ExportTable \/ PopOperand \/ NoOperation
    PROVE  LoopInv'
<1>1. UNCHANGED <<module, calls>> /\ Step
  BY DEF Alert, PrintValue, ShowTable, ExportTable, PopOperand, NoOperation, host
<1>2. CASE Alert
  BY <1>1, <1>2, ConsumeNests DEF Alert
<1>3. CASE PrintValue
  BY <1>1, <1>3, ConsumeNests DEF PrintValue
<1>4. CASE ShowTable
  BY <1>1, <1>4, ConsumeNests DEF ShowTable, ExecutingNamed
<1>5. CASE ExportTable
  <2> DEFINE path == AsText(Operand(1))
             ok == /\ Enough(1) /\ CanOpen(tables, Name, path)
                   /\ Fits(tables, Name, path)
  <2>1. Executing("ExportTable") /\ Consume(1, ok)
    BY <1>5, Zenon DEF ExportTable, ExecutingNamed
  <2> HIDE DEF ok
  <2> QED BY <1>1, <2>1, ConsumeNests
<1>6. CASE PopOperand \/ NoOperation
  <2>1. PICK op \in {"Pop", "DispatchEvent"} : Executing(op)
    BY <1>6 DEF PopOperand, NoOperation
  <2>2. status' = "running"
    BY <1>6, <2>1, NextInstruction DEF PopOperand, NoOperation
  <2> QED BY <1>1, <2>1, <2>2, StepNests
<1> QED BY <1>2, <1>3, <1>4, <1>5, <1>6
-----------------------------------------------------------------------------
(* Loops that begin.                                                       *)

\* The sizes of the intervals that are counted here.
LEMMA IntervalSize ==
    ASSUME NEW a \in Nat, NEW b \in Nat, a <= b
    PROVE  IsFiniteSet(a + 1..b) /\ Cardinality(a + 1..b) = b - a
<1>1. a + 1 \in Int /\ b \in Int
  OBVIOUS
<1>2. /\ IsFiniteSet(a + 1..b)
      /\ Cardinality(a + 1..b) = IF a + 1 > b THEN 0 ELSE b - (a + 1) + 1
  BY <1>1, FS_Interval
<1>3. (IF a + 1 > b THEN 0 ELSE b - (a + 1) + 1) = b - a
  OBVIOUS
<1> QED BY <1>2, <1>3

\* An increasing enumeration of places among 1..len ends with all those above a if it
\* has them all.
LEMMA KeptSuffix ==
    ASSUME NEW len \in Nat, NEW a \in Nat, a <= len, NEW places \in SUBSET (1..len),
           a + 1..len \subseteq places, NEW kept \in Increasing(places),
           NEW c, c = Cardinality(places)
    PROVE  /\ c \in Nat /\ c <= len /\ len - c <= a /\ DOMAIN kept = 1..c
           /\ \A p \in a + 1..len : p - (len - c) \in 1..c /\ kept[p - (len - c)] = p
<1>1. /\ IsFiniteSet(places) /\ c \in Nat /\ c <= len /\ len - a <= c
  <2>1. IsFiniteSet(1..len) /\ Cardinality(1..len) = len
    <3>1. IsFiniteSet(0 + 1..len) /\ Cardinality(0 + 1..len) = len - 0
      BY IntervalSize
    <3> QED BY <3>1
  <2>2. IsFiniteSet(places) /\ c <= len
    BY <2>1, FS_Subset
  <2>3. c \in Nat
    BY <2>2, FS_CardinalityType
  <2>4. Cardinality(a + 1..len) = len - a
    BY IntervalSize
  <2>5. Cardinality(a + 1..len) <= c
    BY <2>2, FS_Subset
  <2> QED BY <2>2, <2>3, <2>4, <2>5
<1>2. /\ kept \in [1..c -> places]
      /\ \A i, j \in 1..c : i < j => kept[i] < kept[j]
  BY DEF Increasing
<1>3. \A i \in 1..c : kept[i] \in 1..len /\ kept[i] \in Int
  <2> TAKE i \in 1..c
  <2>1. kept[i] \in places
    BY <1>2
  <2>2. kept[i] \in 1..len
    BY <2>1
  <2> QED BY <2>2
<1>4. \A i, j \in 1..c : kept[i] = kept[j] => i = j
  <2> TAKE i, j \in 1..c
  <2>1. i \in Int /\ j \in Int /\ kept[i] \in Int /\ kept[j] \in Int
    BY <1>1, <1>3
  <2> QED BY <1>2, <2>1
<1>5. \A p \in places : \E j \in 1..c : kept[j] = p
  <2>1. kept \in Injection(1..c, places)
    BY <1>2, <1>4 DEF Injection, IsInjective
  <2>2. Cardinality(1..c) = c
    <3>1. Cardinality(0 + 1..c) = c - 0
      BY <1>1, IntervalSize
    <3> QED BY <1>1, <3>1
  <2>3. kept \in Surjection(1..c, places)
    BY <1>1, <2>1, <2>2, FS_Injection
  <2> QED BY <2>3 DEF Surjection
<1>6. ASSUME NEW p \in a + 1..len
      PROVE  p - (len - c) \in 1..c /\ kept[p - (len - c)] = p
  <2>1. PICK j \in 1..c : kept[j] = p
    BY <1>5
  <2> DEFINE S == j + 1..c
             T == p + 1..len
             g == [i \in S |-> kept[i]]
  <2>2. j \in Nat /\ j <= c /\ p \in Nat /\ p <= len /\ j \in 1..c
    BY <1>1, <2>1
  <2>3. \A i \in S : i \in 1..c /\ j < i
    BY <1>1, <2>2
  <2>4. \A i \in S : kept[i] \in T
    <3> TAKE i \in S
    <3>1. kept[j] < kept[i] /\ kept[i] \in 1..len
      BY <1>2, <1>3, <2>2, <2>3
    <3> QED BY <2>1, <2>2, <3>1
  <2>5. g \in [S -> T]
    BY <2>4
  <2>6. g \in Injection(S, T)
    BY <1>4, <2>3, <2>5 DEF Injection, IsInjective
  <2>7. g \in Surjection(S, T)
    <3>1. \A q \in T : \E i \in S : g[i] = q
      <4> TAKE q \in T
      <4>1. q \in a + 1..len /\ q > p /\ q \in Nat
        BY <2>2
      <4>2. PICK i \in 1..c : kept[i] = q
        BY <1>5, <4>1
      <4>3. j < i
        <5>1. i = j \/ i < j \/ j < i
          BY <1>1, <2>2
        <5>2. i < j => kept[i] < kept[j]
          BY <1>2, <2>2
        <5> QED BY <2>1, <2>2, <4>1, <4>2, <5>1, <5>2
      <4>4. i \in S
        BY <1>1, <2>2, <4>3
      <4> QED BY <4>2, <4>4
    <3> QED BY <2>5, <3>1 DEF Surjection
  <2> HIDE DEF g
  <2>8. g \in Bijection(S, T)
    BY <2>6, <2>7 DEF Bijection
  <2>9. Cardinality(S) = c - j /\ IsFiniteSet(S) /\ Cardinality(T) = len - p
    BY <1>1, <2>2, IntervalSize
  <2>10. Cardinality(S) = Cardinality(T)
    <3>1. ExistsBijection(S, T)
      BY <2>8 DEF ExistsBijection
    <3> QED BY <2>9, <3>1, FS_Bijection
  <2>11. c - j = len - p
    BY <2>9, <2>10
  <2>12. j = p - (len - c)
    BY <1>1, <2>2, <2>11
  <2> QED BY <2>1, <2>2, <2>12
<1> QED BY <1>1, <1>2, <1>6

\* A unit reaches itself.
LEMMA ReachesItself ==
    ASSUME NEW m, NEW f \in DOMAIN m.functions PROVE f \in ReachedFrom(m, f)
BY DEF ReachedFrom

\* The iterators a ForInit drops are all below those of open loops: none of these is
\* over its table.
LEMMA OthersSpared ==
    ASSUME IInv, LoopInv, UnitsNested(module), Executing("ForInit"),
           NEW opened, NEW mark, Divided(opened, mark), Undisturbed(opened),
           NEW p \in mark[1] + 1..Len(iterators)
    PROVE  iterators[p].key # Instr.arg
<1> SUFFICES ASSUME NEW n, n = Len(calls) PROVE iterators[p].key # Instr.arg
  OBVIOUS
<1> DEFINE o == iterators[p].owner
           i == o.depth
           code == Code(Running)
<1>1. calls # <<>> /\ ~AtEnd /\ Instr.op = "ForInit"
  BY NextInstruction DEF Executing
<1>2. /\ n \in Nat \ {0} /\ DOMAIN calls = 1..n /\ code \in Seq(Instruction)
      /\ Frame.ip \in 0..Len(code) /\ Len(code) \in Nat
      /\ NestedAt(module, code, Frame.ip, opened[n])
  BY <1>1, TopOpen
<1>3. /\ i \in 1..n /\ p - mark[i] \in DOMAIN opened[i] /\ o.unit = calls[i].unit
      /\ o.at = opened[i][p - mark[i]] /\ iterators[p].key = Code(o.unit)[o.at + 1].arg
  BY <1>2 DEF Divided, Located
<1>4. iterators[p].key \in Keys(Code(calls[i].unit), opened[i])
  BY <1>3 DEF Keys
<1>5. CASE i = n
  <2>1. Instr.arg \notin Keys(code, opened[n])
    BY <1>1, <1>2 DEF NestedAt, Instr
  <2> QED BY <1>4, <1>5, <2>1 DEF Running
<1>6. CASE i # n
  <2>1. i < n /\ i \in DOMAIN calls /\ n \in DOMAIN calls /\ n > 1
    BY <1>2, <1>3, <1>6
  <2>2. opened[i] # <<>>
    BY <1>3
  <2>3. Spares(module, calls[n].unit.n, Keys(Code(calls[i].unit), opened[i]))
    <3> HIDE DEF i
    <3> QED BY <2>1, <2>2 DEF Undisturbed
  <2>4. Running.kind = "function" /\ Running \in Units /\ Running = calls[n].unit
    BY <1>1, <2>1, TopFrame DEF LoopInv, Running
  <2>5. Running.n \in DOMAIN module.functions /\ code = module.functions[Running.n].code
    BY <2>4 DEF Units, Code
  <2>6. LoopedOver(code) \cap Keys(Code(calls[i].unit), opened[i]) = {}
    BY <2>3, <2>4, <2>5, ReachesItself DEF Spares
  <2>7. Instr.arg \in LoopedOver(code)
    <3>1. Frame.ip + 1 \in DOMAIN code
      BY <1>1, <1>2 DEF AtEnd
    <3>2. Instr \in Range(code)
      BY <3>1 DEF Instr, Range
    <3> QED BY <1>1, <3>2 DEF LoopedOver
  <2> QED BY <1>4, <2>6, <2>7
<1> QED BY <1>5, <1>6

\* What succeeds at the top frame, with the loops in s open there afterwards.
LEMMA NestMoves ==
    ASSUME IInv, LoopInv, UnitsNested(module), NEW op, Executing(op),
           NEW opened, NEW mark, Divided(opened, mark), Undisturbed(opened),
           UNCHANGED <<module, calls>>, status' = "running",
           NEW n, n = Len(calls), NEW ip \in Nat, JumpTo(ip),
           NEW s, <<ip, s>> \in LoopExits(Instr, Frame.ip, opened[n]),
           NEW d \in Nat, d <= mark[1], Opens(n, mark, d, s)
    PROVE  LoopInv'
<1>1. calls # <<>> /\ ~AtEnd
  BY NextInstruction DEF Executing
<1>2. NestedAt(module, Code(Running), Frame.ip, opened[n])
  BY <1>1, TopOpen
<1>3. ip \in 0..Len(Code(Running)) /\ s \in Nests(Code(Running))[ip]
  <2> DEFINE w == <<ip, s>>
  <2>1. w \in LoopExits(Instr, Frame.ip, opened[n]) /\ w[1] = ip /\ w[2] = s
    OBVIOUS
  <2> HIDE DEF w
  <2>2. w[1] \in 0..Len(Code(Running)) /\ w[2] \in Nests(Code(Running))[w[1]]
    BY <1>2, <2>1 DEF NestedAt, Instr
  <2> QED BY <2>1, <2>2
<1>4. s \in Seq(Nat)
  <2>1. Nested(module, Code(Running))
    BY <1>1, TopNested
  <2> QED BY <1>3, <2>1, Zenon DEF Nested
<1>5. GoesTo(ip)
  BY <1>1, StepAdvances, TopIp DEF GoesTo
<1> QED BY <1>1, <1>3, <1>4, <1>5, TopMoves

\* What a ForInit makes of the iterators if all those above a are over other tables.
LEMMA ForInitSelects ==
    ASSUME IInv, ForInit, Exists(tables, Name), calls # <<>>,
           NEW len, len = Len(iterators), NEW a \in Nat, a <= len,
           \A p \in a + 1..len : iterators[p].key # Instr.arg
    PROVE  \E d \in Nat :
              /\ d <= a /\ iterators' \in Seq(IteratorType)
              /\ Len(iterators') = len - d + 1
              /\ \A p \in a + 1..len : iterators'[p - d] = iterators[p]
              /\ iterators'[len - d + 1].key = Instr.arg
              /\ iterators'[len - d + 1].owner = Owner(Frame.ip)
<1> DEFINE places == {i \in DOMAIN iterators : iterators[i].key # Instr.arg}
           fresh == [key |-> Instr.arg, rows |-> tables[Name].rows,
                     owner |-> Owner(Frame.ip)]
<1>1. PICK kept \in Increasing(places) :
         iterators' = Append([i \in DOMAIN kept |-> iterators[kept[i]]], fresh)
  BY DEF ForInit
<1> DEFINE older == [i \in DOMAIN kept |-> iterators[kept[i]]]
<1>2. places \in SUBSET DOMAIN iterators /\ iterators \in Seq(IteratorType)
  BY Types
<1>3. fresh.key = Instr.arg /\ fresh.owner = Owner(Frame.ip)
  OBVIOUS
<1>4. fresh \in IteratorType
  <2>1. Instr.arg \in Nat
    BY NextInstruction DEF ForInit, ExecutingNamed
  <2> QED BY <2>1, OwnerType, RowCount DEF IteratorType
<1>5. len \in Nat /\ DOMAIN iterators = 1..len
  BY <1>2
<1>6. a + 1..len \subseteq places
  <2>1. \A p \in a + 1..len : p \in 1..len
    BY <1>5
  <2> QED BY <1>5, <2>1
<1> HIDE DEF places, fresh
<1>7. older \in Seq(IteratorType) /\ DOMAIN kept = 1..Len(older)
  BY <1>2, SelectionType
<1>8. \A c : c = Cardinality(places) =>
         /\ c \in Nat /\ c <= len /\ len - c <= a /\ DOMAIN kept = 1..c
         /\ \A p \in a + 1..len : p - (len - c) \in 1..c /\ kept[p - (len - c)] = p
  <2>1. places \in SUBSET (1..len)
    BY <1>2, <1>5
  <2> QED BY <1>5, <1>6, <2>1, KeptSuffix
<1>9. iterators' = Append(older, fresh)
  BY <1>1
<1>10. \A i \in 1..Len(older) : older[i] = iterators[kept[i]]
  BY <1>7
<1> HIDE DEF older
<1> SUFFICES ASSUME NEW c, c = Cardinality(places), NEW d, d = len - c
             PROVE  /\ d \in Nat /\ d <= a /\ iterators' \in Seq(IteratorType)
                    /\ Len(iterators') = len - d + 1
                    /\ \A p \in a + 1..len : iterators'[p - d] = iterators[p]
                    /\ iterators'[len - d + 1] = fresh
  BY <1>3
<1>11. /\ c \in Nat /\ c <= len /\ d <= a /\ DOMAIN kept = 1..c
       /\ \A p \in a + 1..len : p - d \in 1..c /\ kept[p - d] = p
  BY <1>8
<1>12. Len(older) = c
  BY <1>7, <1>11
<1>13. /\ iterators' \in Seq(IteratorType) /\ Len(iterators') = c + 1
       /\ iterators'[c + 1] = fresh /\ \A i \in 1..c : iterators'[i] = older[i]
  BY <1>4, <1>7, <1>9, <1>12
<1>14. d \in Nat /\ len - d + 1 = c + 1
  BY <1>5, <1>11
<1>15. \A p \in a + 1..len : iterators'[p - d] = iterators[p]
  <2> TAKE p \in a + 1..len
  <2>1. p - d \in 1..c /\ kept[p - d] = p
    BY <1>11
  <2> DEFINE q == p - d
  <2> HIDE DEF q
  <2>2. q \in 1..c /\ kept[q] = p
    BY <2>1 DEF q
  <2>3. iterators'[q] = iterators[p]
    BY <1>10, <1>12, <1>13, <2>2
  <2> QED BY <2>3 DEF q
<1> QED BY <1>11, <1>13, <1>14, <1>15

\* A loop begins, with a new iterator on top.
LEMMA ForInitNests ==
    ASSUME IInv, LoopInv, UnitsNested(module), ForInit PROVE LoopInv'
<1>1. /\ Executing("ForInit") /\ Step /\ UNCHANGED <<module, calls>>
  BY DEF ForInit, ExecutingNamed, host
<1>2. /\ calls # <<>> /\ status = "running" /\ Instr.op = "ForInit" /\ ~AtEnd
  BY <1>1, NextInstruction DEF Executing
<1>3. Frame.ip + 1 \in Nat /\ Frame.ip \in Nat /\ JumpTo(Frame.ip + 1)
  BY <1>1, <1>2, StepJumps, TopFrame DEF FrameType
<1>4. CASE ~Exists(tables, Name)
  <2>1. status' = "failed"
    BY <1>4 DEF ForInit
  <2>2. Matched'
    BY <1>1, <1>2, StepAdvances, MatchedAdvances DEF LoopInv
  <2> QED BY <1>1, <2>1, <2>2, NotRunning
<1>5. CASE Exists(tables, Name)
  <2>1. PICK opened, mark : Divided(opened, mark) /\ Undisturbed(opened)
    BY <1>2 DEF LoopInv
  <2> SUFFICES ASSUME NEW n, n = Len(calls), NEW a, a = mark[1],
                      NEW len, len = Len(iterators)
               PROVE  LoopInv'
    OBVIOUS
  <2> DEFINE s == opened[n]
             t == Append(s, Frame.ip)
  <2>2. /\ a \in Nat /\ mark[n] \in Nat /\ a <= mark[n] /\ n = Len(frames)
        /\ s \in Seq(Nat) /\ Len(s) \in Nat /\ len = mark[n] + Len(s)
    BY <1>2, <2>1, TopOpen
  <2>3. PICK d \in Nat :
           /\ d <= a /\ iterators' \in Seq(IteratorType)
           /\ Len(iterators') = len - d + 1
           /\ \A p \in a + 1..len : iterators'[p - d] = iterators[p]
           /\ iterators'[len - d + 1].key = Instr.arg
           /\ iterators'[len - d + 1].owner = Owner(Frame.ip)
    <3>1. \A p \in a + 1..len : iterators[p].key # Instr.arg
      BY <1>1, <2>1, OthersSpared
    <3>2. a \in Nat /\ a <= len
      BY <2>2
    <3> HIDE DEF s
    <3> QED BY <1>2, <1>5, <3>1, <3>2, ForInitSelects
  <2>4. /\ Len(t) = Len(s) + 1 /\ DOMAIN t = 1..Len(s) + 1 /\ t[Len(s) + 1] = Frame.ip
        /\ \A k \in 1..Len(s) : t[k] = s[k]
    BY <1>3, <2>2
  <2>5. <<Frame.ip + 1, t>> \in LoopExits(Instr, Frame.ip, s)
    BY <1>2 DEF LoopExits
  <2> HIDE DEF t
  <2>6. \A k \in 1..Len(s) :
           /\ iterators[mark[n] + k].owner = [depth |-> n, unit |-> Running, at |-> s[k]]
           /\ iterators[mark[n] + k].key = Code(Running)[s[k] + 1].arg
    <3> TAKE k \in 1..Len(s)
    <3>1. k \in DOMAIN opened[Len(calls)]
      BY <2>2
    <3> QED BY <1>2, <2>1, <3>1, OwnLoops
  <2> HIDE DEF s
  <2>7. \A p \in a + 1..mark[n] : SameLoop(iterators'[p - d], iterators[p])
    <3> TAKE p \in a + 1..mark[n]
    <3>1. p \in a + 1..len
      BY <2>2
    <3> QED BY <2>3, <3>1 DEF SameLoop
  <2>8. \A k \in DOMAIN t :
           /\ iterators'[mark[n] - d + k].owner = [depth |-> n, unit |-> Running, at |-> t[k]]
           /\ iterators'[mark[n] - d + k].key = Code(Running)[t[k] + 1].arg
    <3> TAKE k \in DOMAIN t
    <3>1. CASE k = Len(s) + 1
      <4>1. mark[n] - d + k = len - d + 1
        BY <2>2, <3>1
      <4>2. Code(Running)[Frame.ip + 1].arg = Instr.arg
        BY DEF Instr
      <4>3. Owner(Frame.ip) = [depth |-> n, unit |-> Running, at |-> Frame.ip]
        BY <2>2 DEF Owner
      <4> QED BY <2>3, <2>4, <3>1, <4>1, <4>2, <4>3
    <3>2. CASE k # Len(s) + 1
      <4>1. k \in 1..Len(s)
        BY <2>2, <2>4, <3>2
      <4>2. mark[n] + k \in a + 1..len /\ mark[n] - d + k = (mark[n] + k) - d
        <5> DEFINE b == mark[n]
                   l == Len(s)
        <5>1. /\ b \in Nat /\ l \in Nat /\ a \in Nat /\ a <= b /\ len = b + l
              /\ d \in Nat /\ k \in 1..l
          BY <2>2, <4>1
        <5> HIDE DEF b, l
        <5>2. b + k \in a + 1..len /\ b - d + k = (b + k) - d
          BY <5>1
        <5> QED BY <5>2 DEF b
      <4>3. iterators'[mark[n] - d + k] = iterators[mark[n] + k]
        BY <2>3, <4>2
      <4> QED BY <2>4, <2>6, <4>1, <4>3
    <3> QED BY <3>1, <3>2
  <2>9. Opens(n, mark, d, t)
    <3>1. Len(iterators') = mark[n] - d + Len(t)
      <4>1. Len(iterators') = len - d + 1 /\ Len(t) = Len(s) + 1
        BY <2>3, <2>4
      <4> QED BY <2>2, <4>1
    <3> QED BY <2>3, <2>7, <2>8, <3>1 DEF Opens
  <2>10. status' = "running"
    BY <1>2, <1>5 DEF ForInit
  <2> QED BY <1>1, <1>3, <2>1, <2>3, <2>5, <2>9, <2>10, NestMoves DEF s
<1> QED BY <1>4, <1>5
-----------------------------------------------------------------------------
(* Loops that go on and loops that end.                                    *)

\* Iterators are kept that are those of the same loops.
LEMMA OpensSame ==
    ASSUME IInv, LoopInv, UnitsNested(module), calls # <<>>,
           NEW opened, NEW mark, Divided(opened, mark), NEW n, n = Len(calls),
           NEW s \in Seq(Nat), Len(s) <= Len(opened[n]),
           \A k \in 1..Len(s) : s[k] = opened[n][k],
           iterators' \in Seq(IteratorType), Len(iterators') = mark[n] + Len(s),
           \A p \in DOMAIN iterators' : SameLoop(iterators'[p], iterators[p])
    PROVE  Opens(n, mark, 0, s)
<1>1. /\ mark[n] \in Nat /\ mark[1] \in Nat /\ mark[1] <= mark[n]
      /\ opened[n] \in Seq(Nat) /\ Len(s) \in Nat
  BY TopOpen
<1>2. DOMAIN iterators' = 1..mark[n] + Len(s) /\ mark[n] - 0 = mark[n]
  BY <1>1
<1>3. \A p \in mark[1] + 1..mark[n] : SameLoop(iterators'[p - 0], iterators[p])
  <2> TAKE p \in mark[1] + 1..mark[n]
  <2>1. p - 0 = p /\ p \in 1..mark[n] + Len(s)
    BY <1>1
  <2> QED BY <1>2, <2>1
<1>4. \A k \in 1..Len(s) :
         /\ iterators'[mark[n] + k].owner = [depth |-> n, unit |-> Running, at |-> s[k]]
         /\ iterators'[mark[n] + k].key = Code(Running)[s[k] + 1].arg
  <2> TAKE k \in 1..Len(s)
  <2>1. k \in DOMAIN opened[Len(calls)] /\ s[k] = opened[n][k]
    BY <1>1
  <2>2. /\ iterators[mark[n] + k].owner = [depth |-> n, unit |-> Running, at |-> s[k]]
        /\ iterators[mark[n] + k].key = Code(Running)[s[k] + 1].arg
    <3> DEFINE at == opened[Len(calls)][k]
               p == mark[Len(calls)] + k
    <3>1. /\ iterators[p].owner = [depth |-> Len(calls), unit |-> Running, at |-> at]
          /\ iterators[p].key = Code(Running)[at + 1].arg
      BY <2>1, OwnLoops
    <3> QED BY <2>1, <3>1
  <2>3. mark[n] + k \in 1..mark[n] + Len(s)
    <3> DEFINE b == mark[n]
               l == Len(s)
    <3>1. b \in Nat /\ l \in Nat /\ k \in 1..l
      BY <1>1
    <3> HIDE DEF b, l
    <3>2. b + k \in 1..b + l
      BY <3>1
    <3> QED BY <3>2 DEF b, l
  <2>4. SameLoop(iterators'[mark[n] + k], iterators[mark[n] + k])
    BY <1>2, <2>3
  <2> QED BY <2>2, <2>4 DEF SameLoop
<1> QED BY <1>2, <1>3, <1>4 DEF Opens

\* A ForNext serves the innermost loop of its activation.
LEMMA Serves ==
    ASSUME IInv, LoopInv, UnitsNested(module), Executing("ForNext"),
           NEW opened, NEW mark, Divided(opened, mark), NEW n, n = Len(calls)
    PROVE  /\ calls # <<>> /\ Instr.op = "ForNext" /\ Instr.arg \in Nat
           /\ status = "running" /\ opened[n] \in Seq(Nat) /\ opened[n] # <<>>
           /\ Len(opened[n]) \in Nat \ {0} /\ mark[n] \in Nat /\ mark[1] \in Nat
           /\ Len(iterators) = mark[n] + Len(opened[n]) /\ iterators # <<>>
           /\ iterators[Len(iterators)].owner = Owner(Frame.ip - 1)
<1>1. /\ calls # <<>> /\ Instr.op = "ForNext" /\ Instr.arg \in Nat /\ ~AtEnd
      /\ status = "running"
  BY NextInstruction DEF Executing
<1> DEFINE s == opened[n]
<1>2. /\ s \in Seq(Nat) /\ Len(s) \in Nat /\ mark[n] \in Nat /\ mark[1] \in Nat
      /\ Len(iterators) = mark[n] + Len(s)
      /\ NestedAt(module, Code(Running), Frame.ip, s) /\ Len(frames) = n
  BY <1>1, TopOpen
<1>3. s # <<>> /\ s[Len(s)] = Frame.ip - 1
  <2> HIDE DEF s
  <2> QED BY <1>1, <1>2 DEF NestedAt, Instr, Last
<1>4. Len(s) \in DOMAIN opened[Len(calls)] /\ Len(s) # 0
  BY <1>2, <1>3
<1>5. iterators[Len(iterators)].owner = [depth |-> n, unit |-> Running, at |-> Frame.ip - 1]
  <2>1. iterators[mark[Len(calls)] + Len(s)].owner =
           [depth |-> Len(calls), unit |-> Running, at |-> opened[Len(calls)][Len(s)]]
    BY <1>1, <1>4, OwnLoops
  <2> QED BY <1>2, <1>3, <2>1
<1>6. iterators # <<>>
  <2>1. Len(iterators) # 0
    BY <1>2, <1>4
  <2> QED BY <2>1
<1> QED BY <1>1, <1>2, <1>3, <1>4, <1>5, <1>6 DEF Owner

\* A loop goes on with its next row.
LEMMA ForNextRowNests ==
    ASSUME IInv, LoopInv, UnitsNested(module), ForNextRow PROVE LoopInv'
<1>1. /\ Executing("ForNext") /\ Step /\ UNCHANGED <<module, calls, status>>
      /\ status = "running"
  BY NextInstruction DEF ForNextRow, host
<1>2. PICK opened, mark : Divided(opened, mark) /\ Undisturbed(opened)
  BY <1>1 DEF LoopInv
<1> SUFFICES ASSUME NEW n, n = Len(calls) PROVE LoopInv'
  OBVIOUS
<1>3. /\ calls # <<>> /\ Instr.op = "ForNext" /\ opened[n] \in Seq(Nat)
      /\ Len(opened[n]) \in Nat /\ mark[1] \in Nat
      /\ Len(iterators) = mark[n] + Len(opened[n])
  BY <1>1, <1>2, Serves
<1>4. /\ iterators' \in Seq(IteratorType) /\ Len(iterators') = Len(iterators)
      /\ \A p \in DOMAIN iterators' : SameLoop(iterators'[p], iterators[p])
  <2> DEFINE L == Len(iterators)
             it == iterators[L]
             after == [it EXCEPT !.rows = Tail(@)]
  <2>1. iterators # <<>> /\ it.rows # <<>> /\ iterators \in Seq(IteratorType)
    BY Types DEF ForNextRow, HasRow, Last
  <2>2. L \in DOMAIN iterators /\ it \in IteratorType
    BY <2>1
  <2>3. it.rows \in Seq(Row) /\ Tail(it.rows) \in Seq(Row)
    BY <2>1, <2>2 DEF IteratorType
  <2>4. after \in IteratorType /\ SameLoop(after, it)
    BY <2>2, <2>3 DEF IteratorType, SameLoop
  <2>5. iterators' = [iterators EXCEPT ![L] = after]
    BY DEF ForNextRow
  <2> HIDE DEF after
  <2>6. iterators' \in Seq(IteratorType) /\ Len(iterators') = L
    BY <2>1, <2>4, <2>5, Replaced
  <2>7. DOMAIN iterators' = DOMAIN iterators
    BY <2>5
  <2>8. \A p \in DOMAIN iterators : SameLoop(iterators'[p], iterators[p])
    BY <2>4, <2>5 DEF SameLoop
  <2> QED BY <2>6, <2>7, <2>8
<1>5. Opens(n, mark, 0, opened[n])
  <2>1. Len(opened[n]) <= Len(opened[n])
    BY <1>3
  <2>2. \A k \in 1..Len(opened[n]) : opened[n][k] = opened[n][k]
    OBVIOUS
  <2> QED BY <1>2, <1>3, <1>4, <2>1, <2>2, OpensSame
<1>6. <<Frame.ip + 1, opened[n]>> \in LoopExits(Instr, Frame.ip, opened[n])
  BY <1>3 DEF LoopExits
<1>7. Frame.ip + 1 \in Nat /\ JumpTo(Frame.ip + 1) /\ 0 \in Nat /\ 0 <= mark[1]
  BY <1>1, <1>3, StepJumps
<1> QED BY <1>1, <1>2, <1>5, <1>6, <1>7, NestMoves

\* A loop ends, and its iterator goes.
LEMMA ForNextDoneNests ==
    ASSUME IInv, LoopInv, UnitsNested(module), ForNextDone PROVE LoopInv'
<1>1. /\ Executing("ForNext") /\ JumpTo(Instr.arg) /\ UNCHANGED <<module, calls, status>>
      /\ status = "running"
  BY NextInstruction DEF ForNextDone, host
<1>2. PICK opened, mark : Divided(opened, mark) /\ Undisturbed(opened)
  BY <1>1 DEF LoopInv
<1> SUFFICES ASSUME NEW n, n = Len(calls), NEW s, s = Front(opened[n]) PROVE LoopInv'
  OBVIOUS
<1>3. /\ calls # <<>> /\ Instr.op = "ForNext" /\ Instr.arg \in Nat
      /\ opened[n] \in Seq(Nat) /\ opened[n] # <<>> /\ iterators # <<>>
      /\ Len(opened[n]) \in Nat /\ mark[1] \in Nat /\ mark[n] \in Nat
      /\ Len(iterators) = mark[n] + Len(opened[n])
  BY <1>1, <1>2, Serves
<1>4. /\ s \in Seq(Nat) /\ Len(s) = Len(opened[n]) - 1
      /\ \A k \in DOMAIN s : s[k] = opened[n][k]
  BY <1>3, FrontType
<1>5. /\ iterators' \in Seq(IteratorType) /\ Len(iterators') = Len(iterators) - 1
      /\ \A p \in DOMAIN iterators' : iterators'[p] = iterators[p]
  <2>1. iterators' = Front(iterators)
    BY <1>3 DEF ForNextDone
  <2> QED BY <1>3, <2>1, Types, FrontType
<1>6. Opens(n, mark, 0, s)
  <2>1. Len(s) <= Len(opened[n]) /\ Len(iterators') = mark[n] + Len(s)
    BY <1>3, <1>4, <1>5
  <2>2. \A k \in 1..Len(s) : s[k] = opened[n][k]
    BY <1>4
  <2>3. \A p \in DOMAIN iterators' : SameLoop(iterators'[p], iterators[p])
    BY <1>5 DEF SameLoop
  <2>4. calls # <<>> /\ s \in Seq(Nat) /\ iterators' \in Seq(IteratorType)
    BY <1>3, <1>4, <1>5
  <2> QED BY <1>2, <2>1, <2>2, <2>3, <2>4, OpensSame
<1>7. <<Instr.arg, s>> \in LoopExits(Instr, Frame.ip, opened[n])
  BY <1>3 DEF LoopExits
<1>8. 0 \in Nat /\ 0 <= mark[1]
  BY <1>3
<1> QED BY <1>1, <1>2, <1>3, <1>6, <1>7, <1>8, NestMoves
-----------------------------------------------------------------------------
(* Activations that begin.                                                 *)

\* A new activation has no open loop, and no iterator.
Entered(opened, n) == [i \in 1..n + 1 |-> IF i = n + 1 THEN <<>> ELSE opened[i]]
Topped(mark, n) == [i \in 1..n + 2 |-> IF i = n + 2 THEN mark[n + 1] ELSE mark[i]]

\* The marks stay in order.
LEMMA MarksEnter ==
    ASSUME NEW n \in Nat, NEW opened, NEW mark, Marks(n, opened, mark)
    PROVE  /\ Marks(n + 1, Entered(opened, n), Topped(mark, n))
           /\ Topped(mark, n)[n + 2] = mark[n + 1]
           /\ \A i \in 1..n + 1 : Topped(mark, n)[i] = mark[i]
           /\ Entered(opened, n)[n + 1] = <<>>
           /\ \A i \in 1..n : Entered(opened, n)[i] = opened[i]
<1> DEFINE later == Entered(opened, n)
           high == Topped(mark, n)
<1>1. /\ opened \in [1..n -> Seq(Nat)]
      /\ mark \in [1..n + 1 -> Nat]
      /\ \A i, j \in 1..n + 1 : i <= j => mark[i] <= mark[j]
      /\ \A i \in 1..n : mark[i + 1] = mark[i] + Len(opened[i])
  BY DEF Marks
<1>2. /\ n + 1 \in 1..n + 1 /\ n + 2 \in 1..n + 2 /\ n + 1 # n + 2
      /\ \A i \in 1..n + 2 : i = n + 2 \/ i \in 1..n + 1
      /\ \A i \in 1..n + 1 : i \in 1..n + 2 /\ i # n + 2 /\ (i = n + 1 \/ i \in 1..n)
      /\ \A i \in 1..n : i \in 1..n + 1 /\ i # n + 1 /\ i + 1 \in 1..n + 1
  OBVIOUS
<1>3. later[n + 1] = <<>> /\ \A i \in 1..n : later[i] = opened[i]
  BY <1>2 DEF Entered
<1>4. high[n + 2] = mark[n + 1] /\ \A i \in 1..n + 1 : high[i] = mark[i]
  BY <1>2 DEF Topped
<1>5. later \in [1..n + 1 -> Seq(Nat)]
  <2>1. \A i \in 1..n + 1 : later[i] \in Seq(Nat)
    <3> HIDE DEF later
    <3>1. <<>> \in Seq(Nat)
      OBVIOUS
    <3> QED BY <1>1, <1>2, <1>3, <3>1
  <2> QED BY <2>1 DEF Entered
<1>6. high \in [1..n + 2 -> Nat]
  <2>1. \A i \in 1..n + 2 : high[i] \in Nat
    BY <1>1, <1>2, <1>4
  <2> QED BY <2>1 DEF Topped
<1> HIDE DEF later, high
<1>7. \A i, j \in 1..n + 2 : i <= j => high[i] <= high[j]
  <2> TAKE i, j \in 1..n + 2
  <2> HAVE i <= j
  <2>1. CASE j = n + 2
    <3>1. CASE i = n + 2
      BY <1>1, <1>2, <1>4, <2>1, <3>1
    <3>2. CASE i \in 1..n + 1
      <4>1. mark[i] <= mark[n + 1]
        BY <1>1, <1>2, <3>2
      <4> QED BY <1>4, <2>1, <3>2, <4>1
    <3> QED BY <1>2, <3>1, <3>2
  <2>2. CASE j \in 1..n + 1
    <3>1. i \in 1..n + 1
      BY <2>2
    <3> QED BY <1>1, <1>4, <2>2, <3>1
  <2> QED BY <1>2, <2>1, <2>2
<1>8. \A i \in 1..n + 1 : high[i + 1] = high[i] + Len(later[i])
  <2> TAKE i \in 1..n + 1
  <2>1. CASE i = n + 1
    <3>1. i + 1 = n + 2 /\ mark[n + 1] \in Nat /\ Len(<<>>) = 0
      BY <1>1, <1>2, <2>1
    <3> QED BY <1>2, <1>3, <1>4, <2>1, <3>1
  <2>2. CASE i \in 1..n
    BY <1>1, <1>2, <1>3, <1>4, <2>2
  <2> QED BY <1>2, <2>1, <2>2
<1>9. (n + 1) + 1 = n + 2
  OBVIOUS
<1> QED BY <1>3, <1>4, <1>5, <1>6, <1>7, <1>8, <1>9 DEF Marks, later, high

\* The activations, each at the ip of its frame in fs, with the iterators divided among
\* them.
Shared(fs, opened, mark) ==
    /\ Marks(Len(calls), opened, mark)
    /\ mark[Len(calls) + 1] = Len(iterators)
    /\ \A i \in DOMAIN calls :
          /\ fs[i].ip \in 0..Len(Code(calls[i].unit))
          /\ opened[i] \in Nests(Code(calls[i].unit))[fs[i].ip]
    /\ \A p \in mark[1] + 1..Len(iterators) : Located(opened, mark, p)

\* A new activation that spares the open loops begins with none.
LEMMA EnterNests ==
    ASSUME IInv, UnitsNested(module), UNCHANGED <<module, iterators>>, status' = "running",
           NEW below \in Seq(FrameType), Len(below) = Len(calls),
           \A i \in DOMAIN below : below[i].unit = calls[i].unit,
           NEW unit \in Units, NEW locals, NEW base, Enter(unit, locals, below, base),
           \A i \in DOMAIN calls : i > 1 => calls[i].unit.kind = "function",
           calls # <<>> => unit.kind = "function",
           NEW opened, NEW mark, Shared(below, opened, mark), Undisturbed(opened),
           \A i \in DOMAIN calls : opened[i] # <<>> =>
              Spares(module, unit.n, Keys(Code(calls[i].unit), opened[i]))
    PROVE  LoopInv'
<1> SUFFICES ASSUME NEW n, n = Len(calls), NEW len, len = Len(iterators) PROVE LoopInv'
  OBVIOUS
<1> DEFINE f == [unit |-> unit, locals |-> locals, ip |-> 0]
           c == [unit |-> unit, base |-> base]
           later == Entered(opened, n)
           high == Topped(mark, n)
<1>1. /\ calls \in Seq(CallType) /\ n \in Nat /\ DOMAIN calls = 1..n
      /\ Len(below) = n /\ DOMAIN below = 1..n /\ len \in Nat
      /\ iterators \in Seq(IteratorType)
  BY Types
<1>2. f.ip = 0 /\ c.unit = unit
  OBVIOUS
<1>3. frames' = Append(below, f) /\ calls' = Append(calls, c)
  BY DEF Enter
<1>4. Matched'
  BY <1>1, EnterMatches
<1> HIDE DEF f, c
<1>5. /\ DOMAIN calls' = 1..n + 1 /\ Len(calls') = n + 1
      /\ calls'[n + 1] = c /\ frames'[n + 1] = f
      /\ \A i \in 1..n : calls'[i] = calls[i] /\ frames'[i] = below[i]
  BY <1>1, <1>3
<1>6. /\ n + 1 \in 1..n + 1 /\ (n + 1) + 1 = n + 2 /\ 1 \in 1..n + 1
      /\ \A i \in 1..n + 1 : i = n + 1 \/ i \in 1..n
      /\ \A i \in 1..n : i \in 1..n + 1
  BY <1>1
<1>7. /\ Marks(n, opened, mark) /\ mark[n + 1] = len
      /\ \A i \in 1..n :
            /\ below[i].ip \in 0..Len(Code(calls[i].unit))
            /\ opened[i] \in Nests(Code(calls[i].unit))[below[i].ip]
      /\ \A p \in mark[1] + 1..len : Located(opened, mark, p)
  BY <1>1 DEF Shared
<1>8. /\ Marks(n + 1, later, high) /\ high[n + 2] = len
      /\ \A i \in 1..n + 1 : high[i] = mark[i]
      /\ later[n + 1] = <<>> /\ \A i \in 1..n : later[i] = opened[i]
  BY <1>1, <1>7, MarksEnter
<1> HIDE DEF later, high
<1>9. \A i \in 1..n + 1 : i > 1 => calls'[i].unit.kind = "function"
  <2> TAKE i \in 1..n + 1
  <2>1. i > 1 /\ i = n + 1 => calls # <<>>
    BY <1>1
  <2> QED BY <1>1, <1>2, <1>5, <1>6, <2>1
<1>10. Nested(module, Code(unit)) /\ Code(unit) \in Seq(Instruction)
  BY Types, CodeType DEF UnitsNested, Units, Code
<1>11. \A i \in 1..n + 1 :
          /\ frames'[i].ip \in 0..Len(Code(calls'[i].unit))
          /\ later[i] \in Nests(Code(calls'[i].unit))[frames'[i].ip]
  <2> TAKE i \in 1..n + 1
  <2>1. CASE i = n + 1
    <3>1. 0 \in 0..Len(Code(unit))
      BY <1>10
    <3>2. <<>> \in Nests(Code(unit))[0]
      BY <1>10, Zenon DEF Nested
    <3> QED BY <1>2, <1>5, <1>8, <2>1, <3>1, <3>2
  <2>2. CASE i \in 1..n
    BY <1>5, <1>7, <1>8, <2>2
  <2> QED BY <1>6, <2>1, <2>2
<1>12. \A p \in high[1] + 1..len : Located(later, high, p)'
  <2> TAKE p \in high[1] + 1..len
  <2> DEFINE o == iterators[p].owner
             i == o.depth
  <2>1. Located(opened, mark, p)
    BY <1>6, <1>7, <1>8
  <2>2. /\ i \in 1..n /\ p - mark[i] \in DOMAIN opened[i] /\ o.unit = calls[i].unit
        /\ o.at = opened[i][p - mark[i]] /\ iterators[p].key = Code(o.unit)[o.at + 1].arg
    BY <1>1, <2>1 DEF Located
  <2> HIDE DEF o, i
  <2>3. i \in 1..n + 1 /\ high[i] = mark[i] /\ later[i] = opened[i] /\ calls'[i] = calls[i]
    BY <1>5, <1>6, <1>8, <2>2
  <2>4. /\ i \in DOMAIN calls' /\ p - high[i] \in DOMAIN later[i] /\ o.unit = calls'[i].unit
        /\ o.at = later[i][p - high[i]] /\ iterators'[p].key = Code(o.unit)[o.at + 1].arg
    BY <1>5, <2>2, <2>3
  <2>5. o = iterators'[p].owner /\ i = iterators'[p].owner.depth
    BY DEF o, i
  <2>6. Code(o.unit)' = Code(o.unit')
    BY DEF Code
  <2> QED BY <2>4, <2>5, <2>6 DEF Located, Code
<1>13. Divided(later, high)'
  <2>1. /\ later \in [1..n + 1 -> Seq(Nat)] /\ high \in [1..n + 2 -> Nat]
        /\ \A i, j \in 1..n + 2 : i <= j => high[i] <= high[j]
        /\ \A i \in 1..n + 1 : high[i + 1] = high[i] + Len(later[i])
    BY <1>6, <1>8 DEF Marks
  <2>2. \A i \in 1..n + 1 : Code(calls[i].unit)' = Code(calls'[i].unit)
    BY DEF Code
  <2>3. \A i \in DOMAIN calls' :
           /\ frames'[i].ip \in 0..Len(Code(calls[i].unit)')
           /\ later[i] \in Nests(Code(calls[i].unit)')[frames'[i].ip]
    BY <1>5, <1>11, <2>2
  <2>4. high[Len(calls') + 1] = Len(iterators') /\ Len(calls') + 1 = n + 2
    BY <1>5, <1>6, <1>8
  <2>5. \A p \in high[1] + 1..Len(iterators') : Located(later, high, p)'
    BY <1>12
  <2> QED BY <1>5, <2>1, <2>3, <2>4, <2>5 DEF Divided
<1>14. Undisturbed(later)'
  <2>1. \A i, j \in 1..n + 1 : i < j /\ later[i] # <<>> =>
           Spares(module, calls'[j].unit.n, Keys(Code(calls'[i].unit), later[i]))
    <3> TAKE i, j \in 1..n + 1
    <3> HAVE i < j /\ later[i] # <<>>
    <3>1. i \in 1..n /\ later[i] = opened[i] /\ calls'[i] = calls[i]
      BY <1>5, <1>6, <1>8
    <3>2. CASE j = n + 1
      BY <1>1, <1>2, <1>5, <3>1, <3>2
    <3>3. CASE j \in 1..n
      <4>1. Spares(module, calls[j].unit.n, Keys(Code(calls[i].unit), opened[i]))
        BY <1>1, <3>1, <3>3 DEF Undisturbed
      <4> QED BY <1>5, <3>1, <3>3, <4>1
    <3> QED BY <1>6, <3>2, <3>3
  <2>2. \A i \in 1..n + 1 : Code(calls[i].unit)' = Code(calls'[i].unit)
    BY DEF Code
  <2> QED BY <1>5, <2>1, <2>2 DEF Undisturbed
<1> QED BY <1>4, <1>5, <1>9, <1>13, <1>14 DEF LoopInv

\* A unit of the module has the code of its place.
LEMMA FunctionCode ==
    ASSUME NEW u \in Units, u.kind = "function"
    PROVE  u.n \in DOMAIN module.functions /\ Code(u) = module.functions[u.n].code
BY DEF Units, Code

\* What a function spares, those it calls spare as well.
LEMMA SparesOn ==
    ASSUME NEW m, NEW f \in DOMAIN m.functions, NEW g \in CalledBy(m, f), NEW keys,
           Spares(m, f, keys)
    PROVE  Spares(m, g, keys)
<1>1. ReachedFrom(m, g) \subseteq ReachedFrom(m, f)
  <2> SUFFICES ASSUME NEW h \in ReachedFrom(m, g), NEW S \in SUBSET DOMAIN m.functions,
                      f \in S, \A k \in S : CalledBy(m, k) \subseteq S
               PROVE  h \in DOMAIN m.functions /\ h \in S
    BY DEF ReachedFrom
  <2>1. g \in S
    OBVIOUS
  <2> QED BY <2>1 DEF ReachedFrom
<1> QED BY <1>1 DEF Spares

\* The instruction being executed is one of its code's.
LEMMA InstrInCode ==
    ASSUME IInv, NEW op, Executing(op) PROVE Instr \in Range(Code(Running))
<1>1. calls # <<>> /\ ~AtEnd
  BY NextInstruction DEF Executing
<1>2. Code(Running) \in Seq(Instruction) /\ Frame.ip \in Nat
  BY <1>1, TopFrame DEF FrameType
<1>3. Frame.ip + 1 \in DOMAIN Code(Running)
  BY <1>1, <1>2 DEF AtEnd
<1> QED BY <1>3 DEF Instr, Range

\* A call spares the loops in progress.
LEMMA CallSpares ==
    ASSUME IInv, LoopInv, UnitsNested(module), Executing("Call"),
           NEW opened, NEW mark, Divided(opened, mark), Undisturbed(opened),
           NEW f \in Callees(module, Instr), NEW i \in DOMAIN calls, opened[i] # <<>>
    PROVE  Spares(module, f, Keys(Code(calls[i].unit), opened[i]))
<1> SUFFICES ASSUME NEW n, n = Len(calls)
             PROVE  Spares(module, f, Keys(Code(calls[i].unit), opened[i]))
  OBVIOUS
<1>1. calls # <<>> /\ ~AtEnd
  BY NextInstruction DEF Executing
<1>2. /\ n \in Nat \ {0} /\ DOMAIN calls = 1..n
      /\ NestedAt(module, Code(Running), Frame.ip, opened[n])
  BY <1>1, TopOpen
<1>3. CASE i = n
  BY <1>2, <1>3 DEF NestedAt, Instr, Running
<1>4. CASE i # n
  <2> DEFINE keys == Keys(Code(calls[i].unit), opened[i])
  <2>1. i < n /\ n \in DOMAIN calls /\ n > 1
    BY <1>2, <1>4
  <2>2. Spares(module, Running.n, keys)
    BY <2>1 DEF Undisturbed, Running
  <2>3. Running.kind = "function" /\ Running \in Units
    BY <1>1, <2>1, TopFrame DEF LoopInv, Running
  <2>4. f \in CalledBy(module, Running.n) /\ Running.n \in DOMAIN module.functions
    BY <2>3, FunctionCode, InstrInCode DEF CalledBy
  <2> QED BY <2>2, <2>4, SparesOn
<1> QED BY <1>3, <1>4

\* A call that succeeds leaves its caller at the next instruction, in the same loops.
LEMMA CallShares ==
    ASSUME IInv, LoopInv, UnitsNested(module), Executing("Call"),
           NEW opened, NEW mark, Divided(opened, mark), NEW below,
           below = [frames EXCEPT ![Len(frames)].ip = Frame.ip + 1]
    PROVE  /\ below \in Seq(FrameType) /\ Len(below) = Len(calls)
           /\ \A i \in DOMAIN below : below[i].unit = calls[i].unit
           /\ Shared(below, opened, mark)
<1> SUFFICES ASSUME NEW n, n = Len(calls)
             PROVE  /\ below \in Seq(FrameType) /\ Len(below) = n
                    /\ \A i \in DOMAIN below : below[i].unit = calls[i].unit
                    /\ Shared(below, opened, mark)
  OBVIOUS
<1>1. calls # <<>> /\ ~AtEnd /\ Instr.op = "Call"
  BY NextInstruction DEF Executing
<1>2. /\ n \in Nat \ {0} /\ DOMAIN calls = 1..n /\ DOMAIN frames = 1..n /\ Len(frames) = n
      /\ NestedAt(module, Code(Running), Frame.ip, opened[n])
      /\ frames \in Seq(FrameType)
  BY <1>1, TopOpen, Types
<1>3. Frame.ip + 1 \in Nat
  BY <1>1, TopFrame DEF FrameType
<1>4. below \in Seq(FrameType) /\ Len(below) = n
  BY <1>1, <1>2, <1>3, JumpType
<1>5. /\ below[n].ip = Frame.ip + 1
      /\ \A i \in 1..n : i # n => below[i] = frames[i]
      /\ \A i \in 1..n : below[i].unit = frames[i].unit
  <2>1. \A i \in 1..n : frames[i] \in FrameType
    BY <1>2
  <2> QED BY <1>2, <2>1 DEF FrameType
<1>6. \A i \in DOMAIN below : below[i].unit = calls[i].unit
  BY <1>2, <1>4, <1>5 DEF LoopInv, Matched
<1>7. Frame.ip + 1 \in 0..Len(Code(Running)) /\ opened[n] \in Nests(Code(Running))[Frame.ip + 1]
  <2> DEFINE w == <<Frame.ip + 1, opened[n]>>
             x == <<Frame.ip + 1, 1>>
  <2>0. x \in Exits(Instr, Frame.ip) /\ x[1] = Frame.ip + 1
    BY OpcodeTable
  <2>1. w \in LoopExits(Instr, Frame.ip, opened[n]) /\ w[1] = Frame.ip + 1 /\ w[2] = opened[n]
    BY <1>1, <2>0 DEF LoopExits
  <2> HIDE DEF w
  <2>2. w[1] \in 0..Len(Code(Running)) /\ w[2] \in Nests(Code(Running))[w[1]]
    BY <1>2, <2>1 DEF NestedAt, Instr
  <2> QED BY <2>1, <2>2
<1>8. \A i \in 1..n :
         /\ below[i].ip \in 0..Len(Code(calls[i].unit))
         /\ opened[i] \in Nests(Code(calls[i].unit))[below[i].ip]
  <2> TAKE i \in 1..n
  <2>1. CASE i = n
    BY <1>5, <1>7, <2>1 DEF Running
  <2>2. CASE i # n
    BY <1>2, <1>5, <2>2 DEF Divided
  <2> QED BY <2>1, <2>2
<1>9. /\ Marks(n, opened, mark) /\ mark[n + 1] = Len(iterators)
      /\ \A p \in mark[1] + 1..Len(iterators) : Located(opened, mark, p)
  BY <1>2 DEF Divided, Marks
<1> QED BY <1>2, <1>4, <1>6, <1>8, <1>9 DEF Shared

\* A call begins an activation that leaves the loops of the others alone.
LEMMA CallFunctionNests ==
    ASSUME IInv, LoopInv, UnitsNested(module), UNCHANGED iterators, CallFunction
    PROVE  LoopInv'
<1> SUFFICES ASSUME NEW below, below = [frames EXCEPT ![Len(frames)].ip = Frame.ip + 1]
             PROVE  LoopInv'
  OBVIOUS
<1>1. /\ Executing("Call") /\ UNCHANGED module /\ IsName(Instr.arg)
      /\ Name \notin BuiltinNames \cup HostNames
  BY Zenon DEF CallFunction, ExecutingNamed, host
<1>2. PICK f \in Named(module.functions, Name) :
         LET arity == module.functions[f].arity
         IN  IF Enough(arity)
             THEN /\ Enter([kind |-> "function", n |-> f], Operands(arity),
                           below, Len(stack) - arity)
                  /\ stack' = Beneath(arity)
                  /\ UNCHANGED status
             ELSE Underflow /\ Step /\ UNCHANGED calls
  BY Zenon DEF CallFunction, Frame
<1> DEFINE unit == [kind |-> "function", n |-> f]
           arity == module.functions[f].arity
<1>3. calls # <<>> /\ status = "running" /\ Instr.op = "Call"
  BY <1>1, NextInstruction
<1>4. CASE ~Enough(arity)
  <2>1. UNCHANGED calls /\ status' = "failed"
    BY <1>2, <1>4 DEF Underflow
  <2>2. Matched'
    BY CallFunctionMatches DEF LoopInv
  <2> QED BY <2>1, <2>2, NotRunning
<1>5. CASE Enough(arity)
  <2>1. Enter(unit, Operands(arity), below, Len(stack) - arity) /\ status' = "running"
    BY <1>2, <1>3, <1>5
  <2>2. PICK opened, mark : Divided(opened, mark) /\ Undisturbed(opened)
    BY <1>3 DEF LoopInv
  <2>3. f \in Callees(module, Instr)
    <3>1. WellNamed(module, Instr)
      BY <1>1 DEF WellNamed, IsName, IsConstant, Constant
    <3> QED BY <1>1, <1>3, <3>1, SameName DEF Callees
  <2>4. unit \in Units /\ unit.kind = "function" /\ unit.n = f
    BY DEF Named, Units
  <2> HIDE DEF unit, arity
  <2>5. \A i \in DOMAIN calls : opened[i] # <<>> =>
           Spares(module, unit.n, Keys(Code(calls[i].unit), opened[i]))
    BY <1>1, <2>2, <2>3, <2>4, CallSpares
  <2>6. /\ below \in Seq(FrameType) /\ Len(below) = Len(calls)
        /\ \A i \in DOMAIN below : below[i].unit = calls[i].unit
        /\ Shared(below, opened, mark)
    BY <1>1, <2>2, CallShares
  <2>7. \A i \in DOMAIN calls : i > 1 => calls[i].unit.kind = "function"
    BY DEF LoopInv
  <2> QED BY <1>1, <2>1, <2>2, <2>4, <2>5, <2>6, <2>7, EnterNests
<1> QED BY <1>4, <1>5
-----------------------------------------------------------------------------
(* Activations that end.                                                   *)

\* What the activations below the top one are left with.
Below(opened, b) == [i \in 1..b |-> opened[i]]

\* The activations below go on in their loops, if these have all the iterators that are
\* to be divided.
LEMMA LeaveDivides ==
    ASSUME IInv, LoopInv, UNCHANGED <<module, iterators, status>>,
           status = "running", calls # <<>>, frames' = Front(frames), calls' = Front(calls),
           NEW opened, NEW mark, Divided(opened, mark), Undisturbed(opened),
           NEW b \in Nat, Len(calls) = b + 1,
           NEW low, Marks(b, Below(opened, b), low), low[b + 1] = Len(iterators),
           \A p \in low[1] + 1..Len(iterators) :
              Located(opened, low, p) /\ iterators[p].owner.depth # b + 1
    PROVE  LoopInv'
<1> SUFFICES ASSUME NEW len, len = Len(iterators), NEW later, later = Below(opened, b)
             PROVE  LoopInv'
  OBVIOUS
<1>1. /\ calls \in Seq(CallType) /\ DOMAIN calls = 1..b + 1
      /\ frames \in Seq(FrameType) /\ Len(frames) = b + 1 /\ frames # <<>>
  <2>1. Len(frames) = b + 1 /\ calls \in Seq(CallType) /\ frames \in Seq(FrameType)
    BY Types DEF LoopInv, Matched
  <2> QED BY <2>1
<1>2. /\ DOMAIN calls' = 1..b /\ Len(calls') = b
      /\ \A i \in 1..b : calls'[i] = calls[i] /\ frames'[i] = frames[i]
  <2>1. /\ Front(calls) \in Seq(CallType) /\ Len(Front(calls)) = b
        /\ \A i \in DOMAIN Front(calls) : Front(calls)[i] = calls[i]
    BY <1>1, FrontType
  <2>2. /\ Front(frames) \in Seq(FrameType) /\ Len(Front(frames)) = b
        /\ \A i \in DOMAIN Front(frames) : Front(frames)[i] = frames[i]
    BY <1>1, FrontType
  <2> QED BY <2>1, <2>2
<1>3. Matched'
  BY LeaveMatches DEF LoopInv
<1>4. /\ \A i \in 1..b : i \in 1..b + 1 /\ i \in DOMAIN calls /\ later[i] = opened[i]
      /\ \A i \in 1..b + 1 : i = b + 1 \/ i \in 1..b
  BY <1>1 DEF Below
<1>5. \A i \in 1..b : Code(calls[i].unit)' = Code(calls'[i].unit)
  BY DEF Code
<1>6. \A p \in low[1] + 1..len : Located(later, low, p)'
  <2> TAKE p \in low[1] + 1..len
  <2> DEFINE o == iterators[p].owner
             i == o.depth
  <2>1. Located(opened, low, p) /\ i # b + 1
    OBVIOUS
  <2>2. /\ i \in 1..b + 1 /\ p - low[i] \in DOMAIN opened[i] /\ o.unit = calls[i].unit
        /\ o.at = opened[i][p - low[i]] /\ iterators[p].key = Code(o.unit)[o.at + 1].arg
    BY <1>1, <2>1 DEF Located
  <2> HIDE DEF o, i
  <2>3. i \in 1..b /\ later[i] = opened[i] /\ calls'[i] = calls[i]
    BY <1>2, <1>4, <2>1, <2>2
  <2>4. /\ i \in DOMAIN calls' /\ p - low[i] \in DOMAIN later[i] /\ o.unit = calls'[i].unit
        /\ o.at = later[i][p - low[i]] /\ iterators'[p].key = Code(o.unit)[o.at + 1].arg
    BY <1>2, <2>2, <2>3
  <2>5. o = iterators'[p].owner /\ i = iterators'[p].owner.depth
    BY DEF o, i
  <2> QED BY <2>4, <2>5 DEF Located, Code
<1>7. Divided(later, low)'
  <2>1. /\ later \in [1..b -> Seq(Nat)] /\ low \in [1..b + 1 -> Nat]
        /\ \A i, j \in 1..b + 1 : i <= j => low[i] <= low[j]
        /\ \A i \in 1..b : low[i + 1] = low[i] + Len(later[i])
    BY DEF Marks
  <2>2. \A i \in 1..b :
           /\ frames'[i].ip \in 0..Len(Code(calls[i].unit)')
           /\ later[i] \in Nests(Code(calls[i].unit)')[frames'[i].ip]
    <3> TAKE i \in 1..b
    <3>1. /\ frames[i].ip \in 0..Len(Code(calls[i].unit))
          /\ opened[i] \in Nests(Code(calls[i].unit))[frames[i].ip]
      BY <1>4 DEF Divided
    <3>2. Code(calls[i].unit)' = Code(calls[i].unit)
      BY <1>2, <1>5
    <3> QED BY <1>2, <1>4, <3>1, <3>2
  <2>3. \A p \in low[1] + 1..Len(iterators') : Located(later, low, p)'
    BY <1>6
  <2> QED BY <1>2, <2>1, <2>2, <2>3 DEF Divided
<1>8. Undisturbed(later)'
  <2>1. \A i, j \in 1..b : i < j /\ later[i] # <<>> =>
           Spares(module, calls'[j].unit.n, Keys(Code(calls'[i].unit), later[i]))
    <3> TAKE i, j \in 1..b
    <3> HAVE i < j /\ later[i] # <<>>
    <3>1. /\ i \in DOMAIN calls /\ j \in DOMAIN calls /\ later[i] = opened[i]
          /\ calls'[i] = calls[i] /\ calls'[j] = calls[j]
      BY <1>2, <1>4
    <3>2. Spares(module, calls[j].unit.n, Keys(Code(calls[i].unit), opened[i]))
      BY <3>1 DEF Undisturbed
    <3> QED BY <3>1, <3>2
  <2> QED BY <1>2, <1>5, <2>1 DEF Undisturbed
<1>9. \A i \in DOMAIN calls' : i > 1 => calls'[i].unit.kind = "function"
  BY <1>2, <1>4 DEF LoopInv
<1> QED BY <1>3, <1>7, <1>8, <1>9 DEF LoopInv

\* Where the code of a unit that spares others returns, no loop is open.
LEMMA ReturnsClosed ==
    ASSUME IInv, LoopInv, UnitsNested(module), calls # <<>>, AtEnd \/ Executing("Return"),
           NEW opened, NEW mark, Divided(opened, mark), Undisturbed(opened),
           NEW i \in DOMAIN calls, i < Len(calls), opened[i] # <<>>
    PROVE  opened[Len(calls)] = <<>>
<1> SUFFICES ASSUME NEW n, n = Len(calls) PROVE opened[n] = <<>>
  OBVIOUS
<1> DEFINE code == Code(Running)
           keys == Keys(Code(calls[i].unit), opened[i])
<1>1. /\ n \in Nat \ {0} /\ DOMAIN calls = 1..n /\ n \in DOMAIN calls
      /\ code \in Seq(Instruction) /\ Frame.ip \in 0..Len(code)
      /\ opened[n] \in Nests(code)[Frame.ip]
  BY TopOpen
<1>2. n > 1
  BY <1>1
<1>3. Spares(module, Running.n, keys)
  BY <1>1 DEF Undisturbed, Running
<1>4. Running.kind = "function" /\ Running \in Units
  BY <1>1, <1>2, TopFrame DEF LoopInv, Running
<1>5. Running.n \in DOMAIN module.functions /\ code = module.functions[Running.n].code
  BY <1>4, FunctionCode
<1>6. Completes(code)
  BY <1>3, <1>5, ReachesItself DEF Spares
<1>7. Frame.ip = Len(code) \/ code[Frame.ip + 1].op = "Return"
  <2>1. CASE AtEnd
    <3> HIDE DEF code
    <3>1. Frame.ip >= Len(code)
      BY <2>1 DEF AtEnd, code
    <3> QED BY <1>1, <3>1
  <2>2. CASE Executing("Return")
    BY <2>2, NextInstruction DEF Instr
  <2> QED BY <2>1, <2>2
<1> HIDE DEF code
<1> QED BY <1>1, <1>6, <1>7 DEF Completes

\* An activation that ends leaves the loops of those below as they were.
LEMMA LeaveNests ==
    ASSUME IInv, LoopInv, UnitsNested(module), UNCHANGED <<module, iterators, status>>,
           status = "running", calls # <<>>, frames' = Front(frames), calls' = Front(calls),
           AtEnd \/ Executing("Return")
    PROVE  LoopInv'
<1>1. PICK opened, mark : Divided(opened, mark) /\ Undisturbed(opened)
  BY DEF LoopInv
<1>2. Len(calls) \in Nat \ {0}
  BY <1>1, TopOpen
<1> SUFFICES ASSUME NEW n \in Nat \ {0}, n = Len(calls), NEW b \in Nat, n = b + 1,
                    NEW len, len = Len(iterators)
             PROVE  LoopInv'
  <2>1. Len(calls) - 1 \in Nat /\ Len(calls) = (Len(calls) - 1) + 1
    BY <1>2
  <2> QED BY <1>2, <2>1
<1>3. /\ DOMAIN calls = 1..n /\ mark[n] \in Nat /\ opened[n] \in Seq(Nat)
      /\ len = mark[n] + Len(opened[n]) /\ Len(opened[n]) \in Nat /\ len \in Nat
  BY <1>1, TopOpen
<1>4. /\ \A i \in 1..b : i \in 1..n /\ i < n /\ i \in 1..n + 1 /\ i + 1 \in 1..n + 1
      /\ \A i \in 1..n : i \in 1..n + 1
      /\ 1 \in 1..n /\ b + 1 \in 1..n
  OBVIOUS
<1>5. /\ opened \in [1..n -> Seq(Nat)] /\ mark \in [1..n + 1 -> Nat]
      /\ \A i, j \in 1..n + 1 : i <= j => mark[i] <= mark[j]
      /\ \A i \in 1..n : mark[i + 1] = mark[i] + Len(opened[i])
      /\ \A p \in mark[1] + 1..len : Located(opened, mark, p)
  BY <1>1, <1>3 DEF Divided
<1>6. Below(opened, b) \in [1..b -> Seq(Nat)] /\ \A i \in 1..b : Below(opened, b)[i] = opened[i]
  BY <1>4, <1>5 DEF Below
<1>7. CASE opened[n] = <<>>
  <2> SUFFICES ASSUME NEW low, low = [i \in 1..n |-> mark[i]] PROVE LoopInv'
    OBVIOUS
  <2>1. low \in [1..b + 1 -> Nat] /\ \A i \in 1..n : low[i] = mark[i]
    BY <1>4, <1>5
  <2>2. low[b + 1] = len
    <3>1. Len(<<>>) = 0
      OBVIOUS
    <3> QED BY <1>3, <1>4, <1>7, <2>1, <3>1
  <2>3. Marks(b, Below(opened, b), low)
    <3>1. \A i, j \in 1..b + 1 : i <= j => low[i] <= low[j]
      BY <1>4, <1>5, <2>1
    <3>2. \A i \in 1..b : low[i + 1] = low[i] + Len(Below(opened, b)[i])
      <4> TAKE i \in 1..b
      <4>1. i + 1 \in 1..n /\ i \in 1..n
        OBVIOUS
      <4> QED BY <1>5, <1>6, <2>1, <4>1
    <3> QED BY <1>6, <2>1, <3>1, <3>2 DEF Marks
  <2>4. \A p \in low[1] + 1..len : Located(opened, low, p) /\ iterators[p].owner.depth # n
    <3> TAKE p \in low[1] + 1..len
    <3> DEFINE o == iterators[p].owner
               i == o.depth
    <3>1. Located(opened, mark, p)
      BY <1>4, <1>5, <2>1
    <3>2. i \in 1..n /\ p - mark[i] \in DOMAIN opened[i]
      BY <1>3, <3>1 DEF Located
    <3> HIDE DEF i
    <3>3. low[i] = mark[i] /\ i # n
      BY <1>7, <2>1, <3>2
    <3> QED BY <3>1, <3>3 DEF Located, i
  <2> QED BY <1>1, <2>2, <2>3, <2>4, LeaveDivides
<1>8. CASE opened[n] # <<>>
  <2> SUFFICES ASSUME NEW low, low = [i \in 1..n |-> len] PROVE LoopInv'
    OBVIOUS
  <2>1. low \in [1..b + 1 -> Nat] /\ \A i \in 1..n : low[i] = len
    BY <1>3
  <2>2. \A i \in 1..b : opened[i] = <<>>
    BY <1>1, <1>3, <1>4, <1>8, ReturnsClosed
  <2>3. Marks(b, Below(opened, b), low)
    <3>1. \A i, j \in 1..b + 1 : i <= j => low[i] <= low[j]
      BY <1>3, <2>1
    <3>2. \A i \in 1..b : low[i + 1] = low[i] + Len(Below(opened, b)[i])
      <4> TAKE i \in 1..b
      <4>1. i + 1 \in 1..n /\ i \in 1..n /\ Len(<<>>) = 0
        OBVIOUS
      <4>2. low[i + 1] = len /\ low[i] = len /\ Below(opened, b)[i] = <<>>
        BY <1>6, <2>1, <2>2, <4>1
      <4> QED BY <1>3, <4>1, <4>2
    <3> QED BY <1>6, <2>1, <3>1, <3>2 DEF Marks
  <2>4. low[b + 1] = len /\ low[1] = len
    BY <1>4, <2>1
  <2>5. \A p \in low[1] + 1..len : Located(opened, low, p) /\ iterators[p].owner.depth # n
    BY <1>3, <2>4
  <2> QED BY <1>1, <2>3, <2>4, <2>5, LeaveDivides
<1> QED BY <1>7, <1>8

\* A return, and the end of a handler.
LEMMA ReturnNests ==
    ASSUME IInv, LoopInv, UnitsNested(module), UNCHANGED iterators, Return \/ FallOffEnd
    PROVE  LoopInv'
<1>1. /\ UNCHANGED <<module, status>> /\ frames' = Front(frames) /\ calls' = Front(calls)
      /\ status = "running" /\ calls # <<>>
      /\ AtEnd \/ Executing("Return")
  BY DEF Return, FallOffEnd, Executing, host
<1> QED BY <1>1, LeaveNests
-----------------------------------------------------------------------------
(* The host.                                                               *)

\* Without an activation there is no loop to keep.
LEMMA NoneNested ==
    ASSUME calls' = <<>>, Matched', status' \in {"idle", "done"} PROVE LoopInv'
<1>1. DOMAIN calls' = {}
  OBVIOUS
<1> QED BY <1>1 DEF LoopInv

\* A handler begins where no other activation is left, above whatever iterators there are.
LEMMA HandlerNests ==
    ASSUME IInv, UnitsNested(module), UNCHANGED <<module, iterators>>, calls = <<>>,
           NEW unit \in Units, NEW locals, NEW base, Enter(unit, locals, <<>>, base),
           status' = "running"
    PROVE  LoopInv'
<1>0. Len(iterators) \in Nat
  BY Types
<1> SUFFICES ASSUME NEW len \in Nat, len = Len(iterators),
                    NEW opened, opened = [i \in 1..0 |-> <<>>],
                    NEW mark, mark = [i \in 1..1 |-> len]
             PROVE  LoopInv'
  BY <1>0
<1>1. /\ DOMAIN calls = {} /\ Len(calls) = 0 /\ <<>> \in Seq(FrameType) /\ Len(<<>>) = 0
      /\ DOMAIN <<>> = {}
  OBVIOUS
<1>2. mark[1] = len /\ mark \in [1..1 -> Nat]
  OBVIOUS
<1>3. Marks(0, opened, mark)
  <2>1. opened \in [1..0 -> Seq(Nat)] /\ 0 + 1 = 1
    OBVIOUS
  <2>2. \A i, j \in 1..1 : i <= j => mark[i] <= mark[j]
    BY <1>2
  <2>3. \A i \in 1..0 : mark[i + 1] = mark[i] + Len(opened[i])
    OBVIOUS
  <2> QED BY <1>2, <2>1, <2>2, <2>3 DEF Marks
<1>4. Shared(<<>>, opened, mark)
  <2>1. \A p \in mark[1] + 1..len : Located(opened, mark, p)
    BY <1>2
  <2> QED BY <1>1, <1>2, <1>3, <2>1 DEF Shared
<1>5. Undisturbed(opened)
  BY <1>1 DEF Undisturbed
<1> QED BY <1>1, <1>4, <1>5, EnterNests

\* Starting a finish handler, or ending the run, keeps the invariant.
LEMMA FinishNests ==
    ASSUME IInv, UnitsNested(module), UNCHANGED <<module, iterators>>, calls = <<>>,
           NEW n \in Nat \ {0}, Finish(n, <<>>)
    PROVE  LoopInv'
<1>1. CASE n <= Len(module.finish_handlers)
  <2>1. [kind |-> "finish", n |-> n] \in Units
    <3>1. module.finish_handlers \in Seq([code : Seq(Instruction)])
      BY Types, ModuleType DEF Module
    <3>2. n \in DOMAIN module.finish_handlers
      BY <1>1, <3>1
    <3> QED BY <3>2 DEF Units
  <2>2. /\ Enter([kind |-> "finish", n |-> n], <<>>, <<>>, Len(stack))
        /\ status' = "running"
    BY <1>1 DEF Finish
  <2> QED BY <2>1, <2>2, HandlerNests
<1>2. CASE ~(n <= Len(module.finish_handlers))
  <2>1. frames' = <<>> /\ calls' = <<>> /\ status' = "done"
    BY <1>2 DEF Finish
  <2>2. Matched'
    BY <2>1 DEF Matched
  <2> QED BY <2>1, <2>2, NoneNested
<1> QED BY <1>1, <1>2

\* The host keeps the invariant.
LEMMA HostNests ==
    ASSUME IInv, LoopInv, UnitsNested(module),
           RunFinish \/ HostResumes \/ \E e \in Events : DispatchEvent(e)
    PROVE  LoopInv'
<1>1. calls = <<>> /\ frames = <<>>
  <2>1. calls = <<>>
    BY DEF RunFinish, HostResumes, DispatchEvent, LoopInv
  <2> QED BY <2>1, NoFrames DEF LoopInv
<1>2. CASE RunFinish
  BY <1>1, <1>2, FinishNests DEF RunFinish
<1>3. CASE HostResumes
  <2>1. UNCHANGED <<module, iterators>>
    BY <1>3 DEF HostResumes
  <2>2. \/ frames' = <<>> /\ status' = "idle" /\ UNCHANGED calls
        \/ Finish(finishing + 1, <<>>)
    BY <1>1, <1>3 DEF HostResumes
  <2>3. CASE frames' = <<>> /\ status' = "idle" /\ UNCHANGED calls
    <3>1. Matched' /\ calls' = <<>>
      BY <1>1, <2>3 DEF Matched
    <3> QED BY <2>3, <3>1, NoneNested
  <2>4. finishing + 1 \in Nat \ {0}
    BY Types
  <2> QED BY <1>1, <2>1, <2>2, <2>3, <2>4, FinishNests
<1>4. ASSUME NEW e \in Events, DispatchEvent(e) PROVE LoopInv'
  <2>1. UNCHANGED <<module, iterators>> /\ status = "idle"
    BY <1>4 DEF DispatchEvent
  <2>2. CASE UNCHANGED <<frames, calls, status>>
    <3>1. Matched' /\ calls' = <<>>
      BY <1>1, <2>2 DEF Matched
    <3> QED BY <2>1, <2>2, <3>1, NoneNested
  <2>3. CASE ~UNCHANGED <<frames, calls, status>>
    <3>1. PICK i \in Named(module.event_handlers, e.name) :
             /\ Enter([kind |-> "on", n |-> i], <<Event(e.fields)>>, frames, Len(stack))
             /\ status' = "running"
      BY <1>4, <2>3 DEF DispatchEvent
    <3>2. [kind |-> "on", n |-> i] \in Units
      BY DEF Units, Named
    <3> QED BY <1>1, <2>1, <3>1, <3>2, HandlerNests
  <2> QED BY <2>2, <2>3
<1> QED BY <1>2, <1>3, <1>4
-----------------------------------------------------------------------------
(* The theorem.                                                            *)

\* Every instruction keeps the invariant.
LEMMA ExecuteNests ==
    ASSUME IInv, LoopInv, UnitsNested(module), HaltFree, Execute PROVE LoopInv'
<1>1. CASE ForInit \/ ForNextRow \/ ForNextDone
  BY <1>1, ForInitNests, ForNextRowNests, ForNextDoneNests
<1>2. CASE ~ForInit /\ ~ForNextRow /\ ~ForNextDone
  <2>1. UNCHANGED iterators
    BY <1>2, IteratorsUntouched DEF Next
  <2>2. CASE \/ LoadConst \/ LoadVar \/ Binary \/ Unary \/ GetEventField \/ IndexGet
             \/ CallBuiltin \/ CallCount \/ CallFilter \/ CallSort
    BY <2>1, <2>2, ComputingNests
  <2>3. CASE BadConstant \/ CallUndefined \/ StoreVar \/ IndexAssign \/ InsertTable
    BY <2>1, <2>3, FailingNests, StoreVarNests, IndexAssignNests, InsertTableNests
  <2>4. CASE Jump \/ Branch("JumpIfFalse", FALSE) \/ Branch("JumpIfTrue", TRUE)
    BY <2>1, <2>4, JumpNests
  <2>5. CASE Alert \/ PrintValue \/ ShowTable \/ ExportTable \/ PopOperand \/ NoOperation
    BY <2>1, <2>5, StatementNests
  <2>6. CASE CallFunction \/ Return \/ FallOffEnd
    BY <2>1, <2>6, CallFunctionNests, ReturnNests
  <2>7. CASE Halt
    BY <2>7, NoHalt DEF Halt
  <2> QED BY <1>2, <2>2, <2>3, <2>4, <2>5, <2>6, <2>7 DEF Execute
<1> QED BY <1>1, <1>2

\* What is known of every state of a run of nested loops, beside the types.
NestedRun == LoopsNested /\ LoopInv

\* It holds at the start.
LEMMA NestedStart == ASSUME Init, LoopsNested PROVE NestedRun
<1>1. frames = <<>> /\ calls = <<>> /\ status = "idle"
  BY DEF Init, Start
<1>2. DOMAIN calls = {} /\ Matched
  BY <1>1 DEF Matched
<1> QED BY <1>1, <1>2 DEF NestedRun, LoopInv

\* Where nothing changes the invariant stays.
LEMMA StutterNests == ASSUME LoopInv, UNCHANGED vars PROVE LoopInv'
<1>1. UNCHANGED <<module, frames, iterators, calls, status>>
  BY DEF vars
<1>2. \A opened, mark, p : Located(opened, mark, p)' = Located(opened, mark, p)
  BY <1>1 DEF Located, Code
<1>3. ASSUME NEW opened, NEW mark, Divided(opened, mark) PROVE Divided(opened, mark)'
  <2>1. \A p \in mark[1] + 1..Len(iterators') : Located(opened, mark, p)'
    BY <1>1, <1>2, <1>3 DEF Divided
  <2>2. \A i \in DOMAIN calls : Code(calls[i].unit)' = Code(calls[i].unit)
    BY <1>1 DEF Code
  <2> QED BY <1>1, <1>3, <2>1, <2>2 DEF Divided
<1>4. \A opened : Undisturbed(opened)' = Undisturbed(opened)
  BY <1>1 DEF Undisturbed, Code
<1>5. Matched'
  BY <1>1 DEF LoopInv, Matched
<1> QED BY <1>1, <1>3, <1>4, <1>5 DEF LoopInv

\* Every step keeps it.
LEMMA NestedStep == ASSUME IInv, NestedRun, [Next]_vars PROVE NestedRun'
<1>1. CASE UNCHANGED vars
  <2>1. LoopInv'
    BY <1>1, StutterNests DEF NestedRun
  <2>2. LoopsNested'
    BY <1>1 DEF vars, NestedRun, LoopsNested, HaltFree
  <2> QED BY <2>1, <2>2 DEF NestedRun
<1>2. CASE Next
  <2>1. UNCHANGED module
    BY <1>2, ModuleStays
  <2>2. LoopsNested'
    BY <2>1 DEF NestedRun, LoopsNested, HaltFree
  <2>3. LoopInv'
    <3>1. LoopInv /\ HaltFree /\ UnitsNested(module)
      BY DEF NestedRun, LoopsNested
    <3>2. CASE Terminated
      BY <3>1, <3>2, StutterNests DEF Terminated
    <3> QED BY <1>2, <3>1, <3>2, HostNests, ExecuteNests DEF Next
  <2> QED BY <2>2, <2>3 DEF NestedRun
<1> QED BY <1>1, <1>2

\* Where a ForNext is executed its loop is the innermost, and has its iterator on top.
LEMMA ServesOwn == ASSUME IInv, NestedRun PROVE LoopYieldsOwnRows
<1> SUFFICES ASSUME Executing("ForNext")
             PROVE  iterators # <<>> /\ Last(iterators).owner = Owner(Frame.ip - 1)
  BY DEF LoopYieldsOwnRows
<1>1. LoopInv /\ UnitsNested(module)
  BY DEF NestedRun, LoopsNested
<1>2. PICK opened, mark : Divided(opened, mark)
  BY <1>1 DEF LoopInv, Executing
<1>3. iterators # <<>> /\ iterators[Len(iterators)].owner = Owner(Frame.ip - 1)
  BY <1>1, <1>2, Serves
<1> QED BY <1>3 DEF Last

\* Whatever module whose loops are nested is loaded and whatever events arrive, a loop
\* is given rows by the iterator its own ForInit made, in the same activation, and by no
\* other: what ForInit drops (vm.rs:534) no loop still needs, and what ForNext takes
\* from the top of the stack all activations share (vm.rs:540) is its own.
THEOREM LoopsAlwaysOwn == Spec /\ LoopsNested => []LoopYieldsOwnRows
<1>1. Init /\ LoopsNested => NestedRun
  BY NestedStart
<1>2. IInv /\ NestedRun /\ [Next]_vars => NestedRun'
  BY NestedStep
<1>3. IInv /\ NestedRun => LoopYieldsOwnRows
  BY ServesOwn
<1> QED BY <1>1, <1>2, <1>3, TypesAlways, PTL DEF Spec
=============================================================================
