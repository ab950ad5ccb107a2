------------------------------ MODULE VMProofs ------------------------------
(***************************************************************************)
(* Type correctness and safety of the virtual machine for every module it  *)
(* may load and every input. The type invariant is inductive together with *)
(* ActiveFrame: an instruction reads the top frame without looking whether *)
(* there is one, so the type of what it reads rests on there being one per *)
(* activation. Relative to both, it keeps one iterator per table, rows of  *)
(* the right length, activations that run the code of their frames, and a  *)
(* record that is only added to.                                           *)
(***************************************************************************)
EXTENDS VM, NaturalsInduction, WellFoundedInduction, FiniteSetTheorems,
        SequenceTheorems, TLAPS
-----------------------------------------------------------------------------
(* Values: whatever operands the bytecode puts before an operator, a       *)
(* built-in function or an operation on the tables, there is a value, an   *)
(* error or a panic.                                                       *)

\* The tokens the display of a value uses are in the alphabet.
LEMMA TokenType ==
    /\ "{" \in Token /\ ", " \in Token /\ "}" \in Token /\ "true" \in Token
    /\ "false" \in Token /\ "()" \in Token /\ "#" \in Token
BY AlphabetAssumption DEF Token

\* One token is a text.
LEMMA TokenText == \A t \in Token : <<t>> \in Text
BY DEF Text

\* Texts are closed under concatenation.
LEMMA ConcatText == \A s, t \in Text : s \o t \in Text
BY DEF Text

\* The numeral of an integer is a token.
LEMMA NumeralType == \A n \in DOMAIN Numerals : Numerals[n] \in Token
BY AlphabetAssumption DEF Token

\* The bounds of the machine integers are integers around zero.
LEMMA BoundsType == MinInt \in Int /\ MaxInt \in Nat /\ MinInt <= 0 /\ MaxInt > 0
BY MaxIntAssumption DEF MinInt

\* Wrapping arithmetic stays within the machine integers (vm.rs, release profile).
LEMMA WrapType == \A n \in Int : Wrap(n) \in I64
BY MaxIntAssumption DEF Wrap, I64, MinInt

\* The payload of a value is what its type says.
LEMMA Payload ==
    ASSUME NEW v \in Value
    PROVE  /\ TypeOf(v) = "int" => v[2] \in I64
           /\ TypeOf(v) = "str" => v[2] \in Text
           /\ TypeOf(v) = "bool" => v[2] \in BOOLEAN
           /\ TypeOf(v) = "event" => v[2] \in EventFields
           /\ v = <<TypeOf(v), v[2]>>
BY DEF Value, Scalar, TypeOf

\* The constructors of values yield values.
LEMMA MakeValue ==
    /\ \A n \in I64 : Int64(n) \in Scalar
    /\ \A s \in Text : Str(s) \in Scalar
    /\ \A b \in BOOLEAN : Bool(b) \in Scalar
    /\ \A f \in EventFields : Event(f) \in Value
    /\ Unit \in Scalar
    /\ Scalar \subseteq Value
BY DEF Int64, Str, Bool, Event, Unit, Scalar, Value

\* Success with a value, an error and a panic are outcomes.
LEMMA MakeOutcome ==
    /\ \A v \in Value : Ok(v) \in Outcome
    /\ Err \in Outcome
    /\ Panic \in Outcome
BY MakeValue DEF Ok, Err, Panic, Outcome

\* A pair of elements of S is a sequence over S.
LEMMA PairInSeq == ASSUME NEW S, NEW a \in S, NEW b \in S PROVE <<a, b>> \in Seq(S)
<1>1. <<a, b>> = Append(<<a>>, b)
  OBVIOUS
<1>2. <<a>> \in Seq(S)
  OBVIOUS
<1> QED BY <1>1, <1>2

\* Every value is displayed as a text.
LEMMA TextOfType == ASSUME NEW v \in Value PROVE TextOf(v) \in Text
<1>1. <<"{", "}">> \in Text
  BY TokenType, PairInSeq DEF Text
<1> QED BY <1>1, TokenText, TokenType, NumeralType, Payload DEF TextOf

\* Every value is true or false.
LEMMA TruthyType == ASSUME NEW v \in Value PROVE Truthy(v) \in BOOLEAN
BY Payload DEF Truthy

\* A text occurs in another or it does not.
LEMMA OccursType == \A s, t : Occurs(s, t) \in BOOLEAN
BY DEF Occurs

\* The order of the VM is a relation: it is defined on any two values.
LEMMA LessType == \A l, r : Less(l, r) \in BOOLEAN
<1> TAKE l, r
<1>1. TextLess(l[2], r[2]) \in BOOLEAN
  BY DEF TextLess
<1>2. (~l[2] /\ r[2]) \in BOOLEAN
  OBVIOUS
<1>3. (l[2] < r[2]) \in BOOLEAN
  OBVIOUS
<1> QED BY <1>1, <1>2, <1>3, Zenon DEF Less

\* The VM compares any two values without an error.
LEMMA ComparedType ==
    \A op, l, r : op \in Comparisons => VMCompare(op, l, r) \in Outcome
BY LessType, MakeValue, MakeOutcome DEF VMCompare, Comparisons

\* Addition, subtraction and multiplication of any two values have an outcome.
LEMMA ArithType ==
    ASSUME NEW op \in {"Add", "Sub", "Mul"}, NEW l \in Value, NEW r \in Value
    PROVE  Arith(op, l, r) \in Outcome
<1>1. CASE Both("int", l, r)
  <2>1. l[2] \in Int /\ r[2] \in Int
    BY <1>1, Payload, BoundsType DEF Both, I64
  <2> DEFINE n == CASE op = "Add" -> l[2] + r[2]
                    [] op = "Sub" -> l[2] - r[2]
                    [] op = "Mul" -> l[2] * r[2]
  <2>2. n \in Int
    BY <2>1
  <2>3. Arith(op, l, r) = Ok(Int64(Wrap(n)))
    BY <1>1 DEF Arith
  <2> QED BY <2>2, <2>3, WrapType, MakeValue, MakeOutcome
<1>2. CASE ~Both("int", l, r) /\ op = "Add" /\ Both("str", l, r)
  <2>1. l[2] \o r[2] \in Text
    BY <1>2, Payload DEF Both, Text
  <2> QED BY <1>2, <2>1, MakeValue, MakeOutcome DEF Arith
<1>3. CASE ~Both("int", l, r) /\ ~(op = "Add" /\ Both("str", l, r))
  BY <1>3, MakeOutcome DEF Arith
<1> QED BY <1>1, <1>2, <1>3

\* Euclidean division of natural numbers.
LEMMA DivMod ==
    \A x, y \in Nat : y >= 1 =>
       /\ x = y * (x \div y) + (x % y)
       /\ x \div y \in Nat
       /\ x % y \in 0..(y - 1)
BY SMTT(20)

\* A product is at least each factor, and twice it from a factor of two on.
LEMMA Multiples ==
    /\ \A q, y \in Nat : y >= 1 => q <= y * q /\ y * q \in Nat
    /\ \A q, y \in Nat : y >= 2 => 2 * q <= y * q
BY SMTT(20)

\* The quotient is at most the dividend, and half of it unless the divisor is 1.
LEMMA DivBound ==
    ASSUME NEW x \in Nat, NEW y \in Nat, y >= 1
    PROVE  x \div y <= x /\ (y >= 2 => 2 * (x \div y) <= x)
<1> DEFINE q == x \div y
<1>1. x = y * q + (x % y) /\ q \in Nat /\ x % y \in Nat
  BY DivMod
<1>2. q <= y * q /\ y * q \in Nat /\ (y >= 2 => 2 * q <= y * q)
  BY <1>1, Multiples
<1> HIDE DEF q
<1> QED BY <1>1, <1>2

\* Truncating division stays within the machine integers but for MinInt by -1, the
\* case i64 division panics on.
LEMMA QuotientType ==
    ASSUME NEW a \in I64, NEW b \in I64, b # 0, ~(a = MinInt /\ b = -1)
    PROVE  Quotient(a, b) \in I64 /\ Remainder(a, b) \in I64
<1> DEFINE x == Abs(a)
           y == Abs(b)
           q == x \div y
           r == x % y
<1>1. x \in Nat /\ y \in Nat /\ y >= 1 /\ x <= MaxInt + 1 /\ y <= MaxInt + 1
  BY BoundsType DEF Abs, I64, MinInt
<1>2. q \in Nat /\ q <= x /\ (y >= 2 => 2 * q <= x) /\ r \in 0..(y - 1)
  BY <1>1, DivMod, DivBound
<1>3. Quotient(a, b) = IF (a < 0) = (b < 0) THEN q ELSE -q
  BY DEF Quotient
<1>4. Remainder(a, b) = IF a < 0 THEN -r ELSE r
  <2>1. ~(a < 0) => Abs(a) = a
    BY DEF Abs
  <2> QED BY <2>1 DEF Remainder
<1>5. q = MaxInt + 1 => (a < 0) # (b < 0)
  <2>1. SUFFICES ASSUME q = MaxInt + 1 PROVE (a < 0) # (b < 0)
    OBVIOUS
  <2>2. x = MaxInt + 1 /\ y = 1
    BY <1>1, <1>2, <2>1, BoundsType
  <2>3. a = MinInt /\ b = 1
    BY <2>2, BoundsType DEF Abs, I64, MinInt
  <2> QED BY <2>3, BoundsType DEF MinInt
<1> HIDE DEF q, r, x, y
<1> QED BY <1>1, <1>2, <1>3, <1>4, <1>5, BoundsType DEF I64, MinInt

\* / and % of any two values have an outcome: a value in range, an error or a panic.
LEMMA DivType ==
    ASSUME NEW l \in Value, NEW r \in Value
    PROVE  Div(l, r) \in Outcome /\ Mod(l, r) \in Outcome
<1>1. CASE Both("int", l, r) /\ r[2] # 0 /\ ~Overflows(l, r)
  <2>1. l[2] \in I64 /\ r[2] \in I64 /\ ~(l[2] = MinInt /\ r[2] = -1)
    BY <1>1, Payload DEF Both, Overflows
  <2>2. Quotient(l[2], r[2]) \in I64 /\ Remainder(l[2], r[2]) \in I64
    BY <1>1, <2>1, QuotientType
  <2> QED BY <1>1, <2>2, MakeValue, MakeOutcome DEF Div, Mod
<1>2. CASE ~(Both("int", l, r) /\ r[2] # 0 /\ ~Overflows(l, r))
  BY <1>2, MakeOutcome DEF Div, Mod
<1> QED BY <1>1, <1>2

\* Every binary operator has an outcome on any two values.
LEMMA BinaryOpType ==
    ASSUME NEW op \in BinaryOps, NEW l \in Value, NEW r \in Value
    PROVE  BinaryOp(op, l, r) \in Outcome
<1>1. CASE op \in {"Add", "Sub", "Mul"}
  BY <1>1, ArithType DEF BinaryOp
<1>2. CASE op \in {"Div", "Mod"}
  BY <1>2, DivType DEF BinaryOp
<1>3. CASE op \in {"Eq", "NotEq"}
  <2>1. ValuesEqual(l, r) \in BOOLEAN /\ (~ValuesEqual(l, r)) \in BOOLEAN
    BY DEF ValuesEqual
  <2>2. Ok(Bool(ValuesEqual(l, r))) \in Outcome
    BY <2>1, MakeValue, MakeOutcome
  <2>3. Ok(Bool(~ValuesEqual(l, r))) \in Outcome
    BY <2>1, MakeValue, MakeOutcome
  <2> QED BY <1>3, <2>2, <2>3 DEF BinaryOp
<1>4. CASE op \in {"And", "Or"}
  <2>1. (Truthy(l) /\ Truthy(r)) \in BOOLEAN /\ (Truthy(l) \/ Truthy(r)) \in BOOLEAN
    OBVIOUS
  <2>2. Ok(Bool(Truthy(l) /\ Truthy(r))) \in Outcome
    BY <2>1, MakeValue, MakeOutcome
  <2>3. Ok(Bool(Truthy(l) \/ Truthy(r))) \in Outcome
    BY <2>1, MakeValue, MakeOutcome
  <2> QED BY <1>4, <2>2, <2>3 DEF BinaryOp
<1>5. CASE op = "Contains"
  <2>1. Holds(l, r) \in Outcome
    BY OccursType, MakeValue, MakeOutcome DEF Holds
  <2> QED BY <1>5, <2>1 DEF BinaryOp
<1>6. CASE op \in Comparisons
  BY <1>6, ComparedType DEF BinaryOp, Comparisons
<1> QED BY <1>1, <1>2, <1>3, <1>4, <1>5, <1>6 DEF BinaryOps

\* Every unary operator has an outcome on any value.
LEMMA UnaryOpType ==
    ASSUME NEW op \in UnaryOps, NEW v \in Value
    PROVE  UnaryOp(op, v) \in Outcome
<1>1. CASE op = "Not"
  <2>1. (~Truthy(v)) \in BOOLEAN
    OBVIOUS
  <2>2. Ok(Bool(~Truthy(v))) \in Outcome
    BY <2>1, MakeValue, MakeOutcome
  <2> QED BY <1>1, <2>2 DEF UnaryOp
<1>2. CASE op = "Neg" /\ TypeOf(v) = "int"
  <2>1. -v[2] \in Int
    BY <1>2, Payload, BoundsType DEF I64
  <2> QED BY <1>2, <2>1, WrapType, MakeValue, MakeOutcome DEF UnaryOp
<1>3. CASE op = "Neg" /\ TypeOf(v) # "int"
  BY <1>3, MakeOutcome DEF UnaryOp
<1> QED BY <1>1, <1>2, <1>3 DEF UnaryOps
-----------------------------------------------------------------------------
(* Induction over the naturals, as a fact about sets.                      *)

\* A set that holds 0 and the successor of each of its elements holds every natural
\* number.
LEMMA SetInduction ==
    ASSUME NEW S \in SUBSET Nat, 0 \in S, \A n \in S : n + 1 \in S
    PROVE  S = Nat
<1> DEFINE T == Nat \ S
<1>1. SUFFICES ASSUME T # {} PROVE FALSE
  OBVIOUS
<1>2. IsWellFoundedOn(OpToRel(<, Nat), Nat)
  BY NatLessThanWellFounded
<1>3. PICK x \in T : \A y \in T : ~(<<y, x>> \in OpToRel(<, Nat))
  BY <1>1, <1>2, WFMin, Zenon
<1>4. \A y \in T : ~(y < x)
  BY <1>3, Zenon DEF OpToRel
<1>5. x - 1 \in Nat /\ x - 1 < x
  OBVIOUS
<1>6. x - 1 \in S
  BY <1>4, <1>5
<1> QED BY <1>5, <1>6

\* The piece of a displayed row that one cell adds is a text.
LEMMA CellType ==
    ASSUME NEW row \in Seq(Value), NEW i \in 1..Len(row)
    PROVE  Cell(row, i) \in Text
<1>1. TextOf(row[i]) \in Text
  BY TextOfType
<1>2. <<", ">> \in Text
  BY TokenType, TokenText
<1>3. <<>> \in Text
  BY DEF Text
<1> QED BY <1>1, <1>2, <1>3, ConcatText DEF Cell

\* f appends the pieces c[1], c[2], ... to a beginning o.
Concatenates(f, n, o, c) ==
    \A i \in 0..n : f[i] = IF i = 0 THEN o ELSE f[i - 1] \o c[i]

\* The function that appends any n pieces to a beginning exists ...
LEMMA ConcatenationExists ==
    ASSUME NEW S, NEW n \in Nat, NEW o \in Seq(S), NEW c \in [1..n -> Seq(S)]
    PROVE  \E g \in [0..n -> Seq(S)] : Concatenates(g, n, o, c)
<1> DEFINE Upto(k) == \E g \in [0..n -> Seq(S)] :
                        \A i \in 0..k : g[i] = IF i = 0 THEN o ELSE g[i - 1] \o c[i]
           Done == {k \in Nat : k <= n => Upto(k)}
<1>1. Upto(0)
  <2> DEFINE h == [i \in 0..n |-> o]
  <2>1. h \in [0..n -> Seq(S)] /\ h[0] = o
    OBVIOUS
  <2>2. \A i \in 0..0 : h[i] = IF i = 0 THEN o ELSE h[i - 1] \o c[i]
    <3> HIDE DEF h
    <3>1. TAKE i \in 0..0
    <3>2. i = 0
      OBVIOUS
    <3> QED BY <3>2, <2>1
  <2> HIDE DEF h
  <2> QED BY <2>1, <2>2
<1>2. ASSUME NEW k \in Nat, k + 1 <= n, Upto(k) PROVE Upto(k + 1)
  <2>1. PICK g \in [0..n -> Seq(S)] :
           \A i \in 0..k : g[i] = IF i = 0 THEN o ELSE g[i - 1] \o c[i]
    BY <1>2
  <2>2. k \in 0..n /\ k + 1 \in 1..n /\ k + 1 \in 0..n
    BY <1>2
  <2> DEFINE next == g[k] \o c[k + 1]
             h == [g EXCEPT ![k + 1] = next]
  <2>3. next \in Seq(S)
    <3>1. g[k] \in Seq(S) /\ c[k + 1] \in Seq(S)
      BY <2>2
    <3> QED BY <3>1
  <2>4. /\ h \in [0..n -> Seq(S)]
        /\ h[k + 1] = next
        /\ \A i \in 0..k : h[i] = g[i]
    <3> HIDE DEF next
    <3> QED BY <2>2, <2>3
  <2>5. \A i \in 0..(k + 1) : h[i] = IF i = 0 THEN o ELSE h[i - 1] \o c[i]
    <3> HIDE DEF h
    <3>1. TAKE i \in 0..(k + 1)
    <3>2. CASE i = k + 1
      <4>1. h[k] = g[k] /\ i - 1 = k /\ i # 0
        BY <3>2, <2>4, <2>2
      <4> QED BY <4>1, <3>2, <2>4
    <3>3. CASE i \in 0..k
      <4>1. h[i] = g[i]
        BY <3>3, <2>4
      <4>2. i # 0 => h[i - 1] = g[i - 1]
        BY <3>3, <2>4
      <4>3. g[i] = IF i = 0 THEN o ELSE g[i - 1] \o c[i]
        BY <3>3, <2>1
      <4> QED BY <4>1, <4>2, <4>3
    <3> QED BY <3>2, <3>3
  <2> HIDE DEF h
  <2> QED BY <2>4, <2>5
<1>3. Done = Nat
  <2>1. 0 \in Done
    BY <1>1
  <2>2. \A k \in Done : k + 1 \in Done
    <3> HIDE DEF Upto
    <3> QED BY <1>2
  <2> HIDE DEF Upto
  <2>3. Done \in SUBSET Nat
    OBVIOUS
  <2> HIDE DEF Done
  <2> QED BY <2>1, <2>2, <2>3, SetInduction
<1>4. n \in Done
  BY <1>3
<1>5. Upto(n)
  <2> HIDE DEF Upto
  <2> QED BY <1>4
<1> QED BY <1>5 DEF Concatenates

\* ... and ends in a sequence over the same set.
LEMMA ConcatenationType ==
    ASSUME NEW S, NEW n \in Nat, NEW o \in Seq(S), NEW c \in [1..n -> Seq(S)],
           NEW f, Concatenates(f, n, o, c)
    PROVE  f[n] \in Seq(S)
<1>0. \A i \in 0..n : i # 0 => f[i] = f[i - 1] \o c[i]
  BY Zenon DEF Concatenates
<1> DEFINE Typed == {k \in Nat : k <= n => f[k] \in Seq(S)}
<1>1. 0 \in Typed
  <2>1. 0 \in 0..n
    OBVIOUS
  <2>2. f[0] = o
    BY <2>1 DEF Concatenates
  <2> QED BY <2>2
<1>2. ASSUME NEW k \in Typed PROVE k + 1 \in Typed
  <2>1. SUFFICES ASSUME k + 1 <= n PROVE f[k + 1] \in Seq(S)
    OBVIOUS
  <2>2. k + 1 \in 0..n /\ k + 1 # 0 /\ (k + 1) - 1 = k /\ k + 1 \in 1..n /\ k <= n
    BY <2>1
  <2>3. f[k + 1] = f[(k + 1) - 1] \o c[k + 1]
    BY <1>0, <2>2
  <2>4. f[k] \in Seq(S) /\ c[k + 1] \in Seq(S)
    BY <2>2
  <2> QED BY <2>2, <2>3, <2>4
<1>3. Typed = Nat
  <2>1. Typed \in SUBSET Nat
    OBVIOUS
  <2> HIDE DEF Typed
  <2> QED BY <1>1, <1>2, <2>1, SetInduction
<1> QED BY <1>3

\* Every row is displayed as a text (vm.rs, row_to_string).
LEMMA RowTextType == ASSUME NEW row \in Seq(Value) PROVE RowText(row) \in Text
<1> DEFINE n == Len(row)
           o == <<"{">>
           c == [i \in 1..n |-> Cell(row, i)]
           f == CHOOSE f : f = [i \in 0..n |->
                    IF i = 0 THEN <<"{">> ELSE f[i - 1] \o Cell(row, i)]
<1>1. n \in Nat
  OBVIOUS
<1>2. o \in Text
  BY TokenType, TokenText
<1>3. <<"}">> \in Text
  BY TokenType, TokenText
<1>4. c \in [1..n -> Text] /\ \A i \in 1..n : c[i] = Cell(row, i)
  BY CellType
<1>5. RowText(row) = f[n] \o <<"}">>
  BY Zenon DEF RowText
<1>6. f = CHOOSE g : g = [i \in 0..n |-> IF i = 0 THEN o ELSE g[i - 1] \o Cell(row, i)]
  BY Zenon
<1> HIDE DEF f, c, n, o
<1>7. PICK g \in [0..n -> Text] : Concatenates(g, n, o, c)
  BY <1>1, <1>2, <1>4, ConcatenationExists DEF Text
<1>8. \A i \in 0..n : i = 0 \/ i \in 1..n
  BY <1>1
<1>9. \A i \in 0..n : g[i] = IF i = 0 THEN o ELSE g[i - 1] \o Cell(row, i)
  BY <1>7, <1>8, <1>4, Zenon DEF Concatenates
<1>10. g = [i \in 0..n |-> IF i = 0 THEN o ELSE g[i - 1] \o Cell(row, i)]
  BY <1>9
<1>11. f = [i \in 0..n |-> IF i = 0 THEN o ELSE f[i - 1] \o Cell(row, i)]
  BY <1>6, <1>10, Zenon
<1>12. \A i \in 0..n : f[i] = IF i = 0 THEN o ELSE f[i - 1] \o Cell(row, i)
  BY <1>11, Zenon
<1>13. Concatenates(f, n, o, c)
  BY <1>12, <1>8, <1>4, Zenon DEF Concatenates
<1>14. f[n] \in Text
  BY <1>1, <1>2, <1>4, <1>13, ConcatenationType DEF Text
<1> QED BY <1>5, <1>14, <1>3, ConcatText
-----------------------------------------------------------------------------
(* The built-in functions and the table store.                             *)

\* A part of a sequence within its bounds is a sequence over the same set.
LEMMA Clipped ==
    ASSUME NEW S, NEW s \in Seq(S), NEW m \in Nat, NEW n \in Nat, m >= 1, n <= Len(s)
    PROVE  SubSeq(s, m, n) \in Seq(S)
<1>1. \A i \in m .. n : s[i] \in S
  OBVIOUS
<1> QED BY <1>1, SubSeqProperties

\* substring returns a text whatever its start and count are.
LEMMA SubstringType ==
    ASSUME NEW s \in Text, NEW start \in Int, NEW count \in Int
    PROVE  Substring(s, start, count) \in Text
<1> DEFINE m == Larger(start, 0) + 1
           n == Smaller(Larger(start, 0) + Larger(count, 0), Len(s))
<1>1. s \in Seq(Token) /\ Len(s) \in Nat
  BY DEF Text
<1>2. Larger(start, 0) \in Nat /\ Larger(count, 0) \in Nat
  BY DEF Larger
<1>3. m \in Nat /\ m >= 1 /\ n \in Nat /\ n <= Len(s)
  BY <1>1, <1>2 DEF Smaller
<1>4. Substring(s, start, count) = SubSeq(s, m, n)
  BY DEF Substring
<1> HIDE DEF m, n
<1> QED BY <1>1, <1>3, <1>4, Clipped DEF Text

\* The machine integers are integers.
LEMMA IntegerPayload == \A n \in I64 : n \in Int
BY BoundsType DEF I64

\* contains, starts_with and ends_with answer true or false.
LEMMA StringTestType == \A name, s, t : StringTest(name, s, t) \in BOOLEAN
<1> TAKE name, s, t
<1>1. StartsWith(s, t) \in BOOLEAN /\ EndsWith(s, t) \in BOOLEAN
  BY DEF StartsWith, EndsWith
<1>2. Occurs(t, s) \in BOOLEAN
  BY OccursType
<1> QED BY <1>1, <1>2, Zenon DEF StringTest

\* A wrapped integer is a successful outcome.
LEMMA WrappedValue == \A n \in Int : Ok(Int64(Wrap(n))) \in Outcome
BY WrapType, MakeValue, MakeOutcome

\* len has an outcome on every value.
LEMMA Len64Type ==
    ASSUME NEW v \in Value PROVE Len64(v) \in Outcome
<1>1. CASE TypeOf(v) = "str"
  <2>1. Len(v[2]) \in Int
    BY <1>1, Payload DEF Text
  <2> QED BY <1>1, <2>1, WrappedValue DEF Len64
<1>2. CASE TypeOf(v) = "event"
  <2>1. Present(v[2]) \subseteq FieldNames
    BY <1>2, Payload DEF Present, EventFields
  <2>2. Cardinality(Present(v[2])) \in Nat
    BY <2>1, FieldNamesAssumption, FS_Subset, FS_CardinalityType
  <2>3. Cardinality(Present(v[2])) \in Int
    BY <2>2
  <2> QED BY <1>2, <2>3, WrappedValue DEF Len64
<1>3. CASE TypeOf(v) \notin {"str", "event"}
  BY <1>3, MakeOutcome DEF Len64
<1> QED BY <1>1, <1>2, <1>3

\* now() has an outcome.
LEMMA NowType == Ok(Int64(Now)) \in Outcome
BY NowAssumption, MakeValue, MakeOutcome

\* to_string has an outcome on every value.
LEMMA ToStringType == ASSUME NEW v \in Value PROVE Ok(Str(TextOf(v))) \in Outcome
BY TextOfType, MakeValue, MakeOutcome

\* Every built-in has an outcome on any arguments, however many.
LEMMA BuiltinType ==
    ASSUME NEW name, NEW args \in Seq(Value)
    PROVE  Builtin(name, args) \in Outcome
<1> DEFINE tested == Ok(Bool(StringTest(name, args[1][2], args[2][2])))
<1>7. /\ Arity(<<"substring">>) = 3 
      /\ Arity(<<"len">>) = 1 
      /\ Arity(<<"to_string">>) = 1
  BY DEF Arity
<1>1. CASE name = <<"now">>
  BY <1>1, NowType DEF Builtin
<1>2. CASE name # <<"now">> /\ name = <<"len">> /\ Len(args) = 1
  <2>1. args[1] \in Value
    BY <1>2
  <2> QED BY <1>2, <2>1, Len64Type DEF Builtin
<1>3. CASE name # <<"now">> /\ name = <<"to_string">> /\ Len(args) = 1
  <2>1. args[1] \in Value
    BY <1>3
  <2>2. Ok(Str(TextOf(args[1]))) \in Outcome
    BY <2>1, ToStringType
  <2> HIDE DEF tested
  <2> QED BY <1>3, <2>2 DEF Builtin
<1>4. CASE name # <<"now">> /\ name = <<"substring">> /\ Len(args) = 3
  <2>1. args[1] \in Value /\ args[2] \in Value /\ args[3] \in Value
    BY <1>4
  <2>2. CASE TypeOf(args[1]) = "str" /\ Both("int", args[2], args[3])
    <3>1. args[1][2] \in Text /\ args[2][2] \in Int /\ args[3][2] \in Int
      BY <2>1, <2>2, Payload, IntegerPayload DEF Both
    <3>2. Ok(Str(Substring(args[1][2], args[2][2], args[3][2]))) \in Outcome
      BY <3>1, SubstringType, MakeValue, MakeOutcome
    <3> HIDE DEF tested
    <3> QED BY <1>4, <1>7, <2>2, <3>2, MakeOutcome DEF Builtin
  <2>3. CASE ~(TypeOf(args[1]) = "str" /\ Both("int", args[2], args[3]))
    <3> HIDE DEF tested
    <3> QED BY <1>4, <2>3, MakeOutcome DEF Builtin
  <2> QED BY <2>2, <2>3
<1>5. CASE name # <<"now">> /\ Len(args) # Arity(name)
  <2> HIDE DEF tested
  <2> QED BY <1>5, <1>7, MakeOutcome DEF Builtin
<1>6. CASE /\ name # <<"now">> /\ Len(args) = Arity(name)
           /\ ~(name = <<"len">> /\ Len(args) = 1)
           /\ ~(name = <<"to_string">> /\ Len(args) = 1)
           /\ ~(name = <<"substring">> /\ Len(args) = 3)
  <2>1. tested \in Outcome
    BY StringTestType, MakeValue, MakeOutcome
  <2>2. Builtin(name, args) = IF Both("str", args[1], args[2]) THEN tested ELSE Err
    BY <1>6, Zenon DEF Builtin
  <2> HIDE DEF tested
  <2> QED BY <2>1, <2>2, MakeOutcome
<1> QED BY <1>1, <1>2, <1>3, <1>4, <1>5, <1>6

-----------------------------------------------------------------------------
(* The table store.                                                        *)

\* The rows of a table are sequences of values.
LEMMA RowsType ==
    ASSUME NEW t \in Table PROVE t.rows \in Seq(Seq(Value)) /\ t.fields \in Seq(Text)
BY DEF Table, Row

\* A store with other rows in one of its tables is a store.
LEMMA WithRows ==
    ASSUME NEW N, NEW store \in [N -> Table], NEW name \in N, NEW rows \in Seq(Row)
    PROVE  [store EXCEPT ![name].rows = rows] \in [N -> Table]
BY DEF Table

\* Inserting a row leaves a store.
LEMMA InsertType ==
    ASSUME NEW N, NEW store \in [N -> Table], NEW name \in N, NEW row \in Row
    PROVE  Insert(store, name, row) \in [N -> Table]
<1>1. store[name].rows \in Seq(Row)
  BY DEF Table
<1>2. Append(store[name].rows, row) \in Seq(Row)
  BY <1>1
<1> QED BY <1>2, WithRows DEF Insert

\* Selecting or permuting the rows of a table leaves a store.
LEMMA ReorderType ==
    ASSUME NEW N, NEW store \in [N -> Table], NEW name \in N, NEW n \in Nat,
           NEW order \in [1..n -> DOMAIN store[name].rows]
    PROVE  Reorder(store, name, order) \in [N -> Table]
<1>1. store[name].rows \in Seq(Row)
  BY DEF Table
<1> DEFINE rows == [i \in DOMAIN order |-> store[name].rows[order[i]]]
<1>2. \A i \in 1..n : store[name].rows[order[i]] \in Row
  BY <1>1
<1>3. rows \in Seq(Row)
  <2>1. DOMAIN order = 1..n
    OBVIOUS
  <2>2. rows \in [1..n -> Row]
    BY <1>2, <2>1
  <2> HIDE DEF rows
  <2> QED BY <2>2, SeqDef
<1>4. Reorder(store, name, order) = [store EXCEPT ![name].rows = rows]
  BY DEF Reorder
<1> HIDE DEF rows
<1> QED BY <1>3, <1>4, WithRows

\* filter leaves a store.
LEMMA FilterType ==
    ASSUME NEW N, NEW store \in [N -> Table], NEW name \in N, NEW field, NEW needle,
           NEW order \in Increasing(Matching(store, name, field, needle))
    PROVE  Reorder(store, name, order) \in [N -> Table]
<1> DEFINE kept == Matching(store, name, field, needle)
<1>1. kept \subseteq DOMAIN store[name].rows
  BY DEF Matching
<1>2. store[name].rows \in Seq(Row)
  BY DEF Table
<1>3. DOMAIN store[name].rows = 1..Len(store[name].rows) /\ Len(store[name].rows) \in Nat
  BY <1>2
<1>4. Cardinality(kept) \in Nat
  <2>1. IsFiniteSet(DOMAIN store[name].rows)
    BY <1>3, FS_Interval
  <2> HIDE DEF kept
  <2> QED BY <1>1, <2>1, FS_Subset, FS_CardinalityType
<1>5. order \in [1..Cardinality(kept) -> kept]
  BY DEF Increasing
<1> HIDE DEF kept
<1>6. order \in [1..Cardinality(kept) -> DOMAIN store[name].rows]
  BY <1>1, <1>5
<1> QED BY <1>4, <1>6, ReorderType

\* sort leaves a store.
LEMMA SortType ==
    ASSUME NEW N, NEW store \in [N -> Table], NEW name \in N, NEW field,
           NEW order \in StableOrders(store, name, field)
    PROVE  Reorder(store, name, order) \in [N -> Table]
<1>1. store[name].rows \in Seq(Row)
  BY DEF Table
<1>2. DOMAIN store[name].rows = 1..Len(store[name].rows) /\ Len(store[name].rows) \in Nat
  BY <1>1
<1>3. order \in [DOMAIN store[name].rows -> DOMAIN store[name].rows]
  BY DEF StableOrders
<1> QED BY <1>2, <1>3, ReorderType

\* Replacing an element of a sequence, or none where there is none, keeps its type
\* and length.
LEMMA Replaced ==
    ASSUME NEW S, NEW s \in Seq(S), NEW i, NEW e, i \in DOMAIN s => e \in S
    PROVE  [s EXCEPT ![i] = e] \in Seq(S) /\ Len([s EXCEPT ![i] = e]) = Len(s)
<1> DEFINE t == [s EXCEPT ![i] = e]
<1>1. DOMAIN s = 1..Len(s) /\ Len(s) \in Nat /\ \A j \in DOMAIN s : s[j] \in S
  OBVIOUS
<1>2. DOMAIN t = DOMAIN s /\ t = [j \in DOMAIN s |-> IF j = i THEN e ELSE s[j]]
  OBVIOUS
<1>3. \A j \in DOMAIN s : t[j] \in S
  BY <1>1, <1>2
<1>4. t \in [1..Len(s) -> S]
  BY <1>1, <1>2, <1>3
<1> HIDE DEF t
<1>5. t \in Seq(S)
  BY <1>1, <1>4, SeqDef
<1>6. Len(t) = Len(s)
  BY <1>1, <1>2, <1>5
<1> QED BY <1>5, <1>6 DEF t

\* Assigning a cell leaves a store.
LEMMA AssignCellType ==
    ASSUME NEW N, NEW store \in [N -> Table], NEW name \in N, NEW index, NEW field,
           NEW v \in Value
    PROVE  AssignCell(store, name, index, field, v) \in [N -> Table]
<1> DEFINE rows == store[name].rows
           i == index[2] + 1
           col == Column(store, name, field)
           row == [rows[i] EXCEPT ![col] = v]
<1>1. rows \in Seq(Row)
  BY DEF Table
<1>2. i \in DOMAIN rows => row \in Row
  <2> SUFFICES ASSUME i \in DOMAIN rows PROVE row \in Row
    OBVIOUS
  <2>1. rows[i] \in Seq(Value)
    BY <1>1 DEF Row
  <2> HIDE DEF rows, i, col
  <2> QED BY <2>1, Replaced DEF Row
<1>3. [rows EXCEPT ![i] = row] \in Seq(Row)
  <2> HIDE DEF rows, i, row
  <2> QED BY <1>1, <1>2, Replaced
<1>4. AssignCell(store, name, index, field, v)
        = [store EXCEPT ![name].rows = [rows EXCEPT ![i] = row]]
  BY DEF AssignCell
<1> DEFINE new == [rows EXCEPT ![i] = row]
<1>5. new \in Seq(Row) /\ AssignCell(store, name, index, field, v)
                            = [store EXCEPT ![name].rows = new]
  BY <1>3, <1>4
<1> HIDE DEF rows, i, row, new
<1> QED BY <1>5, WithRows

\* The declared tables, all empty, are a store.
LEMMA EmptyStoreType ==
    ASSUME NEW declared \in Seq([name : Text, columns : Seq(Text)])
    PROVE  EmptyStore(declared)
             \in [{declared[i].name : i \in DOMAIN declared} -> Table]
<1> DEFINE N == {declared[i].name : i \in DOMAIN declared}
           D == {declared[i] : i \in DOMAIN declared}
           first(name) == CHOOSE d \in D : d.name = name
<1>1. D \subseteq [name : Text, columns : Seq(Text)]
  <2> DEFINE T == [name : Text, columns : Seq(Text)]
  <2>1. declared \in Seq(T)
    OBVIOUS
  <2> HIDE DEF T
  <2>2. \A i \in DOMAIN declared : declared[i] \in T
    BY <2>1
  <2> QED BY <2>2 DEF T
<1>2. \A name \in N : \E d \in D : d.name = name
  OBVIOUS
<1>3. \A name \in N : first(name) \in D
  <2> HIDE DEF D, N
  <2> QED BY <1>2
<1>4. \A name \in N : first(name).columns \in Seq(Text)
  <2> HIDE DEF N, D, first
  <2> QED BY <1>1, <1>3
<1>5. \A name \in N : [fields |-> first(name).columns, rows |-> <<>>] \in Table
  <2> HIDE DEF N, D, first
  <2> QED BY <1>4 DEF Table
<1>6. EmptyStore(declared)
        = [name \in N |-> [fields |-> first(name).columns, rows |-> <<>>]]
  BY Zenon DEF EmptyStore
<1> HIDE DEF N, D, first
<1>7. EmptyStore(declared) \in [N -> Table]
  BY <1>5, <1>6
<1> QED BY <1>7 DEF N
-----------------------------------------------------------------------------
(* The invariant.                                                          *)

IInv == TypeOK /\ ActiveFrame

TableNames == {module.tables[i].name : i \in DOMAIN module.tables}
Store == [TableNames -> Table]

\* A loaded module is well formed.
LEMMA ModuleType == ASSUME module \in Modules PROVE module \in Module
BY ModulesAssumption

\* Every unit has code.
LEMMA CodeType ==
    ASSUME module \in Modules, NEW u \in Units
    PROVE  Code(u) \in Seq(Instruction)
<1>1. module \in Module
  BY ModuleType
<1>2. CASE u.kind = "function" /\ u.n \in DOMAIN module.functions
  <2> DEFINE F == [name : Text, arity : Nat, code : Seq(Instruction)]
  <2>1. module.functions \in Seq(F)
    BY <1>1 DEF Module
  <2> HIDE DEF F
  <2>2. module.functions[u.n] \in F
    BY <1>2, <2>1
  <2> QED BY <1>2, <2>2 DEF Code, F
<1>3. CASE u.kind = "on" /\ u.n \in DOMAIN module.event_handlers
  <2> DEFINE F == [name : Text, code : Seq(Instruction)]
  <2>1. module.event_handlers \in Seq(F)
    BY <1>1 DEF Module
  <2> HIDE DEF F
  <2>2. module.event_handlers[u.n] \in F
    BY <1>3, <2>1
  <2> QED BY <1>3, <2>2 DEF Code, F
<1>4. CASE u.kind = "finish" /\ u.n \in DOMAIN module.finish_handlers
  <2> DEFINE F == [code : Seq(Instruction)]
  <2>1. module.finish_handlers \in Seq(F)
    BY <1>1 DEF Module
  <2> HIDE DEF F
  <2>2. module.finish_handlers[u.n] \in F
    BY <1>4, <2>1
  <2> QED BY <1>4, <2>2 DEF Code, F
<1> QED BY <1>2, <1>3, <1>4 DEF Units

\* While an activation is left there is a frame on top, and code to run.
LEMMA TopFrame ==
    ASSUME IInv, calls # <<>>
    PROVE  /\ Len(calls) \in Nat \ {0} /\ Len(frames) \in Nat \ {0}
           /\ Len(frames) \in DOMAIN frames
           /\ Frame \in FrameType
           /\ Running \in Units
           /\ Code(Running) \in Seq(Instruction)
<1>1. calls \in Seq(CallType) /\ frames \in Seq(FrameType) /\ module \in Modules
  BY DEF IInv, TypeOK
<1>2. Len(calls) <= Len(frames)
  BY DEF IInv, ActiveFrame
<1>3. Len(calls) \in Nat \ {0} /\ Len(frames) \in Nat \ {0} /\ Len(frames) \in DOMAIN frames
  BY <1>1, <1>2
<1>4. frames[Len(frames)] \in FrameType /\ calls[Len(calls)] \in CallType
  BY <1>1, <1>3
<1>5. Running \in Units
  BY <1>4 DEF Running, CallType
<1> QED BY <1>1, <1>3, <1>4, <1>5, CodeType DEF Frame

\* The instruction about to be executed is one.
LEMMA NextInstruction ==
    ASSUME IInv, NEW op, Executing(op)
    PROVE  /\ status = "running" /\ calls # <<>>
           /\ Instr \in Instruction /\ Instr.arg \in Nat /\ Instr.op = op
<1>1. status = "running" /\ calls # <<>> /\ ~AtEnd /\ Instr.op = op
  BY DEF Executing
<1>2. Frame.ip \in Nat /\ Code(Running) \in Seq(Instruction)
  BY <1>1, TopFrame DEF FrameType
<1>3. Frame.ip + 1 \in DOMAIN Code(Running)
  BY <1>1, <1>2 DEF AtEnd
<1>4. Instr \in Instruction
  BY <1>2, <1>3 DEF Instr
<1> QED BY <1>1, <1>4 DEF Instruction

\* A constant of the pool is a value, and a name a text.
LEMMA ConstantType ==
    ASSUME IInv, NEW i \in Nat, IsConstant(i)
    PROVE  Constant(i) \in Value /\ (IsName(i) => Constant(i)[2] \in Text)
<1>1. module.constants \in Seq(Value)
  BY ModuleType DEF IInv, TypeOK, Module
<1>2. Constant(i) \in Value
  BY <1>1 DEF Constant, IsConstant
<1> QED BY <1>2, Payload DEF IsName

\* The name an instruction refers to is a text.
LEMMA NameType ==
    ASSUME IInv, NEW op, ExecutingNamed(op)
    PROVE  Name \in Text
<1>1. Instr.arg \in Nat /\ IsName(Instr.arg) /\ IsConstant(Instr.arg)
  BY NextInstruction DEF ExecutingNamed, IsName
<1> QED BY <1>1, ConstantType DEF Name
-----------------------------------------------------------------------------
(* What the parts of an instruction preserve.                              *)

\* Replacing the top frame keeps the frames.
LEMMA FrameAdvances ==
    ASSUME IInv, calls # <<>>, NEW f \in FrameType
    PROVE  /\ [frames EXCEPT ![Len(frames)] = f] \in Seq(FrameType)
           /\ Len([frames EXCEPT ![Len(frames)] = f]) = Len(frames)
<1>1. frames \in Seq(FrameType)
  BY DEF IInv, TypeOK
<1> QED BY <1>1, Replaced

\* Setting the ip of the top frame keeps the frames.
LEMMA JumpType ==
    ASSUME IInv, calls # <<>>, NEW ip \in Nat
    PROVE  LET after == [frames EXCEPT ![Len(frames)].ip = ip]
           IN  after \in Seq(FrameType) /\ Len(after) = Len(frames)
<1> DEFINE f == [Frame EXCEPT !.ip = ip]
<1>1. Frame \in FrameType
  BY TopFrame
<1>2. f \in FrameType
  BY <1>1 DEF FrameType
<1>3. [frames EXCEPT ![Len(frames)].ip = ip] = [frames EXCEPT ![Len(frames)] = f]
  BY DEF Frame
<1> HIDE DEF f
<1> QED BY <1>2, <1>3, FrameAdvances

\* Moving on to the next instruction keeps the frames.
LEMMA StepType ==
    ASSUME IInv, calls # <<>>, Step
    PROVE  frames' \in Seq(FrameType) /\ Len(frames') = Len(frames)
<1>1. Frame.ip + 1 \in Nat
  BY TopFrame DEF FrameType
<1>2. frames' = [frames EXCEPT ![Len(frames)].ip = Frame.ip + 1]
  BY DEF Step, Frame
<1> QED BY <1>1, <1>2, JumpType

\* Jumping keeps the frames.
LEMMA JumpToType ==
    ASSUME IInv, calls # <<>>, NEW ip \in Nat, JumpTo(ip)
    PROVE  frames' \in Seq(FrameType) /\ Len(frames') = Len(frames)
BY JumpType DEF JumpTo

\* Operands, and what lies beneath them, are values where the stack is deep enough.
LEMMA OperandTypes ==
    ASSUME IInv, NEW n \in Nat, Enough(n)
    PROVE  /\ Beneath(n) \in Seq(Value) /\ Len(Beneath(n)) = Len(stack) - n
           /\ Operands(n) \in Seq(Value) /\ Len(Operands(n)) = n
           /\ \A i \in 1..n : Operand(i) \in Value
<1>1. stack \in Seq(Value) /\ Len(stack) \in Nat /\ n <= Len(stack)
  BY DEF IInv, TypeOK, Enough
<1>2. \A i \in 1..Len(stack) : stack[i] \in Value
  BY <1>1
<1>3. Beneath(n) \in Seq(Value) /\ Len(Beneath(n)) = Len(stack) - n
  <2>1. Len(stack) - n \in Int /\ \A i \in 1..(Len(stack) - n) : stack[i] \in Value
    BY <1>1, <1>2
  <2> QED BY <1>1, <2>1, SubSeqProperties DEF Beneath
<1>4. Operands(n) \in Seq(Value) /\ Len(Operands(n)) = n
  <2> DEFINE m == Len(stack) - n + 1
  <2>1. m \in Int /\ Len(stack) \in Int /\ \A i \in m..Len(stack) : stack[i] \in Value
    BY <1>1, <1>2
  <2> HIDE DEF m
  <2>2. /\ SubSeq(stack, m, Len(stack)) \in Seq(Value)
        /\ Len(SubSeq(stack, m, Len(stack)))
             = IF m <= Len(stack) THEN Len(stack) - m + 1 ELSE 0
    BY <2>1, SubSeqProperties
  <2> QED BY <1>1, <2>2 DEF m, Operands
<1>5. \A i \in 1..n : Operand(i) \in Value
  BY <1>1, <1>2 DEF Operand
<1> QED BY <1>3, <1>4, <1>5

\* Every outcome leaves a status.
LEMMA AfterType == \A tag \in {"ok", "err", "panic"} : After(tag) \in Status
BY DEF After, Status

\* Popping an operand that is not there leaves an empty stack and a status.
LEMMA UnderflowType ==
    ASSUME Underflow PROVE stack' \in Seq(Value) /\ status' \in Status
BY DEF Underflow, Status

\* A computation leaves values on the stack.
LEMMA ComputeType ==
    ASSUME IInv, NEW n \in Nat, NEW r, Enough(n) => r \in Outcome, Compute(n, r)
    PROVE  stack' \in Seq(Value) /\ status' \in Status
<1>1. CASE ~Enough(n)
  BY <1>1, UnderflowType DEF Compute
<1>2. CASE Enough(n)
  <2>1. r.tag \in {"ok", "err", "panic"} /\ r.value \in Value
    BY <1>2 DEF Outcome
  <2> DEFINE top == IF r.tag = "ok" THEN <<r.value>> ELSE <<>>
  <2>2. top \in Seq(Value)
    BY <2>1
  <2>3. stack' = Beneath(n) \o top /\ status' = After(r.tag)
    BY <1>2 DEF Compute
  <2> HIDE DEF top
  <2>4. Beneath(n) \in Seq(Value)
    BY <1>2, OperandTypes
  <2> QED BY <2>1, <2>2, <2>3, <2>4, AfterType
<1> QED BY <1>1, <1>2

\* Taking operands leaves values on the stack.
LEMMA ConsumeType ==
    ASSUME IInv, NEW n \in Nat, NEW ok, Consume(n, ok)
    PROVE  stack' \in Seq(Value) /\ status' \in Status
<1>1. CASE ~Enough(n)
  BY <1>1, UnderflowType DEF Consume
<1>2. CASE Enough(n)
  BY <1>2, OperandTypes, AfterType DEF Consume
<1> QED BY <1>1, <1>2
-----------------------------------------------------------------------------
(* How a step's effects add up.                                            *)

\* What frames, activations and iterators may be depends on the loaded module only.
LEMMA TypesStay ==
    ASSUME UNCHANGED module
    PROVE  Store' = Store /\ FrameType' = FrameType /\ CallType' = CallType
             /\ IteratorType' = IteratorType
<1>1. Units' = Units
  BY DEF Units
<1> QED BY <1>1 DEF Store, TableNames, FrameType, CallType, IteratorType

\* The invariant, conjunct by conjunct.
LEMMA Types ==
    ASSUME IInv
    PROVE  /\ module \in Modules /\ tables \in Store /\ alerts \in Seq(Row)
           /\ out \in Seq(Output) /\ stack \in Seq(Value)
           /\ frames \in Seq(FrameType) /\ iterators \in Seq(IteratorType)
           /\ calls \in Seq(CallType) /\ status \in Status /\ finishing \in Nat
           /\ events \in Seq(Events) /\ Len(calls) <= Len(frames)
BY DEF IInv, TypeOK, ActiveFrame, Store, TableNames

\* A step that keeps the module and the type of each variable, and no more
\* activations than frames, preserves the invariant.
LEMMA Preserved ==
    ASSUME UNCHANGED module, IInv,
           tables' \in Store, alerts' \in Seq(Row), out' \in Seq(Output),
           stack' \in Seq(Value), frames' \in Seq(FrameType),
           iterators' \in Seq(IteratorType), calls' \in Seq(CallType),
           status' \in Status, finishing' \in Nat, events' \in Seq(Events),
           Len(calls') <= Len(frames')
    PROVE  IInv'
<1>1. module' \in Modules
  BY Types
<1>2. /\ tables' \in Store' /\ frames' \in Seq(FrameType')
      /\ iterators' \in Seq(IteratorType') /\ calls' \in Seq(CallType')
  BY TypesStay
<1> QED BY <1>1, <1>2 DEF IInv, TypeOK, ActiveFrame, Store, TableNames

\* An instruction that touches the operands and the top frame only preserves it.
LEMMA Local ==
    ASSUME IInv, UNCHANGED <<host, data, iterators, calls>>,
           stack' \in Seq(Value), status' \in Status,
           frames' \in Seq(FrameType), Len(frames') = Len(frames)
    PROVE  IInv'
<1>1. UNCHANGED <<module, finishing, events, tables, alerts, out, iterators, calls>>
  BY DEF host, data
<1> QED BY <1>1, Types, Preserved

\* An instruction that changes tables, alerts or output as well preserves it.
LEMMA Effect ==
    ASSUME IInv, UNCHANGED <<host, iterators, calls>>,
           tables' \in Store, alerts' \in Seq(Row), out' \in Seq(Output),
           stack' \in Seq(Value), status' \in Status,
           frames' \in Seq(FrameType), Len(frames') = Len(frames)
    PROVE  IInv'
<1>1. UNCHANGED <<module, finishing, events, iterators, calls>>
  BY DEF host
<1> QED BY <1>1, Types, Preserved
-----------------------------------------------------------------------------
(* Operands, variables and operators.                                      *)

\* LoadConst preserves the invariant.
LEMMA LoadConstPreserves == ASSUME IInv, LoadConst PROVE IInv'
<1>1. calls # <<>> /\ Instr.arg \in Nat /\ IsConstant(Instr.arg)
  BY NextInstruction DEF LoadConst
<1>2. Ok(Constant(Instr.arg)) \in Outcome
  BY <1>1, ConstantType, MakeOutcome
<1>3. stack' \in Seq(Value) /\ status' \in Status
  BY <1>2, ComputeType DEF LoadConst
<1> QED BY <1>1, <1>3, StepType, Local DEF LoadConst

\* BadConstant preserves the invariant.
LEMMA BadConstantPreserves == ASSUME IInv, BadConstant PROVE IInv'
<1>1. calls # <<>>
  BY NextInstruction DEF BadConstant
<1>2. stack' \in Seq(Value) /\ status' \in Status
  BY Types DEF BadConstant, Status
<1> QED BY <1>1, <1>2, StepType, Local DEF BadConstant

\* A sequence without its last element.
LEMMA FrontType ==
    ASSUME NEW S, NEW s \in Seq(S), s # <<>>
    PROVE  /\ Front(s) \in Seq(S) /\ Len(Front(s)) = Len(s) - 1
           /\ \A i \in DOMAIN Front(s) : Front(s)[i] = s[i]
<1> DEFINE n == Len(s) - 1
<1>1. n \in Nat /\ n \in Int /\ \A i \in 1..n : s[i] \in S
  OBVIOUS
<1>2. Front(s) = SubSeq(s, 1, n)
  BY DEF Front
<1> HIDE DEF n
<1>3. /\ SubSeq(s, 1, n) \in Seq(S)
      /\ Len(SubSeq(s, 1, n)) = n
      /\ \A i \in 1..n : SubSeq(s, 1, n)[i] = s[i]
  BY <1>1, SubSeqProperties
<1> QED BY <1>2, <1>3 DEF n

\* PopOperand preserves the invariant.
LEMMA PopOperandPreserves == ASSUME IInv, PopOperand PROVE IInv'
<1>1. calls # <<>>
  BY NextInstruction DEF PopOperand
<1>2. stack' \in Seq(Value) /\ status' \in Status
  BY Types, FrontType DEF PopOperand
<1> QED BY <1>1, <1>2, StepType, Local DEF PopOperand

\* LoadVar preserves the invariant.
LEMMA LoadVarPreserves == ASSUME IInv, LoadVar PROVE IInv'
<1>1. calls # <<>> /\ Instr.arg \in Nat
  BY NextInstruction DEF LoadVar
<1>2. Frame.locals \in Seq(Value)
  BY <1>1, TopFrame DEF FrameType
<1> DEFINE r == IF Instr.arg < Len(Frame.locals)
                THEN Ok(Frame.locals[Instr.arg + 1]) ELSE Panic
<1>3. r \in Outcome
  <2>1. Instr.arg < Len(Frame.locals) => Frame.locals[Instr.arg + 1] \in Value
    BY <1>1, <1>2
  <2> QED BY <2>1, MakeOutcome
<1>4. Compute(0, r)
  BY DEF LoadVar
<1> HIDE DEF r
<1>5. stack' \in Seq(Value) /\ status' \in Status
  BY <1>3, <1>4, ComputeType
<1> QED BY <1>1, <1>5, StepType, Local DEF LoadVar

\* Storing a local, growing the locals where needed, leaves values.
LEMMA StoredType ==
    ASSUME NEW locals \in Seq(Value), NEW i \in Nat, NEW v \in Value
    PROVE  Stored(locals, i, v) \in Seq(Value)
<1> DEFINE n == Larger(Len(locals), i + 1)
<1>1. n \in Nat
  BY DEF Larger
<1>2. Unit \in Value
  BY MakeValue
<1>3. Stored(locals, i, v) \in [1..n -> Value]
  BY <1>1, <1>2 DEF Stored
<1> HIDE DEF n
<1> QED BY <1>1, <1>3, SeqDef

\* StoreVar preserves the invariant.
LEMMA StoreVarPreserves == ASSUME IInv, StoreVar PROVE IInv'
<1>1. calls # <<>> /\ Instr.arg \in Nat
  BY NextInstruction DEF StoreVar
<1>2. CASE Enough(1)
  <2>1. Operand(1) \in Value
    BY <1>2, OperandTypes
  <2> DEFINE f == [unit |-> Frame.unit,
                   locals |-> Stored(Frame.locals, Instr.arg, Operand(1)),
                   ip |-> Frame.ip + 1]
  <2>2. Frame \in FrameType
    BY <1>1, TopFrame
  <2>3. Stored(Frame.locals, Instr.arg, Operand(1)) \in Seq(Value)
    BY <1>1, <2>1, <2>2, StoredType DEF FrameType
  <2>4. f \in FrameType
    BY <2>2, <2>3 DEF FrameType
  <2>5. frames' = [frames EXCEPT ![Len(frames)] = f] /\ UNCHANGED <<stack, status>>
    BY <1>2 DEF StoreVar
  <2> HIDE DEF f
  <2>6. frames' \in Seq(FrameType) /\ Len(frames') = Len(frames)
    BY <1>1, <2>4, <2>5, FrameAdvances
  <2> QED BY <2>5, <2>6, Types, Local DEF StoreVar
<1>3. CASE ~Enough(1)
  BY <1>1, <1>3, UnderflowType, StepType, Local DEF StoreVar
<1> QED BY <1>2, <1>3

\* Binary preserves the invariant.
LEMMA BinaryPreserves == ASSUME IInv, Binary PROVE IInv'
<1>1. PICK op \in BinaryOps :
         Executing(op) /\ Compute(2, BinaryOp(op, Operand(2), Operand(1)))
  BY DEF Binary
<1>2. calls # <<>>
  BY <1>1, NextInstruction
<1>3. Enough(2) => BinaryOp(op, Operand(2), Operand(1)) \in Outcome
  <2> SUFFICES ASSUME Enough(2) PROVE BinaryOp(op, Operand(2), Operand(1)) \in Outcome
    OBVIOUS
  <2>1. Operand(1) \in Value /\ Operand(2) \in Value
    BY OperandTypes
  <2> QED BY <2>1, BinaryOpType
<1>4. stack' \in Seq(Value) /\ status' \in Status
  BY <1>1, <1>3, ComputeType
<1> QED BY <1>2, <1>4, StepType, Local DEF Binary

\* Unary preserves the invariant.
LEMMA UnaryPreserves == ASSUME IInv, Unary PROVE IInv'
<1>1. PICK op \in UnaryOps : Executing(op) /\ Compute(1, UnaryOp(op, Operand(1)))
  BY DEF Unary
<1>2. calls # <<>>
  BY <1>1, NextInstruction
<1>3. Enough(1) => UnaryOp(op, Operand(1)) \in Outcome
  BY OperandTypes, UnaryOpType
<1>4. stack' \in Seq(Value) /\ status' \in Status
  BY <1>1, <1>3, ComputeType
<1> QED BY <1>2, <1>4, StepType, Local DEF Unary

\* A field that is present is a value.
LEMMA FieldType ==
    ASSUME NEW f \in EventFields, NEW name \in Present(f) PROVE f[name] \in Value
BY DEF EventFields, Present, Value

\* GetEventField preserves the invariant.
LEMMA GetEventFieldPreserves == ASSUME IInv, GetEventField PROVE IInv'
<1> DEFINE r == IF TypeOf(Operand(1)) # "event" THEN Err
                ELSE IF Name \in Present(Operand(1)[2])
                THEN Ok(Operand(1)[2][Name]) ELSE Ok(Unit)
<1>1. calls # <<>>
  BY NextInstruction DEF GetEventField, ExecutingNamed
<1>2. Enough(1) => r \in Outcome
  <2> SUFFICES ASSUME Enough(1) PROVE r \in Outcome
    OBVIOUS
  <2>1. Operand(1) \in Value
    BY OperandTypes
  <2>2. TypeOf(Operand(1)) = "event" => Operand(1)[2] \in EventFields
    BY <2>1, Payload
  <2>3. TypeOf(Operand(1)) = "event" /\ Name \in Present(Operand(1)[2])
           => Operand(1)[2][Name] \in Value
    BY <2>2, FieldType
  <2> QED BY <2>3, MakeValue, MakeOutcome
<1>3. Compute(1, r)
  BY DEF GetEventField
<1> HIDE DEF r
<1>4. stack' \in Seq(Value) /\ status' \in Status
  BY <1>2, <1>3, ComputeType
<1> QED BY <1>1, <1>4, StepType, Local DEF GetEventField

\* NoOperation preserves the invariant.
LEMMA NoOperationPreserves == ASSUME IInv, NoOperation PROVE IInv'
<1>1. calls # <<>>
  BY NextInstruction DEF NoOperation
<1> QED BY <1>1, StepType, Types, Local DEF NoOperation
-----------------------------------------------------------------------------
(* Control.                                                                *)

\* Jump preserves the invariant.
LEMMA JumpPreserves == ASSUME IInv, Jump PROVE IInv'
<1>1. calls # <<>> /\ Instr.arg \in Nat
  BY NextInstruction DEF Jump
<1> QED BY <1>1, JumpToType, Types, Local DEF Jump

\* Branch preserves the invariant.
LEMMA BranchPreserves ==
    ASSUME IInv, NEW op, NEW wanted, Branch(op, wanted) PROVE IInv'
<1>1. calls # <<>> /\ Instr.arg \in Nat
  BY NextInstruction DEF Branch
<1>2. stack' \in Seq(Value) /\ status' \in Status
  BY ConsumeType DEF Branch
<1>3. frames' \in Seq(FrameType) /\ Len(frames') = Len(frames)
  BY <1>1, StepType, JumpToType DEF Branch
<1> QED BY <1>2, <1>3, Local DEF Branch

\* Every built-in takes a number of operands.
LEMMA ArityType == \A name : Arity(name) \in Nat
BY DEF Arity

\* CallBuiltin preserves the invariant.
LEMMA CallBuiltinPreserves == ASSUME IInv, CallBuiltin PROVE IInv'
<1> DEFINE n == Arity(Name)
           r == Builtin(Name, Operands(n))
<1>1. calls # <<>>
  BY NextInstruction DEF CallBuiltin, ExecutingCall, ExecutingNamed
<1>2. n \in Nat
  BY ArityType
<1>3. Compute(n, r)
  BY DEF CallBuiltin
<1> HIDE DEF n
<1>4. Enough(n) => r \in Outcome
  BY <1>2, OperandTypes, BuiltinType
<1> HIDE DEF r
<1>5. stack' \in Seq(Value) /\ status' \in Status
  BY <1>2, <1>3, <1>4, ComputeType
<1> QED BY <1>1, <1>5, StepType, Local DEF CallBuiltin

\* A table that exists has rows.
LEMMA RowCount ==
    ASSUME IInv, NEW name, Exists(tables, name)
    PROVE  name \in TableNames /\ tables[name] \in Table
           /\ tables[name].rows \in Seq(Row)
BY Types DEF Exists, Store, Table

\* CallCount preserves the invariant.
LEMMA CallCountPreserves == ASSUME IInv, CallCount PROVE IInv'
<1> DEFINE name == AsText(Operand(1))
           r == IF Exists(tables, name)
                THEN Ok(Int64(Wrap(Len(tables[name].rows)))) ELSE Err
<1>1. calls # <<>>
  BY NextInstruction DEF CallCount, ExecutingCall, ExecutingNamed
<1>2. Compute(1, r)
  BY DEF CallCount
<1> HIDE DEF name
<1>3. r \in Outcome
  <2>1. ASSUME Exists(tables, name) PROVE Len(tables[name].rows) \in Int
    BY <2>1, RowCount
  <2> QED BY <2>1, WrappedValue, MakeOutcome
<1> HIDE DEF r
<1>4. stack' \in Seq(Value) /\ status' \in Status
  BY <1>2, <1>3, ComputeType
<1> QED BY <1>1, <1>4, StepType, Local DEF CallCount

\* The rows filter keeps can be counted.
LEMMA CardinalityOfRows ==
    ASSUME IInv, NEW name, Exists(tables, name), NEW field, NEW needle
    PROVE  Cardinality(Matching(tables, name, field, needle)) \in Int
<1> DEFINE kept == Matching(tables, name, field, needle)
           rows == tables[name].rows
<1>1. kept \subseteq DOMAIN rows
  BY DEF Matching
<1>2. rows \in Seq(Row)
  BY RowCount
<1> HIDE DEF kept, rows
<1>3. DOMAIN rows = 1..Len(rows) /\ Len(rows) \in Nat
  BY <1>2
<1>4. IsFiniteSet(DOMAIN rows)
  BY <1>3, FS_Interval
<1>5. Cardinality(kept) \in Nat
  BY <1>1, <1>4, FS_Subset, FS_CardinalityType
<1> QED BY <1>5 DEF kept

\* CallFilter preserves the invariant.
LEMMA CallFilterPreserves == ASSUME IInv, CallFilter PROVE IInv'
<1> DEFINE name == AsText(Operand(3))
           field == AsText(Operand(2))
           needle == AsText(Operand(1))
           kept == Matching(tables, name, field, needle)
           ok == Enough(3) /\ Sortable(tables, name, field)
           r == IF ok THEN Ok(Int64(Wrap(Cardinality(kept)))) ELSE Err
<1>1. calls # <<>>
  BY NextInstruction DEF CallFilter, ExecutingCall, ExecutingNamed
<1>2. /\ Compute(3, r)
      /\ IF ok THEN \E order \in Increasing(kept) :
                       tables' = Reorder(tables, name, order)
         ELSE UNCHANGED tables
  BY Zenon DEF CallFilter
<1> HIDE DEF name, field, needle
<1>3. ok => Exists(tables, name)
  BY DEF Sortable
<1>4. r \in Outcome
  <2>1. ok => Cardinality(kept) \in Int
    BY <1>3, CardinalityOfRows
  <2> HIDE DEF ok, kept
  <2> QED BY <2>1, WrappedValue, MakeOutcome
<1>5. tables' \in Store
  <2>1. CASE ok
    <3>1. PICK order \in Increasing(kept) : tables' = Reorder(tables, name, order)
      BY <1>2, <2>1
    <3>2. name \in TableNames /\ tables \in Store
      BY <1>3, <2>1, RowCount, Types
    <3> HIDE DEF ok
    <3> QED BY <3>1, <3>2, FilterType DEF Store
  <2>2. CASE ~ok
    BY <1>2, <2>2, Types
  <2> QED BY <2>1, <2>2
<1> HIDE DEF r, ok, kept
<1>6. stack' \in Seq(Value) /\ status' \in Status
  BY <1>2, <1>4, ComputeType
<1>7. alerts' \in Seq(Row) /\ out' \in Seq(Output)
  BY Types DEF CallFilter
<1> QED BY <1>1, <1>5, <1>6, <1>7, StepType, Effect DEF CallFilter

\* CallSort preserves the invariant.
LEMMA CallSortPreserves == ASSUME IInv, CallSort PROVE IInv'
<1> DEFINE name == AsText(Operand(2))
           field == AsText(Operand(1))
           ok == Enough(2) /\ Sortable(tables, name, field)
           r == IF ok THEN Ok(Unit) ELSE Err
<1>1. calls # <<>>
  BY NextInstruction DEF CallSort, ExecutingCall, ExecutingNamed
<1>2. /\ Compute(2, r)
      /\ IF ok THEN \E order \in StableOrders(tables, name, field) :
                       tables' = Reorder(tables, name, order)
         ELSE UNCHANGED tables
  BY Zenon DEF CallSort
<1> HIDE DEF name, field
<1>3. ok => Exists(tables, name)
  BY DEF Sortable
<1>4. r \in Outcome
  BY MakeValue, MakeOutcome
<1>5. tables' \in Store
  <2>1. CASE ok
    <3>1. PICK order \in StableOrders(tables, name, field) :
             tables' = Reorder(tables, name, order)
      BY <1>2, <2>1
    <3>2. name \in TableNames /\ tables \in Store
      BY <1>3, <2>1, RowCount, Types
    <3> HIDE DEF ok
    <3> QED BY <3>1, <3>2, SortType DEF Store
  <2>2. CASE ~ok
    BY <1>2, <2>2, Types
  <2> QED BY <2>1, <2>2
<1> HIDE DEF r, ok
<1>6. stack' \in Seq(Value) /\ status' \in Status
  BY <1>2, <1>4, ComputeType
<1>7. alerts' \in Seq(Row) /\ out' \in Seq(Output)
  BY Types DEF CallSort
<1> QED BY <1>1, <1>5, <1>6, <1>7, StepType, Effect DEF CallSort

\* Entering a unit pushes one frame and one activation.
LEMMA EnterType ==
    ASSUME IInv, NEW unit \in Units, NEW locals \in Seq(Value),
           NEW below \in Seq(FrameType), NEW base \in Nat,
           Len(calls) <= Len(below), Enter(unit, locals, below, base)
    PROVE  /\ frames' \in Seq(FrameType) /\ calls' \in Seq(CallType)
           /\ Len(calls') <= Len(frames')
<1> DEFINE f == [unit |-> unit, locals |-> locals, ip |-> 0]
           c == [unit |-> unit, base |-> base]
<1>1. f \in FrameType /\ c \in CallType
  BY DEF FrameType, CallType
<1>2. frames' = Append(below, f) /\ calls' = Append(calls, c)
  BY DEF Enter
<1>3. calls \in Seq(CallType)
  BY Types
<1> HIDE DEF f, c
<1> QED BY <1>1, <1>2, <1>3

\* CallFunction preserves the invariant.
LEMMA CallFunctionPreserves == ASSUME IInv, CallFunction PROVE IInv'
<1>1. calls # <<>>
  BY NextInstruction DEF CallFunction, ExecutingNamed
<1> DEFINE below == [frames EXCEPT ![Len(frames)].ip = @ + 1]
<1>2. PICK i \in Named(module.functions, Name) :
         LET arity == module.functions[i].arity
         IN  IF Enough(arity)
             THEN /\ Enter([kind |-> "function", n |-> i], Operands(arity),
                           below, Len(stack) - arity)
                  /\ stack' = Beneath(arity)
                  /\ UNCHANGED status
             ELSE Underflow /\ Step /\ UNCHANGED calls
  BY Zenon DEF CallFunction
<1> DEFINE arity == module.functions[i].arity
           unit == [kind |-> "function", n |-> i]
<1>3. i \in DOMAIN module.functions
  BY DEF Named
<1>4. arity \in Nat
  <2> DEFINE F == [name : Text, arity : Nat, code : Seq(Instruction)]
  <2>1. module.functions \in Seq(F)
    BY Types, ModuleType DEF Module
  <2> HIDE DEF F
  <2>2. module.functions[i] \in F
    BY <1>3, <2>1
  <2> QED BY <2>2 DEF F
<1>5. UNCHANGED <<module, finishing, events, tables, alerts, out, iterators>>
  BY DEF CallFunction, host, data
<1>6. CASE Enough(arity)
  <2>1. unit \in Units
    BY <1>3 DEF Units
  <2>2. below \in Seq(FrameType) /\ Len(below) = Len(frames)
    <3>1. Frame.ip + 1 \in Nat
      BY <1>1, TopFrame DEF FrameType
    <3>2. below = [frames EXCEPT ![Len(frames)].ip = Frame.ip + 1]
      BY DEF Frame
    <3> HIDE DEF below
    <3> QED BY <1>1, <3>1, <3>2, JumpType
  <2>3. Operands(arity) \in Seq(Value) /\ Beneath(arity) \in Seq(Value)
    BY <1>4, <1>6, OperandTypes
  <2>4. Len(stack) - arity \in Nat
    BY <1>4, <1>6, Types DEF Enough
  <2>5. /\ Enter(unit, Operands(arity), below, Len(stack) - arity)
        /\ stack' = Beneath(arity) /\ UNCHANGED status
    BY <1>2, <1>6
  <2> HIDE DEF below, unit, arity
  <2>6. /\ frames' \in Seq(FrameType) /\ calls' \in Seq(CallType)
        /\ Len(calls') <= Len(frames')
    BY <2>1, <2>2, <2>3, <2>4, <2>5, Types, EnterType
  <2> QED BY <1>5, <2>3, <2>5, <2>6, Types, Preserved
<1>7. CASE ~Enough(arity)
  <2>1. Underflow /\ Step /\ UNCHANGED calls
    BY <1>2, <1>7
  <2> QED BY <1>1, <2>1, UnderflowType, StepType, Local DEF CallFunction
<1> QED BY <1>6, <1>7

\* CallUndefined preserves the invariant.
LEMMA CallUndefinedPreserves == ASSUME IInv, CallUndefined PROVE IInv'
<1>1. calls # <<>>
  BY NextInstruction DEF CallUndefined, ExecutingNamed
<1>2. stack' \in Seq(Value) /\ status' \in Status
  BY Types DEF CallUndefined, Status
<1> QED BY <1>1, <1>2, StepType, Local DEF CallUndefined

\* Leaving a unit pops one frame and one activation.
LEMMA Leaves ==
    ASSUME IInv, calls # <<>>, frames' = Front(frames), calls' = Front(calls)
    PROVE  /\ frames' \in Seq(FrameType) /\ calls' \in Seq(CallType)
           /\ Len(calls') <= Len(frames')
<1>1. frames # <<>> /\ Len(frames) \in Nat /\ Len(calls) \in Nat
  BY TopFrame
<1> QED BY <1>1, Types, FrontType

\* Return preserves the invariant.
LEMMA ReturnPreserves == ASSUME IInv, Return PROVE IInv'
<1>1. calls # <<>>
  BY NextInstruction DEF Return
<1>2. UNCHANGED <<module, finishing, events, tables, alerts, out, iterators, status>>
  BY DEF Return, host, data
<1>3. stack' \in Seq(Value)
  <2>1. <<Unit>> \in Seq(Value)
    BY MakeValue
  <2>2. stack # <<>> => Front(stack) \in Seq(Value)
    BY Types, FrontType
  <2>3. \/ stack' = <<Unit>>
        \/ stack # <<>> /\ stack' = Front(stack)
        \/ stack' = stack
    BY DEF Return
  <2> QED BY <2>1, <2>2, <2>3, Types
<1> QED BY <1>1, <1>2, <1>3, Types, Leaves, Preserved DEF Return

\* FallOffEnd preserves the invariant.
LEMMA FallOffEndPreserves == ASSUME IInv, FallOffEnd PROVE IInv'
<1>1. UNCHANGED <<module, finishing, events, tables, alerts, out, iterators, stack, status>>
  BY DEF FallOffEnd, host, data
<1> QED BY <1>1, Types, Leaves, Preserved DEF FallOffEnd

\* Halt preserves the invariant.
LEMMA HaltPreserves == ASSUME IInv, Halt PROVE IInv'
<1>1. calls # <<>>
  BY NextInstruction DEF Halt
<1>2. frames' \in Seq(FrameType) /\ Len(frames') = Len(frames)
  BY <1>1, StepType DEF Halt
<1>3. calls' \in Seq(CallType) /\ Len(calls') = Len(calls) - 1
  BY <1>1, Types, FrontType DEF Halt
<1>4. Len(calls') <= Len(frames')
  BY <1>1, <1>2, <1>3, Types, TopFrame
<1>5. UNCHANGED <<module, finishing, events, tables, alerts, out, iterators, stack, status>>
  BY DEF Halt, host, data
<1> QED BY <1>2, <1>3, <1>4, <1>5, Types, Preserved
-----------------------------------------------------------------------------
(* Statements with an effect outside the frames.                           *)

\* InsertTable preserves the invariant.
LEMMA InsertTablePreserves == ASSUME IInv, InsertTable PROVE IInv'
<1>1. calls # <<>>
  BY NextInstruction DEF InsertTable, ExecutingNamed
<1>2. alerts' \in Seq(Row) /\ out' \in Seq(Output)
  BY Types DEF InsertTable
<1>3. CASE Exists(tables, Name)
  <2> DEFINE n == Len(tables[Name].fields)
             ok == Enough(n) /\ CanInsert(tables, Name, Operands(n))
  <2>1. Consume(n, ok)
        /\ tables' = IF ok THEN Insert(tables, Name, Operands(n)) ELSE tables
    BY <1>3, Zenon DEF InsertTable
  <2>2. Name \in TableNames /\ tables[Name] \in Table /\ tables \in Store
    BY <1>3, RowCount, Types
  <2>3. n \in Nat
    BY <2>2 DEF Table
  <2> HIDE DEF n
  <2>4. stack' \in Seq(Value) /\ status' \in Status
    BY <2>1, <2>3, ConsumeType
  <2>5. ok => Operands(n) \in Row
    BY <2>3, OperandTypes DEF Row
  <2> HIDE DEF ok
  <2>6. tables' \in Store
    BY <2>1, <2>2, <2>5, InsertType DEF Store
  <2> QED BY <1>1, <1>2, <2>4, <2>6, StepType, Effect DEF InsertTable
<1>4. CASE ~Exists(tables, Name)
  <2>1. stack' = stack /\ tables' = tables /\ status' = "failed"
    BY <1>4 DEF InsertTable
  <2> QED BY <1>1, <1>2, <2>1, StepType, Types, Effect DEF InsertTable, Status
<1> QED BY <1>3, <1>4

\* An index in range selects a row.
LEMMA RowAtType ==
    ASSUME IInv, NEW name, Exists(tables, name), NEW index \in Value,
           InRange(tables, name, index)
    PROVE  RowAt(tables, name, index) \in Seq(Value)
<1>1. tables[name].rows \in Seq(Row)
  BY RowCount
<1>2. index[2] \in Int
  BY Payload, IntegerPayload DEF InRange
<1>3. index[2] + 1 \in DOMAIN tables[name].rows
  BY <1>1, <1>2 DEF InRange
<1>4. RowAt(tables, name, index) \in Row
  BY <1>1, <1>3 DEF RowAt
<1> QED BY <1>4 DEF Row

\* IndexGet preserves the invariant.
LEMMA IndexGetPreserves == ASSUME IInv, IndexGet PROVE IInv'
<1> DEFINE r == IF Exists(tables, Name) /\ InRange(tables, Name, Operand(1))
                THEN Ok(Str(RowText(RowAt(tables, Name, Operand(1))))) ELSE Err
<1>1. calls # <<>>
  BY NextInstruction DEF IndexGet, ExecutingNamed
<1>2. Compute(1, r)
  BY DEF IndexGet
<1>3. Enough(1) => r \in Outcome
  <2> SUFFICES ASSUME Enough(1) PROVE r \in Outcome
    OBVIOUS
  <2>1. Operand(1) \in Value
    BY OperandTypes
  <2>2. CASE Exists(tables, Name) /\ InRange(tables, Name, Operand(1))
    <3>1. RowText(RowAt(tables, Name, Operand(1))) \in Text
      BY <2>1, <2>2, RowAtType, RowTextType
    <3> QED BY <2>2, <3>1, MakeValue, MakeOutcome
  <2>3. CASE ~(Exists(tables, Name) /\ InRange(tables, Name, Operand(1)))
    BY <2>3, MakeOutcome
  <2> QED BY <2>2, <2>3
<1> HIDE DEF r
<1>4. stack' \in Seq(Value) /\ status' \in Status
  BY <1>2, <1>3, ComputeType
<1> QED BY <1>1, <1>4, StepType, Local DEF IndexGet

\* IndexAssign preserves the invariant.
LEMMA IndexAssignPreserves == ASSUME IInv, IndexAssign PROVE IInv'
<1> DEFINE next == Frame.ip + 2
           code == Code(Running)
           hasField == /\ next <= Len(code)
                       /\ code[next].op = "Pop"
                       /\ IsName(code[next].arg)
           field == Constant(code[next].arg)[2]
           ok == /\ Enough(2) /\ hasField
                 /\ CanAssign(tables, Name, Operand(1), field)
<1>1. calls # <<>>
  BY NextInstruction DEF IndexAssign, ExecutingNamed
<1>2. /\ Consume(2, ok)
      /\ tables' = IF ok THEN AssignCell(tables, Name, Operand(1), field, Operand(2))
                         ELSE tables
      /\ JumpTo(Frame.ip + (IF ok THEN 2 ELSE 1))
  BY Zenon DEF IndexAssign
<1>3. ok => Enough(2) /\ Exists(tables, Name)
  BY DEF CanAssign
<1> HIDE DEF ok, field
<1>4. stack' \in Seq(Value) /\ status' \in Status
  BY <1>2, ConsumeType
<1>5. Frame.ip + (IF ok THEN 2 ELSE 1) \in Nat
  BY <1>1, TopFrame DEF FrameType
<1>6. frames' \in Seq(FrameType) /\ Len(frames') = Len(frames)
  BY <1>1, <1>2, <1>5, JumpToType
<1>7. tables' \in Store
  <2>1. CASE ok
    <3>1. Name \in TableNames /\ tables \in Store /\ Operand(2) \in Value
      BY <1>3, <2>1, RowCount, Types, OperandTypes
    <3> QED BY <1>2, <2>1, <3>1, AssignCellType DEF Store
  <2>2. CASE ~ok
    BY <1>2, <2>2, Types
  <2> QED BY <2>1, <2>2
<1>8. alerts' \in Seq(Row) /\ out' \in Seq(Output)
  BY Types DEF IndexAssign
<1> QED BY <1>4, <1>6, <1>7, <1>8, Effect DEF IndexAssign

\* Alert preserves the invariant.
LEMMA AlertPreserves == ASSUME IInv, Alert PROVE IInv'
<1>1. calls # <<>> /\ Instr.arg \in Nat
  BY NextInstruction DEF Alert
<1>2. stack' \in Seq(Value) /\ status' \in Status
  BY <1>1, ConsumeType DEF Alert
<1>3. alerts' \in Seq(Row)
  <2>1. Enough(Instr.arg) => Operands(Instr.arg) \in Row
    BY <1>1, OperandTypes DEF Row
  <2> QED BY <2>1, Types DEF Alert
<1>4. tables' \in Store /\ out' \in Seq(Output)
  BY Types DEF Alert
<1> QED BY <1>1, <1>2, <1>3, <1>4, StepType, Effect DEF Alert

\* A printed value is output.
LEMMA PrintedType == ASSUME NEW v \in Value PROVE Printed(v) \in Output
<1>1. <<<<v>>>> \in Seq(Row)
  <2>1. <<v>> \in Row
    BY DEF Row
  <2> QED BY <2>1
<1>2. <<>> \in Text
  BY DEF Text
<1> QED BY <1>1, <1>2 DEF Printed, Output

\* PrintValue preserves the invariant.
LEMMA PrintValuePreserves == ASSUME IInv, PrintValue PROVE IInv'
<1>1. calls # <<>>
  BY NextInstruction DEF PrintValue
<1>2. stack' \in Seq(Value) /\ status' \in Status
  BY ConsumeType DEF PrintValue
<1>3. out' \in Seq(Output)
  <2>1. Enough(1) => Printed(Operand(1)) \in Output
    BY OperandTypes, PrintedType
  <2> QED BY <2>1, Types DEF PrintValue
<1>4. tables' \in Store /\ alerts' \in Seq(Row)
  BY Types DEF PrintValue
<1> QED BY <1>1, <1>2, <1>3, <1>4, StepType, Effect DEF PrintValue

\* ShowTable preserves the invariant.
LEMMA ShowTablePreserves == ASSUME IInv, ShowTable PROVE IInv'
<1>1. calls # <<>> /\ Name \in Text
  BY NextInstruction, NameType DEF ShowTable, ExecutingNamed
<1>2. stack' \in Seq(Value) /\ status' \in Status
  BY ConsumeType DEF ShowTable
<1>3. out' \in Seq(Output)
  <2>1. ASSUME Exists(tables, Name) PROVE Shown(Name) \in Output
    <3>1. tables[Name].rows \in Seq(Row) /\ <<>> \in Text
      BY <2>1, RowCount DEF Text
    <3> QED BY <1>1, <3>1 DEF Shown, Output
  <2> QED BY <2>1, Types DEF ShowTable
<1>4. tables' \in Store /\ alerts' \in Seq(Row)
  BY Types DEF ShowTable
<1> QED BY <1>1, <1>2, <1>3, <1>4, StepType, Effect DEF ShowTable

\* A host-function argument reads as a text.
LEMMA AsTextType == ASSUME NEW v \in Value PROVE AsText(v) \in Text
<1>1. <<>> \in Text
  BY DEF Text
<1> QED BY <1>1, Payload DEF AsText

\* The first items of a sequence are a prefix of it.
LEMMA FirstItems ==
    ASSUME NEW S, NEW s \in Seq(S), NEW n \in Int, n <= Len(s)
    PROVE  SubSeq(s, 1, n) \in Seq(S) /\ IsPrefix(SubSeq(s, 1, n), s)
<1> DEFINE t == SubSeq(s, 1, n)
<1>1. /\ t \in Seq(S) /\ Len(t) <= Len(s)
      /\ \A i \in 1..Len(t) : t[i] = s[i]
  BY SubSeqProperties
<1> HIDE DEF t
<1>2. Len(t) \in Nat /\ Len(s) \in Nat
  BY <1>1
<1>3. /\ SubSeq(t, 1, Len(t)) \in Seq(S) /\ Len(SubSeq(t, 1, Len(t))) = Len(t)
      /\ \A i \in 1..Len(t) : SubSeq(t, 1, Len(t))[i] = t[i]
  BY <1>1, <1>2, SubSeqProperties
<1>4. /\ SubSeq(s, 1, Len(t)) \in Seq(S) /\ Len(SubSeq(s, 1, Len(t))) = Len(t)
      /\ \A i \in 1..Len(t) : SubSeq(s, 1, Len(t))[i] = s[i]
  BY <1>1, <1>2, SubSeqProperties
<1>5. SubSeq(t, 1, Len(t)) = SubSeq(s, 1, Len(t))
  BY <1>1, <1>2, <1>3, <1>4, SeqEqual
<1>6. IsPrefix(t, s)
  BY <1>1, <1>5 DEF IsPrefix
<1> QED BY <1>1, <1>6 DEF t

\* What an export leaves at a path that could be opened: the table, or the first of its
\* rows where writing fails.
LEMMA ExportedFile ==
    ASSUME IInv, NEW name \in Text, NEW path \in Text, CanOpen(tables, name, path)
    PROVE  LET f == ExportFile(tables, name, path)
           IN  /\ f \in Output /\ f.name = name /\ name \in DOMAIN tables
               /\ IsPrefix(f.rows, tables[name].rows)
               /\ Fits(tables, name, path) => f.kind # "cut"
<1>1. tables[name].rows \in Seq(Row) /\ name \in DOMAIN tables
  BY RowCount DEF CanOpen, Exists
<1> DEFINE rows == tables[name].rows
           written == RowsWritten(tables, name, path)
<1>2. Len(rows) \in Nat
  BY <1>1
<1>3. written \in Seq(Row) /\ IsPrefix(written, rows)
  <2>1. CASE Fits(tables, name, path)
    <3>1. written = SubSeq(rows, 1, Len(rows))
      BY <1>1, <2>1 DEF RowsWritten
    <3> HIDE DEF written, rows
    <3> QED BY <1>1, <1>2, <3>1, FirstItems DEF rows
  <2>2. CASE ~Fits(tables, name, path)
    <3>1. path \in DOMAIN Room /\ ~(Len(rows) < Room[path])
      BY <2>2 DEF Fits
    <3>2. Room[path] - 1 \in Int /\ Room[path] - 1 <= Len(rows)
      BY <1>2, <3>1, RoomAssumption
    <3>3. written = SubSeq(rows, 1, Room[path] - 1)
      BY <2>2 DEF RowsWritten
    <3> HIDE DEF written, rows
    <3> QED BY <1>1, <3>2, <3>3, FirstItems DEF rows
  <2> QED BY <2>1, <2>2
<1> HIDE DEF rows, written
<1>4. ExportFile(tables, name, path) =
         [kind |-> IF Fits(tables, name, path) THEN "export" ELSE "cut",
          name |-> name, path |-> path, rows |-> written]
  BY DEF ExportFile, written
<1> QED BY <1>1, <1>3, <1>4 DEF Output, rows

\* ExportTable preserves the invariant.
LEMMA ExportTablePreserves == ASSUME IInv, ExportTable PROVE IInv'
<1> DEFINE path == AsText(Operand(1))
           opened == Enough(1) /\ CanOpen(tables, Name, path)
           fits == Fits(tables, Name, path)
           file == ExportFile(tables, Name, path)
<1>1. calls # <<>> /\ Name \in Text
  BY NextInstruction, NameType DEF ExportTable, ExecutingNamed
<1>2. /\ Consume(1, opened /\ fits)
      /\ out' = IF opened THEN Append(out, file) ELSE out
  BY Zenon DEF ExportTable
<1>3. opened => path \in Text /\ CanOpen(tables, Name, path)
  BY OperandTypes, AsTextType
<1> HIDE DEF opened, path, fits
<1>4. opened => file \in Output
  BY <1>1, <1>3, ExportedFile
<1> HIDE DEF file
<1>5. stack' \in Seq(Value) /\ status' \in Status
  BY <1>2, ConsumeType
<1>6. out' \in Seq(Output)
  BY <1>2, <1>4, Types
<1>7. tables' \in Store /\ alerts' \in Seq(Row)
  BY Types DEF ExportTable
<1> QED BY <1>1, <1>5, <1>6, <1>7, StepType, Effect DEF ExportTable
-----------------------------------------------------------------------------
(* Loops.                                                                  *)

\* An instruction of a loop preserves the invariant.
LEMMA Looping ==
    ASSUME IInv, UNCHANGED <<host, data, calls>>, iterators' \in Seq(IteratorType),
           stack' \in Seq(Value), status' \in Status,
           frames' \in Seq(FrameType), Len(frames') = Len(frames)
    PROVE  IInv'
<1>1. UNCHANGED <<module, finishing, events, tables, alerts, out, calls>>
  BY DEF host, data
<1> QED BY <1>1, Types, Preserved

\* The loop that makes an iterator is known.
LEMMA OwnerType ==
    ASSUME IInv, calls # <<>>
    PROVE  Owner(Frame.ip) \in [depth : Nat, unit : Units, at : Nat]
BY TopFrame DEF Owner, FrameType

\* The elements at an increasing sequence of places are a sequence, each place
\* occurring once.
LEMMA SelectionType ==
    ASSUME NEW S, NEW s \in Seq(S), NEW places \in SUBSET DOMAIN s,
           NEW kept \in Increasing(places)
    PROVE  /\ [i \in DOMAIN kept |-> s[kept[i]]] \in Seq(S)
           /\ \A i, j \in DOMAIN kept : kept[i] = kept[j] => i = j
           /\ \A i \in DOMAIN kept : kept[i] \in places
           /\ DOMAIN kept = 1..Len([i \in DOMAIN kept |-> s[kept[i]]])
<1> DEFINE n == Cardinality(places)
           t == [i \in DOMAIN kept |-> s[kept[i]]]
<1>1. DOMAIN s = 1..Len(s) /\ Len(s) \in Nat /\ \A i \in DOMAIN s : s[i] \in S
  OBVIOUS
<1>2. n \in Nat
  <2>1. IsFiniteSet(DOMAIN s)
    BY <1>1, FS_Interval
  <2> QED BY <2>1, FS_Subset, FS_CardinalityType
<1>3. kept \in [1..n -> places] /\ \A i, j \in DOMAIN kept : i < j => kept[i] < kept[j]
  BY DEF Increasing
<1> HIDE DEF n
<1>4. DOMAIN kept = 1..n /\ \A i \in DOMAIN kept : kept[i] \in places
  BY <1>3
<1>5. t \in [1..n -> S]
  BY <1>1, <1>4
<1> HIDE DEF t
<1>6. t \in Seq(S) /\ Len(t) = n
  <2>1. t \in Seq(S)
    BY <1>2, <1>5, SeqDef
  <2>2. DOMAIN t = 1..n
    BY <1>5
  <2> QED BY <1>2, <2>1, <2>2
<1>7. \A i, j \in DOMAIN kept : kept[i] = kept[j] => i = j
  <2> TAKE i, j \in DOMAIN kept
  <2>1. i \in Int /\ j \in Int /\ kept[i] \in Int /\ kept[j] \in Int
    BY <1>1, <1>4
  <2> QED BY <1>3, <2>1
<1> QED BY <1>4, <1>6, <1>7 DEF t

\* ForInit preserves the invariant.
LEMMA ForInitPreserves == ASSUME IInv, ForInit PROVE IInv'
<1>1. calls # <<>> /\ Instr.arg \in Nat
  BY NextInstruction DEF ForInit, ExecutingNamed
<1>2. iterators' \in Seq(IteratorType) /\ stack' \in Seq(Value) /\ status' \in Status
  <2>1. CASE Exists(tables, Name)
    <3> DEFINE places == {i \in DOMAIN iterators : iterators[i].key # Instr.arg}
               fresh == [key |-> Instr.arg, rows |-> tables[Name].rows,
                         owner |-> Owner(Frame.ip)]
    <3>1. PICK kept \in Increasing(places) :
             iterators' = Append([i \in DOMAIN kept |-> iterators[kept[i]]], fresh)
      BY <2>1 DEF ForInit
    <3>2. fresh \in IteratorType
      BY <1>1, <2>1, OwnerType, RowCount DEF IteratorType
    <3>3. places \in SUBSET DOMAIN iterators
      OBVIOUS
    <3> HIDE DEF places, fresh
    <3>4. [i \in DOMAIN kept |-> iterators[kept[i]]] \in Seq(IteratorType)
      BY <3>3, Types, SelectionType
    <3>5. iterators' \in Seq(IteratorType)
      BY <3>1, <3>2, <3>4
    <3>6. UNCHANGED <<stack, status>>
      BY <2>1 DEF ForInit
    <3> QED BY <3>5, <3>6, Types
  <2>2. CASE ~Exists(tables, Name)
    BY <2>2, Types DEF ForInit, Status
  <2> QED BY <2>1, <2>2
<1> QED BY <1>1, <1>2, StepType, Looping DEF ForInit

\* ForNextRow preserves the invariant.
LEMMA ForNextRowPreserves == ASSUME IInv, ForNextRow PROVE IInv'
<1>1. calls # <<>>
  BY NextInstruction DEF ForNextRow
<1> DEFINE L == Len(iterators)
           it == iterators[L]
<1>2. iterators # <<>> /\ it.rows # <<>> /\ iterators \in Seq(IteratorType)
  BY Types DEF ForNextRow, HasRow, Last
<1>3. L \in DOMAIN iterators /\ it \in IteratorType
  BY <1>2
<1>4. it.rows \in Seq(Row) /\ Head(it.rows) \in Row /\ Tail(it.rows) \in Seq(Row)
  BY <1>2, <1>3 DEF IteratorType
<1> DEFINE after == [it EXCEPT !.rows = Tail(@)]
<1>5. after \in IteratorType
  BY <1>3, <1>4 DEF IteratorType
<1>6. iterators' = [iterators EXCEPT ![L] = after]
  BY DEF ForNextRow
<1>7. stack' = Append(stack, Str(RowText(Head(it.rows))))
  BY DEF ForNextRow, Last
<1> HIDE DEF L, it, after
<1>8. iterators' \in Seq(IteratorType)
  BY <1>2, <1>5, <1>6, Replaced
<1>9. Str(RowText(Head(it.rows))) \in Value
  BY <1>4, RowTextType, MakeValue DEF Row
<1>10. stack' \in Seq(Value) /\ status' \in Status
  BY <1>7, <1>9, Types DEF ForNextRow
<1> QED BY <1>1, <1>8, <1>10, StepType, Looping DEF ForNextRow

\* ForNextDone preserves the invariant.
LEMMA ForNextDonePreserves == ASSUME IInv, ForNextDone PROVE IInv'
<1>1. calls # <<>> /\ Instr.arg \in Nat
  BY NextInstruction DEF ForNextDone
<1>2. iterators' \in Seq(IteratorType)
  BY Types, FrontType DEF ForNextDone
<1>3. stack' \in Seq(Value) /\ status' \in Status
  BY Types DEF ForNextDone
<1> QED BY <1>1, <1>2, <1>3, JumpToType, Looping DEF ForNextDone

\* Every instruction preserves the invariant.
LEMMA ExecutePreserves == ASSUME IInv, Execute PROVE IInv'
BY LoadConstPreserves, BadConstantPreserves, PopOperandPreserves, LoadVarPreserves,
   StoreVarPreserves, BinaryPreserves, UnaryPreserves, GetEventFieldPreserves,
   NoOperationPreserves, JumpPreserves, BranchPreserves, CallBuiltinPreserves,
   CallCountPreserves, CallFilterPreserves, CallSortPreserves,
   CallFunctionPreserves, CallUndefinedPreserves, ReturnPreserves,
   FallOffEndPreserves, HaltPreserves, InsertTablePreserves, IndexGetPreserves,
   IndexAssignPreserves, AlertPreserves, PrintValuePreserves,
   ShowTablePreserves, ExportTablePreserves, ForInitPreserves,
   ForNextRowPreserves, ForNextDonePreserves
   DEF Execute
-----------------------------------------------------------------------------
(* The host.                                                               *)

\* DispatchEvent preserves the invariant.
LEMMA DispatchEventPreserves ==
    ASSUME IInv, NEW e \in Events, DispatchEvent(e) PROVE IInv'
<1>1. UNCHANGED <<module, finishing, tables, alerts, out, stack, iterators>>
  BY DEF DispatchEvent, data
<1>2. events' \in Seq(Events)
  BY Types DEF DispatchEvent
<1>3. CASE UNCHANGED <<frames, calls, status>>
  BY <1>1, <1>2, <1>3, Types, Preserved
<1>4. ASSUME NEW i \in Named(module.event_handlers, e.name),
             Enter([kind |-> "on", n |-> i], <<Event(e.fields)>>, frames, Len(stack)),
             status' = "running"
      PROVE  IInv'
  <2>1. [kind |-> "on", n |-> i] \in Units
    BY <1>4 DEF Named, Units
  <2>2. <<Event(e.fields)>> \in Seq(Value)
    BY EventsAssumption, MakeValue
  <2>3. Len(stack) \in Nat
    BY Types
  <2>4. /\ frames' \in Seq(FrameType) /\ calls' \in Seq(CallType)
        /\ Len(calls') <= Len(frames')
    BY <1>4, <2>1, <2>2, <2>3, Types, EnterType
  <2>5. status' \in Status
    BY <1>4 DEF Status
  <2> QED BY <1>1, <1>2, <2>4, <2>5, Types, Preserved
<1> QED BY <1>3, <1>4 DEF DispatchEvent

\* Starting a finish handler, or ending the run, preserves the invariant.
LEMMA FinishPreserves ==
    ASSUME IInv, NEW n \in Nat \ {0}, NEW below \in Seq(FrameType),
           Len(calls) <= Len(below), Finish(n, below),
           UNCHANGED <<module, events, data, stack, iterators>>
    PROVE  IInv'
<1>1. UNCHANGED <<module, events, tables, alerts, out, stack, iterators>>
  BY DEF data
<1>2. CASE n <= Len(module.finish_handlers)
  <2>1. [kind |-> "finish", n |-> n] \in Units
    <3>1. module.finish_handlers \in Seq([code : Seq(Instruction)])
      BY Types, ModuleType DEF Module
    <3>2. n \in DOMAIN module.finish_handlers
      BY <1>2, <3>1
    <3> QED BY <3>2 DEF Units
  <2>2. /\ Enter([kind |-> "finish", n |-> n], <<>>, below, Len(stack))
        /\ finishing' = n /\ status' = "running"
    BY <1>2 DEF Finish
  <2>3. Len(stack) \in Nat /\ <<>> \in Seq(Value)
    BY Types
  <2>4. /\ frames' \in Seq(FrameType) /\ calls' \in Seq(CallType)
        /\ Len(calls') <= Len(frames')
    BY <2>1, <2>2, <2>3, EnterType
  <2>5. status' \in Status /\ finishing' \in Nat
    BY <2>2 DEF Status
  <2> QED BY <1>1, <2>4, <2>5, Types, Preserved
<1>3. CASE ~(n <= Len(module.finish_handlers))
  <2>1. frames' = below /\ status' = "done" /\ UNCHANGED <<calls, finishing>>
    BY <1>3 DEF Finish
  <2>2. status' \in Status
    BY <2>1 DEF Status
  <2> QED BY <1>1, <2>1, <2>2, Types, Preserved
<1> QED BY <1>2, <1>3

\* RunFinish preserves the invariant.
LEMMA RunFinishPreserves == ASSUME IInv, RunFinish PROVE IInv'
BY Types, FinishPreserves DEF RunFinish

\* HostResumes preserves the invariant.
LEMMA HostResumesPreserves == ASSUME IInv, HostResumes PROVE IInv'
<1> DEFINE below == IF frames = <<>> THEN <<>> ELSE Front(frames)
<1>1. below \in Seq(FrameType) /\ Len(below) \in Nat
  BY Types, FrontType
<1>2. calls = <<>> /\ Len(calls) = 0
  BY DEF HostResumes
<1>3. CASE finishing = 0
  <2>1. /\ frames' = below /\ status' = "idle"
        /\ UNCHANGED <<module, finishing, events, tables, alerts, out, stack, iterators, calls>>
    BY <1>3 DEF HostResumes, data
  <2>2. status' \in Status
    BY <2>1 DEF Status
  <2> HIDE DEF below
  <2>3. Len(calls') <= Len(frames')
    BY <1>1, <1>2, <2>1
  <2> QED BY <1>1, <2>1, <2>2, <2>3, Types, Preserved
<1>4. CASE finishing # 0
  <2>1. Finish(finishing + 1, below) /\ UNCHANGED <<module, events, data, stack, iterators>>
    BY <1>4 DEF HostResumes
  <2> HIDE DEF below
  <2>2. finishing + 1 \in Nat \ {0} /\ Len(calls) <= Len(below)
    BY <1>1, <1>2, Types
  <2> QED BY <1>1, <2>1, <2>2, FinishPreserves
<1> QED BY <1>3, <1>4

\* A step that changes nothing preserves the invariant.
LEMMA StutterPreserves == ASSUME IInv, UNCHANGED vars PROVE IInv'
<1>1. UNCHANGED <<module, finishing, events, tables, alerts, out, stack, frames,
                  iterators, calls, status>>
  BY DEF vars
<1> QED BY <1>1, Types, Preserved

\* The invariant holds when the VM has loaded a module.
LEMMA InitHolds == ASSUME Init PROVE IInv
<1>1. module \in Modules /\ module.tables \in Seq([name : Text, columns : Seq(Text)])
  BY ModuleType DEF Init, Module
<1>2. tables \in Store
  BY <1>1, EmptyStoreType DEF Init, Start, Store, TableNames
<1> QED BY <1>1, <1>2 DEF Init, Start, IInv, TypeOK, ActiveFrame, Store,
                          TableNames, Status

\* Every step preserves the invariant.
LEMMA NextPreserves == ASSUME IInv, [Next]_vars PROVE IInv'
BY DispatchEventPreserves, RunFinishPreserves, HostResumesPreserves,
   ExecutePreserves, StutterPreserves DEF Next, Terminated

\* Whatever bytecode is loaded and whatever events arrive, every variable of the VM
\* holds what its Rust type says: integers stay within 64 bits, every stack holds
\* values, and every frame and activation runs a unit that exists.
THEOREM TypesHold == Spec => []TypeOK
<1>1. Init => IInv
  BY InitHolds
<1>2. IInv /\ [Next]_vars => IInv'
  BY NextPreserves
<1>3. IInv => TypeOK
  BY DEF IInv
<1> QED BY <1>1, <1>2, <1>3, PTL DEF Spec

\* Whatever bytecode is loaded, there is a frame for every activation: "no active
\* frame" is never reported and the unwraps of frames.last() never panic.
THEOREM FramesAreThere == Spec => []ActiveFrame
<1>1. Init => IInv
  BY InitHolds
<1>2. IInv /\ [Next]_vars => IInv'
  BY NextPreserves
<1>3. IInv => ActiveFrame
  BY DEF IInv
<1> QED BY <1>1, <1>2, <1>3, PTL DEF Spec
-----------------------------------------------------------------------------
(* Safety.                                                                 *)

\* The inductive invariant holds in every state.
LEMMA TypesAlways == Spec => []IInv
BY InitHolds, NextPreserves, PTL DEF Spec

-----------------------------------------------------------------------------
(* The iterators.                                                          *)

\* Only ForInit and ForNext touch the iterators.
LEMMA IteratorsUntouched ==
    ASSUME Next, ~ForInit, ~ForNextRow, ~ForNextDone PROVE UNCHANGED iterators
<1>1. ASSUME NEW e \in Events, DispatchEvent(e) PROVE UNCHANGED iterators
  BY <1>1 DEF DispatchEvent
<1>2. CASE RunFinish
  BY <1>2 DEF RunFinish
<1>3. CASE HostResumes
  BY <1>3 DEF HostResumes
<1>4. CASE Terminated
  BY <1>4 DEF Terminated, vars
<1>5. CASE LoadConst \/ BadConstant \/ PopOperand \/ LoadVar \/ StoreVar
             \/ Binary \/ Unary \/ GetEventField \/ NoOperation
  BY <1>5 DEF LoadConst, BadConstant, PopOperand, LoadVar, StoreVar, Binary,
              Unary, GetEventField, NoOperation
<1>6. CASE Jump \/ Branch("JumpIfFalse", FALSE) \/ Branch("JumpIfTrue", TRUE)
             \/ Return \/ FallOffEnd \/ Halt
  BY <1>6 DEF Jump, Branch, Return, FallOffEnd, Halt
<1>7. CASE CallBuiltin \/ CallCount \/ CallFilter \/ CallSort \/ CallFunction
             \/ CallUndefined
  BY <1>7, Zenon DEF CallBuiltin, CallCount, CallFilter, CallSort, CallFunction,
              CallUndefined
<1>8. CASE InsertTable \/ IndexGet \/ IndexAssign \/ Alert \/ PrintValue
             \/ ShowTable \/ ExportTable
  BY <1>8 DEF InsertTable, IndexGet, IndexAssign, Alert, PrintValue, ShowTable,
              ExportTable
<1> QED BY <1>1, <1>2, <1>3, <1>4, <1>5, <1>6, <1>7, <1>8 DEF Next, Execute
-----------------------------------------------------------------------------
(* Every row has one cell per column.                                      *)

Fitting(store) ==
    \A name \in DOMAIN store : \A i \in DOMAIN store[name].rows :
       Len(store[name].rows[i]) = Len(store[name].fields)

\* Only insert, cell assignment, filter and sort touch the tables.
LEMMA TablesUntouched ==
    ASSUME Next, ~InsertTable, ~IndexAssign, ~CallFilter, ~CallSort
    PROVE  UNCHANGED tables
<1>1. ASSUME NEW e \in Events, DispatchEvent(e) PROVE UNCHANGED tables
  BY <1>1 DEF DispatchEvent, data
<1>2. CASE RunFinish
  BY <1>2 DEF RunFinish, data
<1>3. CASE HostResumes
  BY <1>3 DEF HostResumes, data
<1>4. CASE Terminated
  BY <1>4 DEF Terminated, vars
<1>5. CASE LoadConst \/ BadConstant \/ PopOperand \/ LoadVar \/ StoreVar
             \/ Binary \/ Unary \/ GetEventField \/ NoOperation
  BY <1>5 DEF LoadConst, BadConstant, PopOperand, LoadVar, StoreVar, Binary,
              Unary, GetEventField, NoOperation, data
<1>6. CASE Jump \/ Branch("JumpIfFalse", FALSE) \/ Branch("JumpIfTrue", TRUE)
             \/ Return \/ FallOffEnd \/ Halt
  BY <1>6 DEF Jump, Branch, Return, FallOffEnd, Halt, data
<1>7. CASE CallBuiltin \/ CallCount \/ CallFunction \/ CallUndefined
  BY <1>7, Zenon DEF CallBuiltin, CallCount, CallFunction, CallUndefined, data
<1>8. CASE IndexGet \/ Alert \/ PrintValue \/ ShowTable \/ ExportTable
  BY <1>8 DEF IndexGet, Alert, PrintValue, ShowTable, ExportTable, data
<1>9. CASE ForInit \/ ForNextRow \/ ForNextDone
  BY <1>9 DEF ForInit, ForNextRow, ForNextDone, data
<1> QED BY <1>1, <1>2, <1>3, <1>4, <1>5, <1>6, <1>7, <1>8, <1>9 DEF Next, Execute

\* An empty table has no row that could be of the wrong length.
LEMMA EmptyStoreFits ==
    ASSUME NEW declared PROVE Fitting(EmptyStore(declared))
BY DEF EmptyStore, Fitting

\* Replacing the rows of one table by rows that fit it.
LEMMA WithRowsFits ==
    ASSUME NEW N, NEW store \in [N -> Table], NEW name \in N, Fitting(store),
           NEW rows,
           \A i \in DOMAIN rows : Len(rows[i]) = Len(store[name].fields)
    PROVE  Fitting([store EXCEPT ![name].rows = rows])
<1> DEFINE after == [store EXCEPT ![name].rows = rows]
<1>1. store[name] \in Table
  OBVIOUS
<1>2. after[name].rows = rows /\ after[name].fields = store[name].fields
  BY <1>1 DEF Table
<1>3. DOMAIN after = DOMAIN store /\ \A m \in DOMAIN store \ {name} : after[m] = store[m]
  OBVIOUS
<1> HIDE DEF after
<1>4. Fitting(after)
  BY <1>2, <1>3 DEF Fitting
<1> QED BY <1>4 DEF after

\* Inserting a row of the right length.
LEMMA InsertFits ==
    ASSUME NEW N, NEW store \in [N -> Table], NEW name \in N, Fitting(store),
           NEW row \in Row, Len(row) = Len(store[name].fields)
    PROVE  Fitting(Insert(store, name, row))
<1> DEFINE old == store[name].rows
           rows == Append(old, row)
<1>1. old \in Seq(Row)
  BY DEF Table
<1>2. \A i \in DOMAIN old : Len(old[i]) = Len(store[name].fields)
  BY DEF Fitting
<1>3. \A i \in DOMAIN rows : Len(rows[i]) = Len(store[name].fields)
  <2> HIDE DEF old
  <2> QED BY <1>1, <1>2
<1>4. Insert(store, name, row) = [store EXCEPT ![name].rows = rows]
  BY DEF Insert
<1> HIDE DEF rows, old
<1>9. Fitting([store EXCEPT ![name].rows = rows])
  BY <1>3, WithRowsFits
<1> QED BY <1>9, <1>4, Zenon

\* Selecting or permuting rows.
LEMMA ReorderFits ==
    ASSUME NEW N, NEW store \in [N -> Table], NEW name \in N, Fitting(store),
           NEW order, \A i \in DOMAIN order : order[i] \in DOMAIN store[name].rows
    PROVE  Fitting(Reorder(store, name, order))
<1> DEFINE rows == [i \in DOMAIN order |-> store[name].rows[order[i]]]
<1>1. \A i \in DOMAIN rows : Len(rows[i]) = Len(store[name].fields)
  BY DEF Fitting
<1>2. Reorder(store, name, order) = [store EXCEPT ![name].rows = rows]
  BY DEF Reorder
<1> HIDE DEF rows
<1>9. Fitting([store EXCEPT ![name].rows = rows])
  BY <1>1, WithRowsFits
<1> QED BY <1>9, <1>2, Zenon

\* Assigning a cell changes the length of no row.
LEMMA AssignCellFits ==
    ASSUME NEW N, NEW store \in [N -> Table], NEW name \in N, Fitting(store),
           NEW index, NEW field, NEW v \in Value
    PROVE  Fitting(AssignCell(store, name, index, field, v))
<1> DEFINE old == store[name].rows
           i == index[2] + 1
           row == [old[i] EXCEPT ![Column(store, name, field)] = v]
           rows == [old EXCEPT ![i] = row]
<1>1. old \in Seq(Row)
  BY DEF Table
<1>2. i \in DOMAIN old => Len(row) = Len(old[i])
  <2> SUFFICES ASSUME i \in DOMAIN old PROVE Len(row) = Len(old[i])
    OBVIOUS
  <2>1. old[i] \in Seq(Value)
    BY <1>1 DEF Row
  <2> DEFINE col == Column(store, name, field)
  <2> HIDE DEF old, i, col
  <2> QED BY <2>1, Replaced DEF col
<1>3. \A j \in DOMAIN old : Len(old[j]) = Len(store[name].fields)
  BY DEF Fitting
<1>4. \A j \in DOMAIN rows : Len(rows[j]) = Len(store[name].fields)
  <2> HIDE DEF old, row, i
  <2> QED BY <1>1, <1>2, <1>3
<1>5. AssignCell(store, name, index, field, v) = [store EXCEPT ![name].rows = rows]
  BY DEF AssignCell
<1> HIDE DEF rows
<1>9. Fitting([store EXCEPT ![name].rows = rows])
  BY <1>4, WithRowsFits
<1> QED BY <1>9, <1>5, Zenon

\* InsertTable inserts no row of the wrong length.
LEMMA InsertTableFits ==
    ASSUME IInv, Fitting(tables), InsertTable PROVE Fitting(tables')
<1>1. CASE UNCHANGED tables
  BY <1>1
<1>2. CASE tables' # tables
  <2> DEFINE n == Len(tables[Name].fields)
  <2>1. /\ Exists(tables, Name) /\ Enough(n) /\ CanInsert(tables, Name, Operands(n))
        /\ tables' = Insert(tables, Name, Operands(n))
    BY <1>2, Zenon DEF InsertTable
  <2>2. Name \in TableNames /\ tables \in Store /\ tables[Name] \in Table
    BY <2>1, RowCount, Types
  <2>3. n \in Nat
    BY <2>2 DEF Table
  <2>4. Len(Operands(n)) = Len(tables[Name].fields)
    BY <2>1 DEF CanInsert
  <2> HIDE DEF n
  <2>5. Operands(n) \in Row
    BY <2>1, <2>3, OperandTypes DEF Row
  <2> QED BY <2>1, <2>2, <2>4, <2>5, InsertFits DEF Store
<1> QED BY <1>1, <1>2

\* IndexAssign changes the length of no row.
LEMMA IndexAssignFits ==
    ASSUME IInv, Fitting(tables), IndexAssign PROVE Fitting(tables')
<1>1. CASE UNCHANGED tables
  BY <1>1
<1>2. CASE tables' # tables
  <2> DEFINE field == Constant(Code(Running)[Frame.ip + 2].arg)[2]
  <2>1. /\ Enough(2) /\ CanAssign(tables, Name, Operand(1), field)
        /\ tables' = AssignCell(tables, Name, Operand(1), field, Operand(2))
    BY <1>2, Zenon DEF IndexAssign
  <2>2. Name \in TableNames /\ tables \in Store /\ Operand(2) \in Value
    BY <2>1, RowCount, Types, OperandTypes DEF CanAssign
  <2> HIDE DEF field
  <2> QED BY <2>1, <2>2, AssignCellFits DEF Store
<1> QED BY <1>1, <1>2

\* filter keeps rows of the table.
LEMMA CallFilterFits ==
    ASSUME IInv, Fitting(tables), CallFilter PROVE Fitting(tables')
<1>1. CASE UNCHANGED tables
  BY <1>1
<1>2. CASE tables' # tables
  <2> DEFINE name == AsText(Operand(3))
             kept == Matching(tables, name, AsText(Operand(2)), AsText(Operand(1)))
  <2>1. Exists(tables, name)
        /\ \E order \in Increasing(kept) : tables' = Reorder(tables, name, order)
    BY <1>2, Zenon DEF CallFilter, Sortable
  <2>2. kept \subseteq DOMAIN tables[name].rows
    BY DEF Matching
  <2> HIDE DEF name, kept
  <2>3. name \in TableNames /\ tables \in Store
    BY <2>1, RowCount, Types
  <2>4. PICK order \in Increasing(kept) : tables' = Reorder(tables, name, order)
    BY <2>1
  <2>5. \A i \in DOMAIN order : order[i] \in DOMAIN tables[name].rows
    BY <2>2 DEF Increasing
  <2> QED BY <2>3, <2>4, <2>5, ReorderFits DEF Store
<1> QED BY <1>1, <1>2

\* sort permutes rows of the table.
LEMMA CallSortFits ==
    ASSUME IInv, Fitting(tables), CallSort PROVE Fitting(tables')
<1>1. CASE UNCHANGED tables
  BY <1>1
<1>2. CASE tables' # tables
  <2> DEFINE name == AsText(Operand(2))
             field == AsText(Operand(1))
  <2>1. Exists(tables, name)
        /\ \E order \in StableOrders(tables, name, field) :
              tables' = Reorder(tables, name, order)
    BY <1>2, Zenon DEF CallSort, Sortable
  <2> HIDE DEF name, field
  <2>2. name \in TableNames /\ tables \in Store
    BY <2>1, RowCount, Types
  <2>3. PICK order \in StableOrders(tables, name, field) :
           tables' = Reorder(tables, name, order)
    BY <2>1
  <2>4. \A i \in DOMAIN order : order[i] \in DOMAIN tables[name].rows
    BY DEF StableOrders
  <2> QED BY <2>2, <2>3, <2>4, ReorderFits DEF Store
<1> QED BY <1>1, <1>2

\* Whatever bytecode is loaded, every row has as many cells as its table has columns:
\* the indexing of cells by column in filter and export_json never panics.
THEOREM RowsAlwaysFit == Spec => []RowsFit
<1>1. Init => Fitting(tables)
  BY EmptyStoreFits DEF Init, Start
<1>2. IInv /\ Fitting(tables) /\ [Next]_vars => Fitting(tables)'
  <2> SUFFICES ASSUME IInv, Fitting(tables), [Next]_vars PROVE Fitting(tables')
    OBVIOUS
  <2>1. UNCHANGED vars => UNCHANGED tables
    BY DEF vars
  <2> QED BY <2>1, TablesUntouched, InsertTableFits, IndexAssignFits,
             CallFilterFits, CallSortFits
<1>3. Fitting(tables) => RowsFit
  BY DEF Fitting, RowsFit
<1> QED BY <1>1, <1>2, <1>3, TypesAlways, PTL DEF Spec
-----------------------------------------------------------------------------
(* Activations and frames.                                                 *)

Matched ==
    /\ Len(frames) = Len(calls)
    /\ \A i \in DOMAIN frames : frames[i].unit = calls[i].unit

\* The loaded module never changes.
LEMMA ModuleStays == ASSUME Next PROVE UNCHANGED module
<1>1. ASSUME NEW e \in Events, DispatchEvent(e) PROVE UNCHANGED module
  BY <1>1 DEF DispatchEvent
<1>2. CASE RunFinish
  BY <1>2 DEF RunFinish
<1>3. CASE HostResumes
  BY <1>3 DEF HostResumes
<1>4. CASE Terminated
  BY <1>4 DEF Terminated, vars
<1>5. CASE LoadConst \/ BadConstant \/ PopOperand \/ LoadVar \/ StoreVar
             \/ Binary \/ Unary \/ GetEventField \/ NoOperation
  BY <1>5 DEF LoadConst, BadConstant, PopOperand, LoadVar, StoreVar, Binary,
              Unary, GetEventField, NoOperation, host
<1>6. CASE Jump \/ Branch("JumpIfFalse", FALSE) \/ Branch("JumpIfTrue", TRUE)
             \/ Return \/ FallOffEnd \/ Halt
  BY <1>6 DEF Jump, Branch, Return, FallOffEnd, Halt, host
<1>7. CASE CallBuiltin \/ CallCount \/ CallFilter \/ CallSort \/ CallFunction
             \/ CallUndefined
  BY <1>7, Zenon DEF CallBuiltin, CallCount, CallFilter, CallSort, CallFunction,
              CallUndefined, host
<1>8. CASE InsertTable \/ IndexGet \/ IndexAssign \/ Alert \/ PrintValue
             \/ ShowTable \/ ExportTable
  BY <1>8 DEF InsertTable, IndexGet, IndexAssign, Alert, PrintValue, ShowTable,
              ExportTable, host
<1>9. CASE ForInit \/ ForNextRow \/ ForNextDone
  BY <1>9 DEF ForInit, ForNextRow, ForNextDone, host
<1> QED BY <1>1, <1>2, <1>3, <1>4, <1>5, <1>6, <1>7, <1>8, <1>9 DEF Next, Execute

\* Where no code holds a Halt, none is executed.
LEMMA NoHalt == ASSUME IInv, HaltFree PROVE ~Executing("Halt")
<1> SUFFICES ASSUME Executing("Halt") PROVE FALSE
  OBVIOUS
<1>1. calls # <<>> /\ Instr.op = "Halt" /\ ~AtEnd
  BY NextInstruction DEF Executing
<1>2. Running \in Units /\ Code(Running) \in Seq(Instruction) /\ Frame.ip \in Nat
  BY <1>1, TopFrame DEF FrameType
<1>3. Frame.ip + 1 \in DOMAIN Code(Running)
  BY <1>1, <1>2 DEF AtEnd
<1>4. \A j \in DOMAIN Code(Running) : Code(Running)[j].op # "Halt"
  BY <1>2 DEF HaltFree, Units, Code
<1> QED BY <1>1, <1>3, <1>4 DEF Instr

\* The frames advance: their units stay.
Advances ==
    /\ UNCHANGED calls /\ Len(frames') = Len(frames)
    /\ \A i \in DOMAIN frames : frames'[i].unit = frames[i].unit

\* Frames that only advance stay matched with the activations.
LEMMA MatchedAdvances ==
    ASSUME IInv, frames' \in Seq(FrameType), Matched, Advances PROVE Matched'
<1>1. DOMAIN frames' = DOMAIN frames
  <2>1. DOMAIN frames' = 1..Len(frames')
    OBVIOUS
  <2>2. DOMAIN frames = 1..Len(frames)
    BY Types
  <2> QED BY <2>1, <2>2 DEF Advances
<1> QED BY <1>1 DEF Matched, Advances

\* Setting the ip of the top frame keeps the unit of every frame.
LEMMA UnitsStay ==
    ASSUME IInv, NEW x, frames' = [frames EXCEPT ![Len(frames)].ip = x]
    PROVE  /\ \A i \in DOMAIN frames : frames'[i].unit = frames[i].unit
           /\ DOMAIN frames' = DOMAIN frames
<1>1. frames \in Seq(FrameType)
  BY Types
<1>2. \A i \in DOMAIN frames : frames[i] \in FrameType
  BY <1>1
<1> QED BY <1>2 DEF FrameType

\* A step or a jump advances the frames.
LEMMA StepAdvances ==
    ASSUME IInv, calls # <<>>, UNCHANGED calls,
           Step \/ \E ip \in Nat : JumpTo(ip)
    PROVE  Advances /\ frames' \in Seq(FrameType)
<1>1. CASE Step
  <2>1. frames' = [frames EXCEPT ![Len(frames)].ip = Frame.ip + 1]
    BY <1>1 DEF Step, Frame
  <2> QED BY <1>1, <2>1, UnitsStay, StepType DEF Advances
<1>2. ASSUME NEW ip \in Nat, JumpTo(ip)
      PROVE  Advances /\ frames' \in Seq(FrameType)
  BY <1>2, UnitsStay, JumpToType DEF Advances, JumpTo
<1> QED BY <1>1, <1>2

\* Storing a local advances the frames.
LEMMA StoreVarAdvances ==
    ASSUME IInv, StoreVar PROVE Advances /\ frames' \in Seq(FrameType)
<1>1. calls # <<>> /\ UNCHANGED calls
  BY NextInstruction DEF StoreVar
<1>2. CASE Step
  BY <1>1, <1>2, StepAdvances
<1>3. CASE ~Step
  <2> DEFINE f == [unit |-> Frame.unit,
                   locals |-> Stored(Frame.locals, Instr.arg, Operand(1)),
                   ip |-> Frame.ip + 1]
  <2>1. frames' = [frames EXCEPT ![Len(frames)] = f] /\ Enough(1)
    BY <1>3 DEF StoreVar
  <2>2. Frame \in FrameType /\ Operand(1) \in Value /\ Instr.arg \in Nat
    BY <1>1, <2>1, TopFrame, OperandTypes, NextInstruction DEF StoreVar
  <2>3. f \in FrameType /\ f.unit = Frame.unit
    <3>1. Stored(Frame.locals, Instr.arg, Operand(1)) \in Seq(Value)
      BY <2>2, StoredType DEF FrameType
    <3> QED BY <2>2, <3>1 DEF FrameType
  <2> HIDE DEF f
  <2>4. frames' \in Seq(FrameType) /\ Len(frames') = Len(frames)
    BY <1>1, <2>1, <2>3, FrameAdvances
  <2>5. \A i \in DOMAIN frames : frames'[i].unit = frames[i].unit
    BY <2>1, <2>3 DEF Frame
  <2> QED BY <1>1, <2>4, <2>5 DEF Advances
<1> QED BY <1>2, <1>3

\* Entering a unit over matched frames leaves matched frames.
LEMMA EnterMatches ==
    ASSUME NEW S, NEW below \in Seq(S), NEW T, calls \in Seq(T),
           Len(below) = Len(calls),
           \A i \in DOMAIN below : below[i].unit = calls[i].unit,
           NEW unit, NEW locals, NEW base, Enter(unit, locals, below, base)
    PROVE  Matched'
<1> DEFINE f == [unit |-> unit, locals |-> locals, ip |-> 0]
           c == [unit |-> unit, base |-> base]
           n == Len(below)
<1>1. f.unit = unit /\ c.unit = unit
  OBVIOUS
<1>2. frames' = Append(below, f) /\ calls' = Append(calls, c)
  BY DEF Enter
<1> HIDE DEF f, c
<1>3. /\ n \in Nat /\ DOMAIN frames' = 1..(n + 1)
      /\ Len(frames') = n + 1 /\ Len(calls') = n + 1
      /\ frames'[n + 1] = f /\ calls'[n + 1] = c
      /\ \A i \in 1..n : frames'[i] = below[i] /\ calls'[i] = calls[i]
  BY <1>2
<1>4. DOMAIN below = 1..n
  OBVIOUS
<1> HIDE DEF n
<1>5. \A i \in 1..(n + 1) : frames'[i].unit = calls'[i].unit
  <2> TAKE i \in 1..(n + 1)
  <2>1. i = n + 1 \/ i \in 1..n
    BY <1>3
  <2> QED BY <1>1, <1>3, <1>4, <2>1
<1> QED BY <1>3, <1>5 DEF Matched

\* Leaving a unit leaves matched frames.
LEMMA LeaveMatches ==
    ASSUME IInv, calls # <<>>, Matched, frames' = Front(frames), calls' = Front(calls)
    PROVE  Matched'
<1>1. frames # <<>> /\ calls \in Seq(CallType) /\ frames \in Seq(FrameType)
  BY Types, TopFrame
<1>2. /\ Len(frames') = Len(frames) - 1 /\ Len(calls') = Len(calls) - 1
      /\ frames' \in Seq(FrameType) /\ calls' \in Seq(CallType)
      /\ \A i \in DOMAIN frames' : frames'[i] = frames[i]
      /\ \A i \in DOMAIN calls' : calls'[i] = calls[i]
  BY <1>1, FrontType
<1>3. DOMAIN frames' = DOMAIN calls' /\ DOMAIN frames' \subseteq DOMAIN frames
  BY <1>1, <1>2 DEF Matched
<1> QED BY <1>2, <1>3 DEF Matched

\* A call leaves matched frames.
LEMMA CallFunctionMatches ==
    ASSUME IInv, Matched, CallFunction PROVE Matched'
<1>1. calls # <<>>
  BY NextInstruction DEF CallFunction, ExecutingNamed
<1>2. CASE UNCHANGED calls /\ Step
  BY <1>1, <1>2, StepAdvances, MatchedAdvances
<1>3. CASE ~(UNCHANGED calls /\ Step)
  <2> DEFINE below == [frames EXCEPT ![Len(frames)].ip = Frame.ip + 1]
  <2>1. PICK i \in Named(module.functions, Name) :
           LET arity == module.functions[i].arity
           IN  Enter([kind |-> "function", n |-> i], Operands(arity), below,
                     Len(stack) - arity)
    BY <1>3, Zenon DEF CallFunction, Frame
  <2>2. below \in Seq(FrameType) /\ Len(below) = Len(frames)
    <3>1. Frame.ip + 1 \in Nat
      BY <1>1, TopFrame DEF FrameType
    <3> QED BY <1>1, <3>1, JumpType
  <2>3. \A j \in DOMAIN below : below[j].unit = calls[j].unit
    <3>1. \A j \in DOMAIN frames : frames[j] \in FrameType
      BY Types
    <3> QED BY <3>1 DEF FrameType, Matched
  <2>4. calls \in Seq(CallType) /\ Len(below) = Len(calls)
    BY <2>2, Types DEF Matched
  <2> HIDE DEF below
  <2> QED BY <2>1, <2>2, <2>3, <2>4, EnterMatches
<1> QED BY <1>2, <1>3

\* Starting a finish handler, or ending the run, leaves matched frames.
LEMMA FinishMatches ==
    ASSUME IInv, NEW below \in Seq(FrameType), Len(below) = Len(calls),
           \A i \in DOMAIN below : below[i].unit = calls[i].unit,
           NEW n, Finish(n, below)
    PROVE  Matched'
<1>1. calls \in Seq(CallType)
  BY Types
<1>2. CASE n <= Len(module.finish_handlers)
  <2>1. Enter([kind |-> "finish", n |-> n], <<>>, below, Len(stack))
    BY <1>2 DEF Finish
  <2> QED BY <1>1, <2>1, EnterMatches
<1>3. CASE ~(n <= Len(module.finish_handlers))
  <2>1. frames' = below /\ calls' = calls
    BY <1>3 DEF Finish
  <2> QED BY <2>1 DEF Matched
<1> QED BY <1>2, <1>3

\* Without activations there are no frames either.
LEMMA NoFrames ==
    ASSUME IInv, Matched, calls = <<>> PROVE frames = <<>>
<1>1. Len(frames) = 0 /\ frames \in Seq(FrameType)
  BY Types DEF Matched
<1> QED BY <1>1

\* The host leaves matched frames: the extra pop of dispatch_event and run_finish
\* finds no frame to pop.
LEMMA HostMatches ==
    ASSUME IInv, Matched,
           RunFinish \/ HostResumes \/ \E e \in Events : DispatchEvent(e)
    PROVE  Matched'
<1>1. CASE RunFinish
  <2>1. frames \in Seq(FrameType)
    BY Types
  <2> QED BY <1>1, <2>1, FinishMatches DEF RunFinish, Matched
<1>2. CASE HostResumes
  <2>1. calls = <<>> /\ frames = <<>>
    BY <1>2, NoFrames DEF HostResumes
  <2>2. \/ frames' = <<>> /\ UNCHANGED calls
        \/ Finish(finishing + 1, <<>>)
    BY <1>2, <2>1 DEF HostResumes
  <2>3. CASE frames' = <<>> /\ UNCHANGED calls
    BY <2>1, <2>3 DEF Matched
  <2>4. <<>> \in Seq(FrameType) /\ Len(<<>>) = Len(calls) /\ DOMAIN <<>> = {}
    BY <2>1
  <2> QED BY <2>2, <2>3, <2>4, FinishMatches
<1>3. ASSUME NEW e \in Events, DispatchEvent(e) PROVE Matched'
  <2>1. CASE UNCHANGED <<frames, calls>>
    BY <2>1 DEF Matched
  <2>2. CASE ~UNCHANGED <<frames, calls>>
    <3>1. PICK i \in Named(module.event_handlers, e.name) :
             Enter([kind |-> "on", n |-> i], <<Event(e.fields)>>, frames, Len(stack))
      BY <1>3, <2>2 DEF DispatchEvent
    <3>2. calls \in Seq(CallType) /\ frames \in Seq(FrameType)
      BY Types
    <3> QED BY <3>1, <3>2, EnterMatches DEF Matched
  <2> QED BY <2>1, <2>2
<1> QED BY <1>1, <1>2, <1>3

\* An instruction being executed has an activation and an argument.
LEMMA NaturalArgument ==
    ASSUME IInv, NEW op, Executing(op) PROVE calls # <<>> /\ Instr.arg \in Nat
BY NextInstruction

\* Without a Halt, every instruction leaves matched frames.
LEMMA ExecuteMatches ==
    ASSUME IInv, Matched, HaltFree, Execute PROVE Matched'
<1>1. CASE LoadConst \/ BadConstant \/ PopOperand \/ LoadVar \/ Binary \/ Unary
             \/ GetEventField \/ NoOperation
  <2>1. calls # <<>> /\ UNCHANGED calls /\ Step
    BY <1>1, NaturalArgument
       DEF LoadConst, BadConstant, PopOperand, LoadVar, Binary, Unary,
           GetEventField, NoOperation, ExecutingNamed
  <2> QED BY <2>1, StepAdvances, MatchedAdvances
<1>2. CASE StoreVar
  BY <1>2, StoreVarAdvances, MatchedAdvances
<1>3. CASE Jump \/ Branch("JumpIfFalse", FALSE) \/ Branch("JumpIfTrue", TRUE)
             \/ ForNextDone
  <2>1. calls # <<>> /\ UNCHANGED calls /\ Instr.arg \in Nat
    BY <1>3, NaturalArgument DEF Jump, Branch, ForNextDone
  <2>2. Step \/ JumpTo(Instr.arg)
    BY <1>3 DEF Jump, Branch, ForNextDone
  <2> QED BY <2>1, <2>2, StepAdvances, MatchedAdvances
<1>4. CASE CallBuiltin \/ CallCount \/ CallFilter \/ CallSort \/ CallUndefined
  <2>1. calls # <<>>
    BY <1>4, NaturalArgument DEF CallBuiltin, CallCount, CallFilter, CallSort,
                                 CallUndefined, ExecutingCall, ExecutingNamed
  <2>2. UNCHANGED calls /\ Step
    BY <1>4, Zenon DEF CallBuiltin, CallCount, CallFilter, CallSort, CallUndefined
  <2> QED BY <2>1, <2>2, StepAdvances, MatchedAdvances
<1>5. CASE CallFunction
  BY <1>5, CallFunctionMatches
<1>6. CASE Return \/ FallOffEnd
  <2>1. calls # <<>>
    BY <1>6, NaturalArgument DEF Return, FallOffEnd
  <2>2. frames' = Front(frames) /\ calls' = Front(calls)
    BY <1>6 DEF Return, FallOffEnd
  <2> QED BY <2>1, <2>2, LeaveMatches
<1>7. CASE Halt
  BY <1>7, NoHalt DEF Halt
<1>8. CASE InsertTable \/ IndexGet \/ Alert \/ PrintValue \/ ShowTable
             \/ ExportTable \/ ForInit \/ ForNextRow
  <2>1. calls # <<>>
    BY <1>8, NaturalArgument DEF InsertTable, IndexGet, Alert, PrintValue,
           ShowTable, ExportTable, ForInit, ForNextRow, ExecutingNamed
  <2>2. UNCHANGED calls /\ Step
    BY <1>8 DEF InsertTable, IndexGet, Alert, PrintValue, ShowTable,
                ExportTable, ForInit, ForNextRow
  <2> QED BY <2>1, <2>2, StepAdvances, MatchedAdvances
<1>9. CASE IndexAssign
  <2>1. calls # <<>> /\ UNCHANGED calls
    BY <1>9, NaturalArgument DEF IndexAssign, ExecutingNamed
  <2>2. JumpTo(Frame.ip + 2) \/ JumpTo(Frame.ip + 1)
    BY <1>9, Zenon DEF IndexAssign
  <2>3. Frame.ip + 2 \in Nat /\ Frame.ip + 1 \in Nat
    BY <2>1, TopFrame DEF FrameType
  <2> QED BY <2>1, <2>2, <2>3, StepAdvances, MatchedAdvances
<1> QED BY <1>1, <1>2, <1>3, <1>4, <1>5, <1>6, <1>7, <1>8, <1>9 DEF Execute

\* Whatever code without a Halt is loaded, the activation on top runs the code of the
\* frame on top, and each below it likewise: run_until_return never takes the
\* instructions of one unit at the ip of another.
THEOREM FramesAlwaysMatch == Spec => []FramesMatchCalls
<1>1. Init => FramesMatchCalls
  BY DEF Init, Start, FramesMatchCalls
<1>2. IInv /\ FramesMatchCalls /\ [Next]_vars => FramesMatchCalls'
  <2> SUFFICES ASSUME IInv, FramesMatchCalls, [Next]_vars PROVE FramesMatchCalls'
    OBVIOUS
  <2>1. CASE UNCHANGED vars
    BY <2>1 DEF vars, FramesMatchCalls, HaltFree
  <2>2. CASE Next
    <3>1. HaltFree' = HaltFree
      BY <2>2, ModuleStays DEF HaltFree
    <3>2. HaltFree => Matched
      BY DEF FramesMatchCalls, Matched
    <3>3. ASSUME HaltFree PROVE Matched'
      <4>1. Matched
        BY <3>2, <3>3
      <4>2. CASE Terminated
        BY <4>1, <4>2 DEF Terminated, vars, Matched
      <4> QED BY <2>2, <3>3, <4>1, <4>2, HostMatches, ExecuteMatches DEF Next
    <3> QED BY <3>1, <3>3 DEF FramesMatchCalls, Matched
  <2> QED BY <2>1, <2>2
<1> QED BY <1>1, <1>2, TypesAlways, PTL DEF Spec
-----------------------------------------------------------------------------
(* What has been recorded stays recorded.                                  *)

\* This step has left a file that is cut short.
CutShort == out' # out /\ Last(out').kind = "cut"

Kept ==
    /\ IsPrefix(alerts, alerts') /\ IsPrefix(out, out')
    /\ CutShort => /\ status' = "failed"
                   /\ Last(out').name \in DOMAIN tables
                   /\ IsPrefix(Last(out').rows, tables[Last(out').name].rows)
    /\ status' \in {"failed", "panicked"} =>
          UNCHANGED <<tables, alerts>> /\ (CutShort \/ UNCHANGED out)

\* A sequence is a prefix of itself.
LEMMA PrefixItself == ASSUME NEW S, NEW s \in Seq(S) PROVE IsPrefix(s, s)
BY DEF IsPrefix

\* A sequence is a prefix of what appending to it makes of it.
LEMMA PrefixAppend ==
    ASSUME NEW S, NEW s \in Seq(S), NEW e \in S PROVE IsPrefix(s, Append(s, e))
<1> DEFINE n == Len(s)
           t == Append(s, e)
<1>1. /\ n \in Nat /\ t \in Seq(S) /\ Len(t) = n + 1
      /\ \A i \in 1..n : s[i] \in S /\ t[i] = s[i]
  OBVIOUS
<1> HIDE DEF n, t
<1>2. /\ SubSeq(s, 1, n) \in Seq(S) /\ Len(SubSeq(s, 1, n)) = n
      /\ \A i \in 1..n : SubSeq(s, 1, n)[i] = s[i]
  BY <1>1, SubSeqProperties
<1>3. /\ SubSeq(t, 1, n) \in Seq(S) /\ Len(SubSeq(t, 1, n)) = n
      /\ \A i \in 1..n : SubSeq(t, 1, n)[i] = t[i]
  BY <1>1, SubSeqProperties
<1>4. SubSeq(s, 1, n) = SubSeq(t, 1, n)
  BY <1>1, <1>2, <1>3, SeqEqual
<1> QED BY <1>1, <1>4 DEF IsPrefix, n, t

\* A step that records nothing keeps the record.
LEMMA NothingRecorded == ASSUME IInv, UNCHANGED data PROVE Kept
<1>1. UNCHANGED <<alerts, out>>
  BY DEF data
<1> QED BY <1>1, Types, PrefixItself DEF Kept, CutShort, data

\* A computation that succeeds, and operands taken, leave the VM running.
LEMMA Succeeds ==
    /\ \A n, v : Compute(n, Ok(v)) /\ Enough(n) => status' = "running"
    /\ \A n : Consume(n, TRUE) /\ Enough(n) => status' = "running"
BY DEF Compute, Consume, Ok, After

\* A step that changes the tables only where it succeeds keeps the record.
LEMMA TablesChanged ==
    ASSUME IInv, UNCHANGED <<alerts, out>>,
           tables' # tables => status' = "running"
    PROVE  Kept
<1> QED BY Types, PrefixItself DEF Kept, CutShort

\* A failing insert leaves the tables unchanged.
LEMMA InsertTableKeeps == ASSUME IInv, InsertTable PROVE Kept
<1>1. tables' # tables => status' = "running"
  <2> SUFFICES ASSUME tables' # tables PROVE status' = "running"
    OBVIOUS
  <2> DEFINE n == Len(tables[Name].fields)
             ok == Enough(n) /\ CanInsert(tables, Name, Operands(n))
  <2>1. Consume(n, ok) /\ ok
    BY Zenon DEF InsertTable
  <2> HIDE DEF n
  <2>2. Consume(n, TRUE) /\ Enough(n)
    BY <2>1
  <2> QED BY <2>2, Succeeds
<1> QED BY <1>1, TablesChanged DEF InsertTable

\* A failing cell assignment leaves the tables unchanged.
LEMMA IndexAssignKeeps == ASSUME IInv, IndexAssign PROVE Kept
<1>1. tables' # tables => status' = "running"
  <2> SUFFICES ASSUME tables' # tables PROVE status' = "running"
    OBVIOUS
  <2>1. Consume(2, TRUE) /\ Enough(2)
    <3> DEFINE next == Frame.ip + 2
               code == Code(Running)
               hasField == /\ next <= Len(code)
                           /\ code[next].op = "Pop"
                           /\ IsName(code[next].arg)
               ok == /\ Enough(2) /\ hasField
                     /\ CanAssign(tables, Name, Operand(1), Constant(code[next].arg)[2])
    <3>1. Consume(2, ok) /\ ok
      BY Zenon DEF IndexAssign
    <3>2. Enough(2)
      BY <3>1
    <3> HIDE DEF ok
    <3> QED BY <3>1, <3>2 DEF Consume
  <2> QED BY <2>1, Succeeds
<1> QED BY <1>1, TablesChanged DEF IndexAssign

\* A failing filter leaves the tables unchanged.
LEMMA CallFilterKeeps == ASSUME IInv, CallFilter PROVE Kept
<1>1. tables' # tables => status' = "running"
  <2> SUFFICES ASSUME tables' # tables PROVE status' = "running"
    OBVIOUS
  <2> DEFINE name == AsText(Operand(3))
             field == AsText(Operand(2))
             kept == Matching(tables, name, field, AsText(Operand(1)))
             v == Int64(Wrap(Cardinality(kept)))
             ok == Enough(3) /\ Sortable(tables, name, field)
  <2>1. Compute(3, IF ok THEN Ok(v) ELSE Err) /\ ok
    BY Zenon DEF CallFilter
  <2> HIDE DEF v
  <2>2. Enough(3)
    BY <2>1
  <2> HIDE DEF ok
  <2>3. Compute(3, Ok(v))
    BY <2>1
  <2> QED BY <2>2, <2>3, Succeeds
<1> QED BY <1>1, TablesChanged DEF CallFilter

\* A failing sort leaves the tables unchanged.
LEMMA CallSortKeeps == ASSUME IInv, CallSort PROVE Kept
<1>1. tables' # tables => status' = "running"
  <2> SUFFICES ASSUME tables' # tables PROVE status' = "running"
    OBVIOUS
  <2> DEFINE ok == Enough(2) /\ Sortable(tables, AsText(Operand(2)), AsText(Operand(1)))
  <2>1. Compute(2, IF ok THEN Ok(Unit) ELSE Err) /\ ok
    BY Zenon DEF CallSort
  <2>2. Enough(2)
    BY <2>1
  <2> HIDE DEF ok
  <2>3. Compute(2, Ok(Unit))
    BY <2>1
  <2> QED BY <2>2, <2>3, Succeeds
<1> QED BY <1>1, TablesChanged DEF CallSort

\* An alert is appended where its operands are there.
LEMMA AlertKeeps == ASSUME IInv, Alert PROVE Kept
<1>1. UNCHANGED <<tables, out>> /\ Consume(Instr.arg, TRUE) /\ Instr.arg \in Nat
  BY NextInstruction DEF Alert
<1>2. CASE ~Enough(Instr.arg)
  BY <1>1, <1>2, NothingRecorded DEF Alert, data
<1>3. CASE Enough(Instr.arg)
  <2>1. alerts' = Append(alerts, Operands(Instr.arg)) /\ Operands(Instr.arg) \in Row
    BY <1>1, <1>3, OperandTypes DEF Alert, Row
  <2>2. IsPrefix(alerts, alerts') /\ IsPrefix(out, out')
    BY <1>1, <2>1, Types, PrefixAppend, PrefixItself
  <2>3. status' = "running"
    BY <1>1, <1>3, Succeeds
  <2> QED BY <1>1, <2>2, <2>3 DEF Kept, CutShort
<1> QED BY <1>2, <1>3

\* The item appended is the last.
LEMMA LastAppended ==
    ASSUME NEW S, NEW s \in Seq(S), NEW e \in S PROVE Last(Append(s, e)) = e
BY DEF Last

\* An instruction that adds a line of output where it succeeds keeps the record.
LEMMA OutputKeeps ==
    ASSUME IInv, UNCHANGED <<tables, alerts>>,
           \/ UNCHANGED out
           \/ /\ status' = "running"
              /\ \E o \in Output : o.kind # "cut" /\ out' = Append(out, o)
    PROVE  Kept
<1>1. CASE UNCHANGED out
  BY <1>1, NothingRecorded DEF data
<1>2. ASSUME NEW o \in Output, o.kind # "cut", out' = Append(out, o),
             status' = "running"
      PROVE  Kept
  <2>1. IsPrefix(alerts, alerts') /\ IsPrefix(out, out')
    BY <1>2, Types, PrefixAppend, PrefixItself
  <2>2. Last(out') = o
    BY <1>2, Types, LastAppended
  <2> QED BY <1>2, <2>1, <2>2 DEF Kept, CutShort
<1> QED BY <1>1, <1>2

\* print appends where its operand is there.
LEMMA PrintValueKeeps == ASSUME IInv, PrintValue PROVE Kept
<1>1. CASE Enough(1)
  <2>1. Printed(Operand(1)) \in Output /\ Printed(Operand(1)).kind # "cut"
    BY <1>1, OperandTypes, PrintedType DEF Printed
  <2>2. Consume(1, TRUE) /\ out' = Append(out, Printed(Operand(1)))
    BY <1>1 DEF PrintValue
  <2>3. status' = "running"
    BY <1>1, <2>2, Succeeds
  <2> QED BY <2>1, <2>2, <2>3, OutputKeeps DEF PrintValue
<1>2. CASE ~Enough(1)
  BY <1>2, OutputKeeps DEF PrintValue
<1> QED BY <1>1, <1>2

\* A shown table is output.
LEMMA ShownType ==
    ASSUME IInv, Name \in Text, Exists(tables, Name)
    PROVE  Shown(Name) \in Output /\ Shown(Name).kind # "cut"
<1>1. tables[Name].rows \in Seq(Row) /\ <<>> \in Text
  BY RowCount DEF Text
<1> QED BY <1>1 DEF Shown, Output

\* show appends where the table exists.
LEMMA ShowTableKeeps == ASSUME IInv, ShowTable PROVE Kept
<1>1. CASE Exists(tables, Name)
  <2>1. Shown(Name) \in Output /\ Shown(Name).kind # "cut"
    BY <1>1, NameType, ShownType DEF ShowTable
  <2>2. Consume(0, TRUE) /\ Enough(0) /\ out' = Append(out, Shown(Name))
    <3>1. Len(stack) \in Nat
      BY Types
    <3>2. Consume(0, Exists(tables, Name)) /\ out' = Append(out, Shown(Name))
      BY <1>1 DEF ShowTable
    <3> QED BY <1>1, <3>1, <3>2 DEF Enough, Consume
  <2>3. status' = "running"
    BY <2>2, Succeeds
  <2> QED BY <2>1, <2>2, <2>3, OutputKeeps DEF ShowTable
<1>2. CASE ~Exists(tables, Name)
  BY <1>2, OutputKeeps DEF ShowTable
<1> QED BY <1>1, <1>2

\* export adds the whole table, or fails; where it fails on the way, the first rows are
\* at the path all the same.
LEMMA ExportTableKeeps == ASSUME IInv, ExportTable PROVE Kept
<1> DEFINE path == AsText(Operand(1))
           opened == Enough(1) /\ CanOpen(tables, Name, path)
           fits == Fits(tables, Name, path)
           file == ExportFile(tables, Name, path)
<1>1. /\ Consume(1, opened /\ fits)
      /\ out' = IF opened THEN Append(out, file) ELSE out
      /\ UNCHANGED <<tables, alerts>>
  BY Zenon DEF ExportTable
<1>2. opened => Enough(1) /\ path \in Text /\ CanOpen(tables, Name, path)
  BY OperandTypes, AsTextType
<1>3. Name \in Text
  BY NameType DEF ExportTable
<1>4. fits <=> Fits(tables, Name, path)
  OBVIOUS
<1> HIDE DEF opened, path, fits
<1>5. opened => /\ file \in Output /\ file.name = Name /\ Name \in DOMAIN tables
                /\ IsPrefix(file.rows, tables[Name].rows)
                /\ fits => file.kind # "cut"
  BY <1>2, <1>3, <1>4, ExportedFile
<1>6. opened /\ ~fits => file.kind = "cut"
  BY <1>4 DEF ExportFile
<1> HIDE DEF file
<1>7. CASE ~opened
  BY <1>1, <1>7, OutputKeeps
<1>8. CASE opened /\ fits
  <2>1. Consume(1, TRUE) /\ Enough(1)
    BY <1>1, <1>2, <1>8 DEF Consume
  <2>2. status' = "running"
    BY <2>1, Succeeds
  <2> QED BY <1>1, <1>5, <1>8, <2>2, OutputKeeps
<1>9. CASE opened /\ ~fits
  <2>1. status' = "failed"
    BY <1>1, <1>2, <1>9 DEF Consume, After
  <2>2. out' = Append(out, file) /\ file \in Output
    BY <1>1, <1>5, <1>9
  <2>3. /\ IsPrefix(alerts, alerts') /\ IsPrefix(out, out')
        /\ Last(out') = file /\ out' # out
    BY <1>1, <2>2, Types, PrefixAppend, PrefixItself, LastAppended
  <2> QED BY <1>1, <1>5, <1>6, <1>9, <2>1, <2>3 DEF Kept, CutShort
<1> QED BY <1>7, <1>8, <1>9

\* The steps that touch neither tables nor alerts nor output.
LEMMA DataUntouched ==
    ASSUME Next, ~InsertTable, ~IndexAssign, ~CallFilter, ~CallSort,
           ~Alert, ~PrintValue, ~ShowTable, ~ExportTable
    PROVE  UNCHANGED data
<1>1. ASSUME NEW e \in Events, DispatchEvent(e) PROVE UNCHANGED data
  BY <1>1 DEF DispatchEvent
<1>2. CASE RunFinish
  BY <1>2 DEF RunFinish
<1>3. CASE HostResumes
  BY <1>3 DEF HostResumes
<1>4. CASE Terminated
  BY <1>4 DEF Terminated, vars, data
<1>5. CASE LoadConst \/ BadConstant \/ PopOperand \/ LoadVar \/ StoreVar
             \/ Binary \/ Unary \/ GetEventField \/ NoOperation
  BY <1>5 DEF LoadConst, BadConstant, PopOperand, LoadVar, StoreVar, Binary,
              Unary, GetEventField, NoOperation
<1>6. CASE Jump \/ Branch("JumpIfFalse", FALSE) \/ Branch("JumpIfTrue", TRUE)
             \/ Return \/ FallOffEnd \/ Halt
  BY <1>6 DEF Jump, Branch, Return, FallOffEnd, Halt
<1>7. CASE CallBuiltin \/ CallCount \/ CallFunction \/ CallUndefined
  BY <1>7, Zenon DEF CallBuiltin, CallCount, CallFunction, CallUndefined
<1>8. CASE IndexGet \/ ForInit \/ ForNextRow \/ ForNextDone
  BY <1>8 DEF IndexGet, ForInit, ForNextRow, ForNextDone
<1> QED BY <1>1, <1>2, <1>3, <1>4, <1>5, <1>6, <1>7, <1>8 DEF Next, Execute

\* Whatever bytecode is loaded and wherever writing a file fails, alerts and output only
\* grow, a step that fails or panics changes no table and no alert, and all it may put
\* out is a file with the first rows of a table; a file cut short is never left by a
\* step that succeeds.
THEOREM RecordAlwaysKept == Spec => RecordKept
<1>1. IInv /\ [Next]_vars => [Kept]_vars
  BY DataUntouched, NothingRecorded, InsertTableKeeps, IndexAssignKeeps,
     CallFilterKeeps, CallSortKeeps, AlertKeeps, PrintValueKeeps,
     ShowTableKeeps, ExportTableKeeps
<1> QED BY <1>1, TypesAlways, PTL DEF Spec, RecordKept, Kept, CutShort
=============================================================================
