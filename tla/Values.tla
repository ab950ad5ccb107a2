------------------------------- MODULE Values -------------------------------
(***************************************************************************)
(* The values TraceScript computes with (src/interp/value.rs) and the      *)
(* operators on them, as the VM (src/bytecode/vm.rs) applies them.  The    *)
(* tree-walking interpreter shares all of them but the ordering, which is  *)
(* given for both here so that the two stand side by side.                 *)
(*                                                                         *)
(* A value is a pair <<type, payload>>.  A text is a sequence of tokens,   *)
(* so that concatenation, search, order and the rendering of a row keep    *)
(* their structure while no string is spelled out.  Floats are left out.   *)
(***************************************************************************)
EXTENDS Integers, Sequences, FiniteSets

CONSTANTS
    Alphabet,    \* the tokens texts are made of, in byte order
    Numerals,    \* the token a small integer is displayed as, by integer
    FieldNames,  \* the field names an event may carry
    MaxInt       \* i64::MAX, scaled down

ASSUME AlphabetAssumption ==
    /\ Alphabet \in Seq({Alphabet[i] : i \in DOMAIN Alphabet})
    /\ {"{", ", ", "}", "true", "false", "()", "#"}
          \subseteq {Alphabet[i] : i \in DOMAIN Alphabet}
    /\ \A n \in DOMAIN Numerals :
          Numerals[n] \in {Alphabet[i] : i \in DOMAIN Alphabet}

ASSUME FieldNamesAssumption == IsFiniteSet(FieldNames)

ASSUME MaxIntAssumption == MaxInt \in Nat \ {0}
-----------------------------------------------------------------------------
Token == {Alphabet[i] : i \in DOMAIN Alphabet}
Text == Seq(Token)
MinInt == -MaxInt - 1
I64 == MinInt .. MaxInt

Scalar == ({"int"} \X I64) \cup ({"str"} \X Text)
             \cup ({"bool"} \X BOOLEAN) \cup {<<"unit", 0>>}

\* The fields of one event, some of them absent: the decoders and readers only
\* produce scalars.
Absent == <<"absent", 0>>
EventFields == [FieldNames -> Scalar \cup {Absent}]
Present(fields) == {name \in DOMAIN fields : fields[name] # Absent}

Value == Scalar \cup ({"event"} \X EventFields)
Row == Seq(Value)

Unit == <<"unit", 0>>
Int64(n) == <<"int", n>>
Str(text) == <<"str", text>>
Bool(b) == <<"bool", b>>
Event(fields) == <<"event", fields>>

TypeOf(v) == v[1]
Both(type, l, r) == TypeOf(l) = type /\ TypeOf(r) = type

\* The outcome of an operation: a value, an error (TraceError::Runtime), or a
\* Rust panic, which no error handling of the program sees.
Ok(v) == [tag |-> "ok", value |-> v]
Err == [tag |-> "err", value |-> Unit]
Panic == [tag |-> "panic", value |-> Unit]
Outcome == [tag : {"ok", "err", "panic"}, value : Value]
-----------------------------------------------------------------------------
(* Truth, display and order.                                               *)

\* The unit value is true: so is the missing event field the VM reads as unit.
Truthy(v) ==
    CASE TypeOf(v) = "bool" -> v[2]
      [] TypeOf(v) = "int"  -> v[2] # 0
      [] TypeOf(v) = "str"  -> v[2] # <<>>
      [] OTHER              -> TRUE

\* An integer that has no numeral of its own is displayed as "#", and an event,
\* whose fields display in the arbitrary order of a HashMap, as "{" "}".
TextOf(v) ==
    CASE TypeOf(v) = "str"   -> v[2]
      [] TypeOf(v) = "int"   -> IF v[2] \in DOMAIN Numerals
                                THEN <<Numerals[v[2]]>> ELSE <<"#">>
      [] TypeOf(v) = "bool"  -> IF v[2] THEN <<"true">> ELSE <<"false">>
      [] TypeOf(v) = "event" -> <<"{", "}">>
      [] OTHER               -> <<"()">>

\* row_to_string: "{", the cells separated by ", ", "}".
Cell(row, i) == (IF i = 1 THEN <<>> ELSE <<", ">>) \o TextOf(row[i])

RowText(row) ==
    LET upTo[i \in 0..Len(row)] ==
          IF i = 0 THEN <<"{">> ELSE upTo[i - 1] \o Cell(row, i)
    IN  upTo[Len(row)] \o <<"}">>

Rank(token) == CHOOSE i \in DOMAIN Alphabet : Alphabet[i] = token

TextLess(s, t) ==
    \E n \in 0..Len(s) :
       /\ n < Len(t)
       /\ \A i \in 1..n : s[i] = t[i]
       /\ n = Len(s) \/ Rank(s[n + 1]) < Rank(t[n + 1])

Less(l, r) ==
    CASE Both("int", l, r)  -> l[2] < r[2]
      [] Both("str", l, r)  -> TextLess(l[2], r[2])
      [] Both("bool", l, r) -> ~l[2] /\ r[2]
      [] OTHER              -> FALSE

\* Two events are never equal, not even to themselves.
ValuesEqual(l, r) ==
    TypeOf(l) = TypeOf(r) /\ TypeOf(l) # "event" /\ l[2] = r[2]

\* The VM orders any two values, values of different types as equal ...
VMCompare(op, l, r) ==
    Ok(Bool(CASE op = "Lt"   -> Less(l, r)
              [] op = "Gt"   -> Less(r, l)
              [] op = "LtEq" -> ~Less(r, l)
              [] op = "GtEq" -> ~Less(l, r)))

\* ... and the interpreter only two numbers or two strings.
InterpCompare(op, l, r) ==
    IF Both("int", l, r) \/ Both("str", l, r) THEN VMCompare(op, l, r) ELSE Err
-----------------------------------------------------------------------------
(* Arithmetic.  The release profile has no overflow checks: + - * and the  *)
(* negation wrap.  Division and remainder check in every profile: a zero   *)
(* divisor is an error of / and a panic of %, and MinInt by -1 a panic.    *)

Wrap(n) == ((n + MaxInt + 1) % (2 * MaxInt + 2)) - MaxInt - 1

Abs(n) == IF n < 0 THEN -n ELSE n
Quotient(a, b) ==
    IF (a < 0) = (b < 0) THEN Abs(a) \div Abs(b) ELSE -(Abs(a) \div Abs(b))
Remainder(a, b) == IF a < 0 THEN -(Abs(a) % Abs(b)) ELSE a % Abs(b)

Arith(op, l, r) ==
    IF Both("int", l, r)
    THEN Ok(Int64(Wrap(CASE op = "Add" -> l[2] + r[2]
                         [] op = "Sub" -> l[2] - r[2]
                         [] op = "Mul" -> l[2] * r[2])))
    ELSE IF op = "Add" /\ Both("str", l, r) THEN Ok(Str(l[2] \o r[2])) ELSE Err

Overflows(l, r) == l[2] = MinInt /\ r[2] = -1

Div(l, r) ==
    IF ~Both("int", l, r) \/ r[2] = 0 THEN Err
    ELSE IF Overflows(l, r) THEN Panic ELSE Ok(Int64(Quotient(l[2], r[2])))

Mod(l, r) ==
    IF ~Both("int", l, r) THEN Err
    ELSE IF r[2] = 0 \/ Overflows(l, r) THEN Panic
    ELSE Ok(Int64(Remainder(l[2], r[2])))

Occurs(needle, text) ==
    \E i \in 0..(Len(text) - Len(needle)) :
       SubSeq(text, i + 1, i + Len(needle)) = needle

Holds(l, r) ==
    IF TypeOf(l) = "str" THEN Ok(Bool(Occurs(TextOf(r), l[2]))) ELSE Err

Comparisons == {"Lt", "Gt", "LtEq", "GtEq"}
BinaryOps == {"Add", "Sub", "Mul", "Div", "Mod", "Eq", "NotEq", "And", "Or",
              "Contains"} \cup Comparisons

\* Both operands of "and" and "or" are evaluated before the operator is.
BinaryOp(op, l, r) ==
    CASE op \in {"Add", "Sub", "Mul"} -> Arith(op, l, r)
      [] op = "Div"      -> Div(l, r)
      [] op = "Mod"      -> Mod(l, r)
      [] op = "Eq"       -> Ok(Bool(ValuesEqual(l, r)))
      [] op = "NotEq"    -> Ok(Bool(~ValuesEqual(l, r)))
      [] op = "And"      -> Ok(Bool(Truthy(l) /\ Truthy(r)))
      [] op = "Or"       -> Ok(Bool(Truthy(l) \/ Truthy(r)))
      [] op = "Contains" -> Holds(l, r)
      [] OTHER           -> VMCompare(op, l, r)

UnaryOps == {"Not", "Neg"}

UnaryOp(op, v) ==
    CASE op = "Not" -> Ok(Bool(~Truthy(v)))
      [] OTHER      -> IF TypeOf(v) = "int" THEN Ok(Int64(Wrap(-v[2]))) ELSE Err
=============================================================================
