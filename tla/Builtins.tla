------------------------------ MODULE Builtins ------------------------------
(***************************************************************************)
(* The built-in functions (src/interp/builtins.rs): pure functions of      *)
(* their arguments, plus now(), which reads the clock.  lower, upper, trim *)
(* and hash_sha256 map one string to another and take the same path as     *)
(* to_string; they are left out.                                           *)
(***************************************************************************)
EXTENDS Values

CONSTANT Now   \* the second now() reads: the runs never compare two readings

ASSUME NowAssumption == Now \in I64

Smaller(a, b) == IF a < b THEN a ELSE b
Larger(a, b) == IF a < b THEN b ELSE a

BuiltinNames == {<<"len">>, <<"to_string">>, <<"now">>, <<"contains">>,
                 <<"starts_with">>, <<"ends_with">>, <<"substring">>}

\* The number of operands the VM takes for a built-in: one for now() as well,
\* which scripts call with no argument.
Arity(name) ==
    CASE name = <<"substring">> -> 3
      [] name \in {<<"contains">>, <<"starts_with">>, <<"ends_with">>} -> 2
      [] OTHER -> 1

Len64(v) ==
    CASE TypeOf(v) = "str"   -> Ok(Int64(Wrap(Len(v[2]))))
      [] TypeOf(v) = "event" -> Ok(Int64(Wrap(Cardinality(Present(v[2])))))
      [] OTHER               -> Err

StartsWith(s, prefix) ==
    Len(prefix) <= Len(s) /\ SubSeq(s, 1, Len(prefix)) = prefix
EndsWith(s, suffix) ==
    /\ Len(suffix) <= Len(s)
    /\ SubSeq(s, Len(s) - Len(suffix) + 1, Len(s)) = suffix

\* Characters start .. start + count - 1 of s, counted from zero; a negative
\* start or count is taken as zero and the end clipped to the text.
Substring(s, start, count) ==
    SubSeq(s, Larger(start, 0) + 1,
           Smaller(Larger(start, 0) + Larger(count, 0), Len(s)))

\* A test on two strings.
StringTest(name, s, t) ==
    CASE name = <<"starts_with">> -> StartsWith(s, t)
      [] name = <<"ends_with">>   -> EndsWith(s, t)
      [] OTHER                    -> Occurs(t, s)

\* try_call: the argument count is checked first (now() takes any number), then
\* the argument types.
Builtin(name, args) ==
    CASE name = <<"now">> -> Ok(Int64(Now))
      [] name # <<"now">> /\ Len(args) # Arity(name) -> Err
      [] name = <<"len">> /\ Len(args) = 1 -> Len64(args[1])
      [] name = <<"to_string">> /\ Len(args) = 1 -> Ok(Str(TextOf(args[1])))
      [] name = <<"substring">> /\ Len(args) = 3 ->
            IF TypeOf(args[1]) = "str" /\ Both("int", args[2], args[3])
            THEN Ok(Str(Substring(args[1][2], args[2][2], args[3][2])))
            ELSE Err
      [] OTHER ->
            IF Both("str", args[1], args[2])
            THEN Ok(Bool(StringTest(name, args[1][2], args[2][2])))
            ELSE Err
=============================================================================
