------------------------------- MODULE Parser -------------------------------
(***************************************************************************)
(* The parser of scripts (src/parser.rs), from tokens (see Lexer; without  *)
(* the last one, which marks the end) to the trees the other modules read. *)
(***************************************************************************)
EXTENDS Descent, SequencesExt

CONSTANT TypeNames   \* the types a column may have

IsA(tokens, class) == tokens # <<>> /\ Head(tokens)[1] = class
IsKey(tokens, keys) == IsA(tokens, "key") /\ Head(tokens)[2] \in keys

-----------------------------------------------------------------------------
RECURSIVE Part(_, _), ParseExpression(_), ParseLevel(_, _), MoreAt(_, _),
          ParseUnary(_), DotFields(_), Postfix(_), Listed(_, _), ParseBlock(_, _),
          ParseColumns(_, _), ParseStatement(_)

\* The parts of a rule in their order: keywords and marks stand for themselves,
\* each of the others leaves a tree.
Parts(rule, tokens) ==
    FoldLeft(LAMBDA done, part :
                After(done, LAMBDA trees, rest :
                   Tree(Part(part, rest), LAMBDA t : trees \o t)),
             Parsed(<<>>, tokens), rule)

Single(p) == Tree(p, LAMBDA t : <<t>>)

OfClass(class, tokens) ==
    IF IsA(tokens, class) THEN Parsed(Head(tokens)[2], Tail(tokens)) ELSE Malformed

\* A string literal.
ParseText(tokens) ==
    IF IsA(tokens, "literal") /\ Head(tokens)[2][1] = "str"
    THEN Parsed(Head(tokens)[2][2], Tail(tokens)) ELSE Malformed

Part(part, tokens) ==
    CASE part = "name"       -> Single(OfClass("name", tokens))
      [] part = "text"       -> Single(ParseText(tokens))
      [] part = "expression" -> Single(ParseExpression(tokens))
      [] part = "arguments"  -> Single(IF IsKey(tokens, {")"}) THEN Parsed(<<>>, tokens)
                                       ELSE Listed("expression", tokens))
      [] part = "parameters" -> Single(IF IsKey(tokens, {")"}) THEN Parsed(<<>>, tokens)
                                       ELSE Listed("name", tokens))
      [] part = "block"      -> Single(After(Parts(<<"{">>, tokens),
                                             LAMBDA none, rest : ParseBlock(<<>>, rest)))
      [] part = "columns"    -> Single(ParseColumns(<<>>, tokens))
      [] OTHER -> IF IsKey(tokens, {part}) THEN Parsed(<<>>, Tail(tokens)) ELSE Malformed

\* One or more, separated by commas.
Listed(part, tokens) ==
    After(Part(part, tokens), LAMBDA first, rest :
       IF IsKey(rest, {","})
       THEN Tree(Listed(part, Tail(rest)), LAMBDA others : first \o others)
       ELSE Parsed(first, rest))
-----------------------------------------------------------------------------
(* Expressions, in increasing precedence.                                  *)

Levels == <<{"or"}, {"and"}, {"==", "!="}, {"<", ">", "<=", ">=", "contains"},
            {"+", "-"}, {"*", "/", "%"}>>
OpNames == ("or" :> "Or") @@ ("and" :> "And") @@ ("==" :> "Eq") @@ ("!=" :> "NotEq")
   @@ ("<" :> "Lt") @@ (">" :> "Gt") @@ ("<=" :> "LtEq") @@ (">=" :> "GtEq")
   @@ ("contains" :> "Contains") @@ ("+" :> "Add") @@ ("-" :> "Sub")
   @@ ("*" :> "Mul") @@ ("/" :> "Div") @@ ("%" :> "Mod")

BinaryTree(l, op, r) == [kind |-> "binary", op |-> OpNames[op], left |-> l, right |-> r]
UnaryTree(op, x) == [kind |-> "unary", op |-> op, arg |-> x]
CallTree(name, args) == [kind |-> "call", name |-> name, args |-> args]
FieldTree(x, field) == [kind |-> "field", object |-> x, field |-> field]
IndexTree(table, x) == [kind |-> "index", table |-> table, index |-> x]

ParseExpression(tokens) == ParseLevel(1, tokens)

ParseLevel(n, tokens) ==
    IF n > Len(Levels) THEN ParseUnary(tokens) ELSE MoreAt(n, ParseLevel(n + 1, tokens))

\* Mutation of MoreAt: what follows the operator is all its right side.
MoreToTheRight(n, left) ==
    After(left, LAMBDA l, rest :
       IF IsKey(rest, Levels[n])
       THEN Tree(ParseLevel(n, Tail(rest)), LAMBDA r : BinaryTree(l, Head(rest)[2], r))
       ELSE left)

MoreAt(n, left) ==
    After(left, LAMBDA l, rest :
       IF IsKey(rest, Levels[n])
       THEN MoreAt(n, Tree(ParseLevel(n + 1, Tail(rest)),
                           LAMBDA r : BinaryTree(l, Head(rest)[2], r)))
       ELSE left)

ParsePrimary(tokens) ==
    CASE IsA(tokens, "literal") ->
           Parsed([kind |-> "literal", value |-> Head(tokens)[2]], Tail(tokens))
      [] IsA(tokens, "name") ->
           Parsed([kind |-> "name", name |-> Head(tokens)[2]], Tail(tokens))
      [] IsKey(tokens, {"("}) ->
           Tree(Parts(<<"(", "expression", ")">>, tokens), LAMBDA v : v[1])
      [] OTHER -> Malformed

DotFields(p) ==
    After(p, LAMBDA x, rest :
       IF IsKey(rest, {"."})
       THEN DotFields(Tree(OfClass("name", Tail(rest)), LAMBDA f : FieldTree(x, f))) ELSE p)

\* Only a name can be called: brackets around it make no difference.
Postfix(p) ==
    After(p, LAMBDA x, rest :
       CASE IsKey(rest, {"."}) ->
              Postfix(Tree(OfClass("name", Tail(rest)), LAMBDA f : FieldTree(x, f)))
         [] IsKey(rest, {"("}) ->
              After(Parts(<<"(", "arguments", ")">>, rest), LAMBDA v, after :
                 IF x.kind = "name" THEN Postfix(Parsed(CallTree(x.name, v[1]), after))
                 ELSE Malformed)
         [] OTHER -> p)

ParseUnary(tokens) ==
    CASE IsKey(tokens, {"!"}) -> Tree(ParseUnary(Tail(tokens)), LAMBDA x : UnaryTree("Not", x))
      [] IsKey(tokens, {"-"}) -> Tree(ParseUnary(Tail(tokens)), LAMBDA x : UnaryTree("Neg", x))
      [] IsA(tokens, "name") /\ IsKey(Tail(tokens), {"["}) ->
           DotFields(Tree(Parts(<<"name", "[", "expression", "]">>, tokens),
                       LAMBDA v : IndexTree(v[1], v[2])))
      [] OTHER -> Postfix(ParsePrimary(tokens))
-----------------------------------------------------------------------------
(* Statements: no separator is between them.                               *)

Rules == [
    let    |-> <<"let", "name", "=", "expression">>,
    for    |-> <<"for", "name", "in", "name", "block">>,
    insert |-> <<"insert", "name", "(", "arguments", ")">>,
    alert  |-> <<"alert", "(", "arguments", ")">>,
    show   |-> <<"show", "name">>,
    export |-> <<"export", "name", "to", "text">>,
    print  |-> <<"print", "expression">>]

Statement(word, v) ==
    CASE word = "let"    -> [kind |-> "let", name |-> v[1], value |-> v[2]]
      [] word = "for"    -> [kind |-> "for", var |-> v[1], table |-> v[2], body |-> v[3]]
      [] word = "insert" -> [kind |-> "insert", table |-> v[1], values |-> v[2]]
      [] word = "alert"  -> [kind |-> "alert", values |-> v[1]]
      [] word = "show"   -> [kind |-> "show", table |-> v[1]]
      [] word = "export" -> [kind |-> "export", table |-> v[1], path |-> v[2]]
      [] word = "print"  -> [kind |-> "print", value |-> v[1]]

\* A statement that begins with a name: what follows tells which.
ParseNamed(tokens) ==
    CASE IsKey(Tail(tokens), {"="}) ->
           Tree(Parts(<<"name", "=", "expression">>, tokens), LAMBDA v :
                [kind |-> "assign", name |-> v[1], value |-> v[2]])
      [] IsKey(Tail(tokens), {"("}) ->
           Tree(Parts(<<"name", "(", "arguments", ")">>, tokens), LAMBDA v :
                [kind |-> "do", call |-> CallTree(v[1], v[2])])
      [] IsKey(Tail(tokens), {"["}) ->
           Tree(Parts(<<"name", "[", "expression", "]", ".", "name", "=", "expression">>,
                      tokens), LAMBDA v :
                [kind |-> "indexassign", table |-> v[1], index |-> v[2],
                 field |-> v[3], value |-> v[4]])
      [] OTHER -> Malformed

\* An absent else branch and an empty one do the same.
ParseIf(tokens) ==
    After(Parts(<<"if", "expression", "block">>, tokens), LAMBDA v, rest :
       Tree(IF IsKey(rest, {"else"}) THEN Parts(<<"else", "block">>, rest)
            ELSE Parsed(<<<<>>>>, rest),
            LAMBDA e : [kind |-> "if", condition |-> v[1], then |-> v[2], else |-> e[1]]))

\* Nothing to return is the unit value, which no expression is written as.  Where
\* the lexer makes no newline tokens, only "}" or the end shows that there is none.
Nothing == [kind |-> "literal", value |-> <<"unit", 0>>]

ParseReturn(tokens) ==
    IF tokens = <<>> \/ IsKey(tokens, {"}"})
    THEN Parsed([kind |-> "return", value |-> Nothing], tokens)
    ELSE Tree(ParseExpression(tokens), LAMBDA x : [kind |-> "return", value |-> x])

ParseStatement(tokens) ==
    CASE IsA(tokens, "name")          -> ParseNamed(tokens)
      [] IsKey(tokens, {"if"})        -> ParseIf(tokens)
      [] IsKey(tokens, {"return"})    -> ParseReturn(Tail(tokens))
      [] IsKey(tokens, DOMAIN Rules)  ->
           Tree(Parts(Rules[Head(tokens)[2]], tokens),
                LAMBDA v : Statement(Head(tokens)[2], v))
      [] OTHER -> Malformed

\* Statements up to the closing brace.
ParseBlock(before, tokens) ==
    IF IsKey(tokens, {"}"}) THEN Parsed(before, Tail(tokens))
    ELSE After(ParseStatement(tokens),
               LAMBDA s, rest : ParseBlock(Append(before, s), rest))
-----------------------------------------------------------------------------
(* Declarations.                                                           *)

\* Columns up to the closing brace; the commas between them may be left out.
ParseColumns(before, tokens) ==
    IF IsKey(tokens, {"}"}) THEN Parsed(before, tokens)
    ELSE After(Parts(<<"name", ":", "name">>, tokens), LAMBDA v, rest :
            IF v[2] \in TypeNames
            THEN ParseColumns(Append(before, v),
                              IF IsKey(rest, {","}) THEN Tail(rest) ELSE rest)
            ELSE Malformed)

\* "pcap" is a keyword, the other types are names.
ParseSource(tokens) ==
    LET types == (<<"jsonl">> :> "jsonl") @@ (<<"ndjson">> :> "jsonl") @@ (<<"csv">> :> "csv")
        type == IF IsKey(tokens, {"pcap"}) THEN Parsed("pcap", Tail(tokens))
                ELSE IF IsA(tokens, "name") /\ Head(tokens)[2] \in DOMAIN types
                THEN Parsed(types[Head(tokens)[2]], Tail(tokens)) ELSE Malformed
    IN  After(type, LAMBDA t, rest :
           Tree(ParseText(rest), LAMBDA p : [kind |-> "source", type |-> t, path |-> p]))

ParseDeclaration(tokens) ==
    CASE IsKey(tokens, {"source"}) -> ParseSource(Tail(tokens))
      [] IsKey(tokens, {"table"}) ->
           Tree(Parts(<<"table", "name", "{", "columns", "}">>, tokens), LAMBDA v :
                [kind |-> "table", name |-> v[1], columns |-> v[2]])
      [] IsKey(tokens, {"on"}) ->
           Tree(Parts(<<"on", "name", "(", "name", ")", "block">>, tokens), LAMBDA v :
                [kind |-> "on", name |-> v[1], param |-> v[2], body |-> v[3]])
      [] IsKey(tokens, {"after"}) ->
           Tree(Parts(<<"after", "finish", "block">>, tokens), LAMBDA v :
                [kind |-> "finish", body |-> v[1]])
      [] IsKey(tokens, {"function"}) ->
           Tree(Parts(<<"function", "name", "(", "parameters", ")", "block">>, tokens),
                LAMBDA v : [kind |-> "function", name |-> v[1], params |-> v[2],
                            body |-> v[3]])
      [] OTHER -> Malformed

RECURSIVE ParseProgram(_, _)
ParseProgram(before, tokens) ==
    IF tokens = <<>> THEN Parsed(before, tokens)
    ELSE After(ParseDeclaration(tokens),
               LAMBDA d, rest : ParseProgram(Append(before, d), rest))
=============================================================================
