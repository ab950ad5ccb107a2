------------------------------- MODULE Writing ------------------------------
(***************************************************************************)
(* How scripts are written: a tree as its tokens, by the grammar and the   *)
(* table of precedences in docs/language_spec.md (sections 3 to 8) with no *)
(* more brackets than these ask for, and tokens as characters, with some   *)
(* space between them or no more than it takes to tell them apart.         *)
(***************************************************************************)
EXTENDS Lexer, Parser

Between(pieces, mark) ==
    FoldLeft(LAMBDA done, p : IF done = <<>> THEN p ELSE done \o <<Sym(mark)>> \o p,
             <<>>, pieces)

\* "or" binds least, then "and", == and the like, < and the like, + and -, * and
\* the like; then the unary operators, then fields and calls.
Mark(op) == CHOOSE m \in DOMAIN OpNames : OpNames[m] = op
Binding(x) ==
    CASE x.kind = "binary" -> CHOOSE n \in DOMAIN Levels : Mark(x.op) \in Levels[n]
      [] x.kind = "unary"  -> 7
      [] OTHER             -> 8

RECURSIVE Expr(_), Block(_), Stmt(_)

Within(x, least) ==
    IF Binding(x) >= least THEN Expr(x) ELSE <<Sym("(")>> \o Expr(x) \o <<Sym(")")>>

List(xs) ==
    <<Sym("(")>> \o Between([i \in DOMAIN xs |-> Expr(xs[i])], ",") \o <<Sym(")")>>

Expr(x) ==
    CASE x.kind = "literal" -> <<Literal(x.value)>>
      [] x.kind = "name"    -> <<NameToken(x.name)>>
      [] x.kind = "binary"  ->
           Within(x.left, Binding(x)) \o <<Sym(Mark(x.op))>>
              \o Within(x.right, Binding(x) + 1)
      [] x.kind = "unary"   ->
           <<Sym(IF x.op = "Not" THEN "!" ELSE "-")>> \o Within(x.arg, 7)
      [] x.kind = "call"    -> <<NameToken(x.name)>> \o List(x.args)
      [] x.kind = "field"   -> Within(x.object, 8) \o <<Sym("."), NameToken(x.field)>>
      [] x.kind = "index"   ->
           <<NameToken(x.table), Sym("[")>> \o Expr(x.index) \o <<Sym("]")>>

Stmt(s) ==
    CASE s.kind = "let"    -> <<Sym("let"), NameToken(s.name), Sym("=")>> \o Expr(s.value)
      [] s.kind = "assign" -> <<NameToken(s.name), Sym("=")>> \o Expr(s.value)
      [] s.kind = "do"     -> Expr(s.call)
      [] s.kind = "indexassign" ->
           <<NameToken(s.table), Sym("[")>> \o Expr(s.index)
              \o <<Sym("]"), Sym("."), NameToken(s.field), Sym("=")>> \o Expr(s.value)
      [] s.kind = "if" ->
           <<Sym("if")>> \o Expr(s.condition) \o Block(s.then)
              \o (IF s.else = <<>> THEN <<>> ELSE <<Sym("else")>> \o Block(s.else))
      [] s.kind = "for" ->
           <<Sym("for"), NameToken(s.var), Sym("in"), NameToken(s.table)>> \o Block(s.body)
      [] s.kind = "insert" -> <<Sym("insert"), NameToken(s.table)>> \o List(s.values)
      [] s.kind = "alert"  -> <<Sym("alert")>> \o List(s.values)
      [] s.kind = "show"   -> <<Sym("show"), NameToken(s.table)>>
      [] s.kind = "export" ->
           <<Sym("export"), NameToken(s.table), Sym("to"), Literal(Str(s.path))>>
      [] s.kind = "print"  -> <<Sym("print")>> \o Expr(s.value)
      [] s.kind = "return" ->
           <<Sym("return")>> \o (IF s.value = Nothing THEN <<>> ELSE Expr(s.value))

Block(body) ==
    <<Sym("{")>> \o FlattenSeq([i \in DOMAIN body |-> Stmt(body[i])]) \o <<Sym("}")>>

Decl(d) ==
    CASE d.kind = "source" ->
           <<Sym("source"), IF d.type = "pcap" THEN Sym("pcap") ELSE NameToken(<<d.type>>),
             Literal(Str(d.path))>>
      [] d.kind = "table" ->
           <<Sym("table"), NameToken(d.name), Sym("{")>>
              \o Between([i \in DOMAIN d.columns |->
                            <<NameToken(d.columns[i][1]), Sym(":"),
                              NameToken(d.columns[i][2])>>], ",")
              \o <<Sym("}")>>
      [] d.kind = "on" ->
           <<Sym("on"), NameToken(d.name), Sym("("), NameToken(d.param), Sym(")")>>
              \o Block(d.body)
      [] d.kind = "finish" -> <<Sym("after"), Sym("finish")>> \o Block(d.body)
      [] d.kind = "function" ->
           <<Sym("function"), NameToken(d.name), Sym("(")>>
              \o Between([i \in DOMAIN d.params |-> <<NameToken(d.params[i])>>], ",")
              \o <<Sym(")")>> \o Block(d.body)

ScriptTokens(decls) == FlattenSeq([i \in DOMAIN decls |-> Decl(decls[i])])
-----------------------------------------------------------------------------
(* Characters.                                                             *)

RECURSIVE Numeral(_)
Numeral(n) ==
    IF n < 10 THEN <<Numerals[n]>> ELSE Numeral(n \div 10) \o <<Numerals[n % 10]>>

\* A text may go on over a line end as it is.
Quoted(text) ==
    LET escape(c) == IF c \in {Escapes[e] : e \in DOMAIN Escapes} \ {Newline}
                     THEN <<Escape, CHOOSE e \in DOMAIN Escapes : Escapes[e] = c>>
                     ELSE <<c>>
    IN  <<Quote>> \o FlattenSeq([i \in DOMAIN text |-> escape(text[i])]) \o <<Quote>>

Reserved == {Keywords[k] : k \in DOMAIN Keywords}
Spelled(t) ==
    CASE t \in Reserved -> CHOOSE k \in DOMAIN Keywords : Keywords[k] = t
      [] t \notin Reserved /\ t[1] = "name" -> t[2]
      [] t[1] = "literal" /\ t[2][1] = "int" -> Numeral(t[2][2])
      [] t[1] = "literal" /\ t[2][1] = "str" -> Quoted(t[2][2])
      [] t[1] = "literal" /\ t[2][1] = "float" -> t[2][2]
      [] t[1] = "key" /\ t[2] \in {Doubled[c] : c \in DOMAIN Doubled} ->
           <<CHOOSE c \in DOMAIN Doubled : Doubled[c] = t[2], "=">>
      [] OTHER -> <<t[2]>>

\* Two tokens that would be read as something else with nothing between them.
Touch(t, u) ==
    LET end == Last(Spelled(t))
        next == Head(Spelled(u))
        word == Letters \cup Digits
    IN  \/ end \in word /\ next \in word
        \/ end = "." /\ next \in Digits
        \/ end \in DOMAIN Doubled /\ next = "="

\* With this between all tokens, or with nothing but what it takes.
Laid(tokens, gap) ==
    LET gaps(i) == IF gap # <<>> THEN gap
                   ELSE IF i < Len(tokens) /\ Touch(tokens[i], tokens[i + 1]) THEN <<" ">>
                   ELSE <<>>
    IN  FlattenSeq([i \in DOMAIN tokens |-> Spelled(tokens[i]) \o gaps(i)])
=============================================================================
