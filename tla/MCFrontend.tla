----------------------------- MODULE MCFrontend -----------------------------
(* The runs of Frontend and Repl: "tracescript run" on a script, or         *)
(* "tracescript repl".  Names and keywords are of one letter each, or two.  *)
EXTENDS Frontend, Scripts

VARIABLE command   \* "run" or "repl"

Words == {"let", "if", "else", "for", "in", "insert", "alert", "show", "export",
          "to", "print", "return", "function", "table", "on", "after", "finish",
          "source", "pcap", "and", "or", "contains"}
ScriptKeywords ==
    [k \in {<<w>> : w \in Words \cup {"true", "false"}} |->
        IF k[1] \in Words THEN Sym(k[1]) ELSE Literal(Bool(k[1] = "true"))]
ScriptLetters ==
    Words \cup {"true", "false", "_", "n", "t", "r", "x", "y", "A", "B", "f", "g",
                "q", "e", "k", "v", "w", "r", "p", "count", "len", "string",
                "jsonl", "csv"}
ScriptTypes == {<<"string">>, <<"t">>}
-----------------------------------------------------------------------------
(* Tokens to be spelled: all sequences of up to three of these.            *)

SomeTokens == {
    Sym("if"), NameToken(<<"x">>), NameToken(<<"if", "x">>), NameToken(<<"y", "1">>),
    Literal(Bool(TRUE)), Literal(Int64(7)), Literal(Int64(120)),
    Literal(<<"float", <<"1", ".", "0", "5">>>>),
    Literal(Str(<<"n", Newline, "#">>)), Literal(Str(<<Quote, Escape, Tab>>)),
    Sym("="), Sym("=="), Sym("!"), Sym("<="), Sym("-"), Sym("."), Sym("(")}
Gaps == {<<>>, <<" ">>, <<Newline>>, <<Tab, "#", "x", Quote, Newline, Return>>}
ScriptSources ==
    {<<ts, gap>> : ts \in {<<a, b, c>> : a, b, c \in SomeTokens}, gap \in Gaps}
-----------------------------------------------------------------------------
(* Declarations to be read from their tokens.                              *)

Function(f, params, stmts) ==
    [kind |-> "function", name |-> <<f>>, params |-> params, body |-> stmts]
TableOf(name, columns) == [kind |-> "table", name |-> <<name>>, columns |-> columns]
On(event, stmts) == [kind |-> "on", name |-> <<event>>, param |-> <<"e">>, body |-> stmts]
Finish(stmts) == [kind |-> "finish", body |-> stmts]
X == <<<<"x">>, <<"string">>>>
A == TableOf("A", <<X>>)

\* Trees of up to three operators of different levels, and what binds closer.
Operators == {"Or", "And", "NotEq", "Contains", "Sub", "Mod"}
Near == {Id("x"), Un("Not", Id("x")), Dot(Id("e"), "k"), Fn("f", <<Id("x"), I(1)>>),
         At("A", Bin(I(0), "Or", I(1)))}
Middle == Near \cup {Bin(Id("x"), op, I(1)) : op \in Operators}
Expressions ==
    {Bin(a, op, b) : a \in Middle, op \in Operators, b \in Middle}
       \cup {Un(op, a) : op \in UnaryOps, a \in Middle}
       \cup {Dot(a, "k") : a \in Middle} \cup {Fn("f", <<a, Id("x")>>) : a \in Middle}

Statements == {
    Let("x", I(1)), Assign("x", Id("y")), Do("f", <<>>), SetCell("A", I(0), "x", I(1)),
    If(Id("x"), <<Say(I(1))>>, <<>>), If(Id("x"), <<>>, <<Show("A")>>),
    For("r", "A", <<Ret(I(1))>>), Ins("A", <<I(1), Id("x")>>), Warn(<<>>), Show("A"),
    Exp("A", "p"), Say(Dot(Id("e"), "k")), Ret(Id("x"))}
BareReturn == Ret(Lit(Unit))

Declarations == {
    TableOf("A", <<>>), TableOf("A", <<X, <<<<"y">>, <<"t">>>>>>),
    Function("f", <<>>, <<BareReturn>>),
    Function("f", <<<<"x">>, <<"y">>>>, <<>>), On("q", <<>>), Finish(<<>>),
    [kind |-> "source", type |-> "pcap", path |-> <<"p">>],
    [kind |-> "source", type |-> "csv", path |-> <<>>]}

\* Handlers that may read a name that is not bound, write one that is not
\* declared, or take one thing for another.
Scoped == {
    Let("x", I(1)), Assign("x", I(2)), Say(Id("x")), Say(Id("A")),
    If(Dot(Id("e"), "k"), <<Let("x", I(3))>>, <<>>),
    If(I(0), <<Let("x", I(3)), Say(Id("x"))>>, <<>>),
    If(Id("x"), <<Assign("x", I(0))>>, <<Let("x", I(4))>>),
    For("r", "A", <<Let("x", Id("r")), Ins("A", <<Id("x")>>)>>),
    For("x", "A", <<Say(Id("x"))>>),
    Ins("A", <<I(5)>>), Ins("B", <<I(5)>>), Do("f", <<Id("x")>>), Do("f", <<>>),
    Do("x", <<>>)}
Handler(stmts) == <<A, On("q", stmts), Function("f", <<<<"v">>>>, <<Let("x", Id("v"))>>)>>

ScriptPrograms ==
    {<<Function("g", <<>>, <<Ret(x)>>)>> : x \in Expressions}
       \cup {<<Function("g", <<>>, <<s, t>>)>> : s, t \in Statements}
       \cup {<<c, d>> : c, d \in Declarations}
       \cup {Handler(<<s, t, u>>) : s, t, u \in Scoped}
       \cup {<<A, Finish(<<s, Show("A")>>), On("q", <<t>>)>> : s, t \in Scoped}
-----------------------------------------------------------------------------
(* Lines to be typed.                                                      *)

Line(stmts) == Laid(FlattenSeq([i \in DOMAIN stmts |-> Stmt(stmts[i])]), <<" ">>)
GoodLines ==
    {Line(b) : b \in {
       <<Let("x", I(1))>>,
       <<Let("y", Id("x")), Assign("x", I(2)), Say(Bin(I(7), "Div", I(0)))>>,
       <<Assign("y", Bin(Id("x"), "Add", I(1)))>>, <<Say(Id("y"))>>,
       <<If(Id("x"), <<Let("x", I(0))>>, <<>>), Warn(<<Id("x")>>)>>,
       <<Let("y", I(5)), Ret(Id("x"))>>, <<If(Id("x"), <<Ret(I(1))>>, <<>>)>>,
       <<Let("x", I(3)), Say(Bin(I(7), "Mod", I(0)))>>}}
\* No statements, as the sum that :help offers is none either.
OtherLines == {<<" ">>, <<"#">>, <<"x", "}">>, <<"1", "2", "8">>,
               Laid(Expr(Bin(I(1), "Add", I(2))), <<" ">>)}
ScriptLines == GoodLines \cup OtherLines
-----------------------------------------------------------------------------
NoProgram == [tables |-> <<>>, functions |-> <<>>, event_handlers |-> <<>>,
              finish_handlers |-> <<>>]

MCInit ==
    /\ program = NoProgram /\ Init
    /\ decls = <<>>
    /\ ReplInit
    /\ \/ command = "run" /\ ScriptInit
       \/ /\ command = "repl"
          /\ source = <<>> /\ LexerInit
          /\ stage = "none" /\ tokens = <<>>
          /\ written = [kind |-> "nothing", tokens |-> <<>>, decls |-> <<>>]

MCNext ==
    \/ command = "run" /\ ScriptNext /\ UNCHANGED <<rvars, command>>
    \/ command = "repl" /\ ReplNext
          /\ UNCHANGED <<lvars, fvars, tables, alerts, out, status, events, command>>

MCSpec == MCInit /\ [][MCNext]_<<vars, lvars, fvars, rvars, command>>

TwoEvents == {EventA, EventZ}
=============================================================================
