------------------------------ MODULE Scripts -------------------------------
(***************************************************************************)
(* TraceScript programs for the model checker to run: constructors for the *)
(* syntax trees Codegen and Interp read, the vocabulary the scripts share, *)
(* and families of scripts built from small sets of handler and function   *)
(* bodies.                                                                 *)
(***************************************************************************)
EXTENDS Integers, Sequences

\* Tokens in byte order.
ScriptAlphabet ==
    <<"#", "()", ", ", "0", "1", "2", "3", "4", "5", "6", "7", "8", "9",
      "A", "B", "a", "b", "contains", "count", "e", "ends_with", "f", "false",
      "filter", "g", "k", "len", "m", "now", "p", "q", "r", "s", "sort",
      "starts_with", "substring", "t", "to_string", "true", "v", "w", "x",
      "y", "z", "{", "}">>
ScriptNumerals ==
    [n \in 0..9 |-> <<"0", "1", "2", "3", "4", "5", "6", "7", "8", "9">>[n + 1]]
ScriptFieldNames == {<<"k">>, <<"m">>}
ScriptMaxInt == 127
ScriptNow == 100
ScriptBadPaths == {<<"p">>}
ScriptRoom == [path \in {<<"w">>} |-> 2]     \* the header and one row

Lit(v) == [kind |-> "literal", value |-> v]
I(n) == Lit(<<"int", n>>)
S(token) == Lit(<<"str", <<token>>>>)
B(b) == Lit(<<"bool", b>>)
Id(n) == [kind |-> "name", name |-> <<n>>]
Bin(l, op, r) == [kind |-> "binary", op |-> op, left |-> l, right |-> r]
Un(op, x) == [kind |-> "unary", op |-> op, arg |-> x]
Fn(f, args) == [kind |-> "call", name |-> <<f>>, args |-> args]
Dot(x, f) == [kind |-> "field", object |-> x, field |-> <<f>>]
At(t, x) == [kind |-> "index", table |-> <<t>>, index |-> x]

Let(n, x) == [kind |-> "let", name |-> <<n>>, value |-> x]
Assign(n, x) == [kind |-> "assign", name |-> <<n>>, value |-> x]
SetCell(t, i, f, x) == [kind |-> "indexassign", table |-> <<t>>, index |-> i,
                        field |-> <<f>>, value |-> x]
If(c, a, b) == [kind |-> "if", condition |-> c, then |-> a, else |-> b]
For(n, t, body) == [kind |-> "for", var |-> <<n>>, table |-> <<t>>,
                    body |-> body]
Ins(t, xs) == [kind |-> "insert", table |-> <<t>>, values |-> xs]
Warn(xs) == [kind |-> "alert", values |-> xs]
Show(t) == [kind |-> "show", table |-> <<t>>]
Exp(t, p) == [kind |-> "export", table |-> <<t>>, path |-> <<p>>]
Say(x) == [kind |-> "print", value |-> x]
Do(f, args) == [kind |-> "do", call |-> Fn(f, args)]
Ret(x) == [kind |-> "return", value |-> x]

\* Two tables, A(x) and B(x, y); functions f(v) and g(v); a handler for the
\* event q, whose parameter is e; and the finish handler.
Script(f, g, q, finish) ==
    [tables |-> <<[name |-> <<"A">>, columns |-> <<<<"x">>>>],
                  [name |-> <<"B">>, columns |-> <<<<"x">>, <<"y">>>>]>>,
     functions |-> <<[name |-> <<"f">>, params |-> <<<<"v">>>>, body |-> f],
                     [name |-> <<"g">>, params |-> <<<<"v">>>>, body |-> g]>>,
     event_handlers |-> <<[name |-> <<"q">>, param |-> <<"e">>, body |-> q]>>,
     finish_handlers |-> <<[body |-> finish]>>]

\* The events of the input: two for q, of which one lacks the field m, and one
\* that has no handler.
Fields(k, m) == [n \in ScriptFieldNames |-> IF n = <<"k">> THEN k ELSE m]
EventA == [name |-> <<"q">>, fields |-> Fields(<<"str", <<"a">>>>, <<"int", 1>>)]
EventB == [name |-> <<"q">>, fields |-> Fields(<<"str", <<"b">>>>, <<"absent", 0>>)]
EventZ == [name |-> <<"z">>, fields |-> Fields(<<"str", <<"a">>>>, <<"absent", 0>>)]
-----------------------------------------------------------------------------
(* Reading a tree: the nodes of an expression, statement or block, and the *)
(* nodes of the functions it calls.  No script here is recursive, and none *)
(* calls deeper than f to g.                                               *)

\* The operands a node evaluates, in the order the compiled code pushes them.
OperandsOf(x) ==
    CASE x.kind = "binary" -> <<x.left, x.right>>
      [] x.kind = "unary"  -> <<x.arg>>
      [] x.kind = "call"   -> x.args
      [] x.kind = "field"  -> <<x.object>>
      [] x.kind = "index"  -> <<x.index>>
      [] x.kind = "indexassign" -> <<x.value, x.index>>
      [] x.kind \in {"let", "assign", "print", "return"} -> <<x.value>>
      [] x.kind \in {"insert", "alert"} -> x.values
      [] x.kind = "if"     -> <<x.condition>>
      [] x.kind = "do"     -> <<x.call>>
      [] OTHER             -> <<>>

\* The blocks of a statement.
BlocksOf(x) ==
    CASE x.kind = "if"  -> x.then \o x.else
      [] x.kind = "for" -> x.body
      [] OTHER          -> <<>>

RECURSIVE Nodes(_)
Nodes(x) ==
    LET parts == OperandsOf(x) \o BlocksOf(x)
    IN  {x} \cup UNION {Nodes(parts[i]) : i \in DOMAIN parts}

NodesIn(block) == UNION {Nodes(block[i]) : i \in DOMAIN block}

Callee(p, name) == {i \in DOMAIN p.functions : p.functions[i].name = name}
BodyNodes(p, nodes) ==
    nodes \cup UNION {UNION {NodesIn(p.functions[i].body) :
                               i \in Callee(p, x.name)} :
                        x \in {n \in nodes : n.kind = "call"}}

\* The nodes that run when these do.
Reached(p, nodes) == BodyNodes(p, BodyNodes(p, nodes))

Bodies(p) == {p.functions[i].body : i \in DOMAIN p.functions}
                \cup {p.event_handlers[i].body : i \in DOMAIN p.event_handlers}
                \cup {p.finish_handlers[i].body : i \in DOMAIN p.finish_handlers}
AllNodes(p) == UNION {NodesIn(b) : b \in Bodies(p)}
Loops(nodes) == {n \in nodes : n.kind = "for"}
-----------------------------------------------------------------------------
(* Where the two modes agree.                                              *)

\* Its calls leave values behind on the operand stack: it stores a local.
Leaves(p, f) ==
    \E n \in Reached(p, NodesIn(p.functions[f].body)) :
       n.kind \in {"let", "assign", "for"}

\* No such function is called while an operand waits for its result.
NothingPending(p) ==
    \A n \in AllNodes(p) : \A i \in 2..Len(OperandsOf(n)) :
       \A c \in Reached(p, Nodes(OperandsOf(n)[i])) :
          c.kind = "call" => \A f \in Callee(p, c.name) : ~Leaves(p, f)

\* No loop runs inside another one over the same table.
TablesApart(p) ==
    \A n \in Loops(AllNodes(p)) :
       \A inner \in Loops(Reached(p, NodesIn(n.body))) : inner.table # n.table

\* The row of a cell assignment is written as a number.
RowsNumbered(p) ==
    \A n \in AllNodes(p) : n.kind = "indexassign" =>
       n.index.kind = "literal" /\ n.index.value[1] = "int" /\ n.index.value[2] >= 0

\* No function called from a loop returns from within a loop of its own.
LoopsCompleted(p) ==
    \A n \in Loops(AllNodes(p)) :
       \A c \in Reached(p, NodesIn(n.body)) : c.kind = "call" =>
          \A f \in Callee(p, c.name) :
             \A own \in Loops(NodesIn(p.functions[f].body)) :
                \A r \in NodesIn(own.body) : r.kind # "return"

Agreeable(p) ==
    NothingPending(p) /\ TablesApart(p) /\ LoopsCompleted(p) /\ RowsNumbered(p)
-----------------------------------------------------------------------------
(* The grammar.                                                            *)

K == Dot(Id("e"), "k")
F(x) == Fn("f", <<x>>)
G(x) == Fn("g", <<x>>)
Count(t) == Fn("count", <<S(t)>>)

\* Bodies of g: pure, storing, or looping.
GBodies == {
    <<Ret(Bin(Id("v"), "Add", S("b")))>>,
    <<Let("w", Id("v")), If(Bin(Id("w"), "Eq", S("a")),
                            <<Ret(S("b"))>>, <<Assign("w", S("a"))>>),
      Ret(Id("w"))>>}

\* Bodies of f: pure, with effects, storing, looping, leaving a loop early.
FBodies == {
    <<If(Bin(Id("v"), "Contains", S("a")), <<Ret(G(Id("v")))>>, <<>>)>>,
    <<Ins("A", <<Id("v")>>), Ret(Id("v"))>>,
    <<Let("w", G(Id("v"))), Ins("B", <<Id("w"), Count("A")>>), Ret(Id("w"))>>,
    <<For("r", "B", <<Ins("A", <<Id("r")>>)>>)>>,
    <<For("r", "B", <<Ret(Id("r"))>>), Ret(Id("v"))>>}

\* First and second statement of the handler.
Firsts == {
    Ins("A", <<K>>),
    Ins("B", <<F(K), Count("A")>>),
    Ins("B", <<K, F(K)>>),
    Let("w", F(K)),
    Do("f", <<K>>)}
Seconds == {
    For("r", "A", <<Ins("A", <<Id("r")>>), Do("f", <<Id("r")>>)>>),
    For("r", "A", <<For("s", "B", <<Warn(<<Id("r"), Id("s")>>)>>)>>),
    For("r", "A", <<Let("w", G(Id("r"))), Warn(<<Id("w")>>)>>),
    For("r", "A", <<For("s", "A", <<Warn(<<Id("r"), Id("s")>>)>>)>>),
    If(Bin(Count("B"), "Gt", I(1)), <<Do("filter", <<S("B"), S("x"), S("a")>>)>>,
       <<SetCell("A", I(0), "x", G(K))>>),
    Say(Bin(At("A", Bin(Count("A"), "Sub", I(1))), "Add", F(K))),
    Do("sort", <<S("B"), S("x")>>)}
Finishes == {
    <<For("r", "B", <<Say(Id("r"))>>), Show("A"), Exp("A", "w"), Exp("B", "q")>>,
    <<Say(Bin(I(7), "Div", Bin(Count("A"), "Sub", Count("B")))),
      Say(Bin(Un("Neg", I(7)), "Mod", Count("A"))), Exp("A", "p")>>}

Grammar ==
    {Script(f, g, <<a, b>>, fin) :
        f \in FBodies, g \in GBodies, a \in Firsts, b \in Seconds,
        fin \in Finishes}

AgreeableScripts == {p \in Grammar : Agreeable(p)}

\* Handlers that bind names in some branches only, and may use them in others.
FromA == Bin(K, "Eq", S("a"))
Scoping == {
    Let("x", I(1)), Let("y", Id("x")), Assign("x", K), Say(Id("x")), Say(Id("y")),
    If(FromA, <<Let("x", I(2))>>, <<Let("y", I(3)), Assign("y", I(4))>>),
    If(FromA, <<Let("y", K), Ins("A", <<Id("y")>>)>>, <<Say(Id("e"))>>),
    For("x", "A", <<Let("y", Id("x")), Say(Id("y"))>>)}
ScopingScripts ==
    {Script(<<Let("w", Id("v")), Ret(Id("w"))>>, <<>>, <<Ins("A", <<K>>), s, t, u>>, <<>>) :
        s, t, u \in Scoping}
-----------------------------------------------------------------------------
(* Where the two modes part: the scripts of the grammar that break just one  *)
(* condition, and scripts outside it, each about one thing.                  *)

PendingScripts ==
    {p \in Grammar : ~NothingPending(p) /\ TablesApart(p) /\ LoopsCompleted(p)}
NestedLoopScripts ==
    {p \in Grammar : NothingPending(p) /\ ~TablesApart(p) /\ LoopsCompleted(p)}

\* A row of A, two of B: each call of f starts its loop anew, and leaves it to its caller.
EndlessScripts ==
    {Script(<<For("r", "B", <<Ret(Id("r"))>>), Ret(Id("v"))>>, <<>>,
            <<Ins("B", <<K, K>>), Ins("B", <<K, K>>), Ins("A", <<K>>),
              For("r", "A", <<Warn(<<F(Id("r"))>>)>>)>>, <<>>)}

\* A cell assignment whose row and value are both to be printed.
CellScripts ==
    {Script(<<Say(Id("v")), Ret(Id("v"))>>, <<>>,
            <<Ins("A", <<K>>), SetCell("A", F(I(0)), "x", F(I(1)))>>, <<>>)}

\* A handler that is all there is to the script.
Only(body) == {Script(<<>>, <<>>, body, <<>>)}

RemainderScripts == Only(<<Say(Bin(I(7), "Mod", Count("A")))>>)
=============================================================================
