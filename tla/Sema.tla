-------------------------------- MODULE Sema --------------------------------
(***************************************************************************)
(* The semantic analyser (src/sema.rs): which scripts it lets through.     *)
(* Declarations are collected first, so that bodies may use what is        *)
(* declared after them; the first of several of one name counts, and its   *)
(* duplicates are reported.  Messages and their places are left out.       *)
(***************************************************************************)
EXTENDS Tables, SequencesExt

Declared(decls, kind) == SelectSeq(decls, LAMBDA d : d.kind = kind)
NamesOf(ds) == {ds[i].name : i \in DOMAIN ds}

\* The size of each name's first declaration.
Sizes(ds, Size(_)) ==
    [n \in NamesOf(ds) |-> Size(ds[SelectInSeq(ds, LAMBDA d : d.name = n)])]

\* What the bodies are checked against: the columns of the tables and the
\* parameters of the functions, by name.
Symbols(decls) ==
    [tables    |-> Sizes(Declared(decls, "table"), LAMBDA d : Len(d.columns)),
     functions |-> Sizes(Declared(decls, "function"), LAMBDA d : Len(d.params))]

NoneTwice(ds) == Cardinality(NamesOf(ds)) = Len(ds)

Collected(decls) ==
    /\ \A kind \in {"table", "on", "function"} : NoneTwice(Declared(decls, kind))
    /\ Len(Declared(decls, "source")) <= 1
    /\ Len(Declared(decls, "finish")) <= 1
-----------------------------------------------------------------------------
(* Expressions.  A call of a built-in or host function is not checked, and *)
(* a local may be called: that fails when it runs.                         *)

Resolved(symbols, locals, name) ==
    name \in locals \cup DOMAIN symbols.functions \cup DOMAIN symbols.tables

CallResolves(symbols, locals, name, arity) ==
    \/ name \in BuiltinNames \cup HostNames
    \/ name \in DOMAIN symbols.functions /\ symbols.functions[name] = arity
    \/ name \in locals \ DOMAIN symbols.functions

Subexpressions(x) ==
    CASE x.kind = "binary" -> <<x.left, x.right>>
      [] x.kind = "unary"  -> <<x.arg>>
      [] x.kind = "call"   -> x.args
      [] x.kind = "field"  -> <<x.object>>
      [] x.kind = "index"  -> <<x.index>>
      [] OTHER             -> <<>>

RECURSIVE ValidExpr(_, _, _)
ValidExpr(symbols, locals, x) ==
    /\ x.kind = "name" => Resolved(symbols, locals, x.name)
    /\ x.kind = "call" => CallResolves(symbols, locals, x.name, Len(x.args))
    /\ x.kind = "index" => x.table \in DOMAIN symbols.tables
    /\ \A i \in DOMAIN Subexpressions(x) :
          ValidExpr(symbols, locals, Subexpressions(x)[i])

ValidAll(symbols, locals, xs) == \A i \in DOMAIN xs : ValidExpr(symbols, locals, xs[i])
-----------------------------------------------------------------------------
(* Statements.  Locals go on to the next statement of the block; a branch  *)
(* and the body of a loop have a copy of their own.                        *)

Operands(s) ==
    CASE s.kind \in {"let", "assign", "print", "return"} -> <<s.value>>
      [] s.kind = "indexassign"         -> <<s.index, s.value>>
      [] s.kind = "if"                  -> <<s.condition>>
      [] s.kind \in {"insert", "alert"} -> s.values
      [] s.kind = "do"                  -> <<s.call>>
      [] OTHER                          -> <<>>

\* Mutation of LocalsAfter: what a then branch declares is known after it.
LocalsLeak(locals, s) ==
    CASE s.kind = "let" -> locals \cup {s.name}
      [] s.kind = "if"  -> locals \cup {s.then[i].name :
                              i \in {j \in DOMAIN s.then : s.then[j].kind = "let"}}
      [] OTHER          -> locals

LocalsAfter(locals, s) == IF s.kind = "let" THEN locals \cup {s.name} ELSE locals

RECURSIVE ValidBlock(_, _, _)
ValidStmt(symbols, locals, s) ==
    /\ ValidAll(symbols, locals, Operands(s))
    /\ s.kind = "assign" => s.name \in locals
    /\ s.kind \in {"insert", "show", "export", "indexassign", "for"} =>
          s.table \in DOMAIN symbols.tables
    /\ s.kind = "insert" => symbols.tables[s.table] = Len(s.values)
    /\ s.kind = "if" => /\ ValidBlock(symbols, locals, s.then)
                        /\ ValidBlock(symbols, locals, s.else)
    /\ s.kind = "for" => ValidBlock(symbols, locals \cup {s.var}, s.body)

ValidBlock(symbols, locals, body) ==
    \/ body = <<>>
    \/ /\ ValidStmt(symbols, locals, Head(body))
       /\ ValidBlock(symbols, LocalsAfter(locals, Head(body)), Tail(body))

Parameters(d) ==
    CASE d.kind = "on"       -> {d.param}
      [] d.kind = "function" -> ToSet(d.params)
      [] OTHER               -> {}

Analyze(decls) ==
    /\ Collected(decls)
    /\ \A i \in DOMAIN decls :
          decls[i].kind \in {"on", "function", "finish"} =>
             ValidBlock(Symbols(decls), Parameters(decls[i]), decls[i].body)
=============================================================================
