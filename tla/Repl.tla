-------------------------------- MODULE Repl --------------------------------
(***************************************************************************)
(* The read-eval-print loop (repl_cmd of src/cli.rs, eval_repl_block of    *)
(* src/interp/mod.rs).  A line becomes the body of a function, is lexed    *)
(* and parsed, and run statement by statement by an interpreter of its     *)
(* own; only the bindings go on to the next line.                          *)
(***************************************************************************)
EXTENDS Interp, Sema, Writing

CONSTANTS
    Lines,      \* what may be typed, as characters
    MaxBlock    \* bound: statements in the lines taken since the last reset

VARIABLES
    prompt,     \* "ready", "running" a line, or "gone"
    body,       \* the statements of the line read last, while it runs
    env,        \* the bindings
    answer,     \* what came of a line: "none", "refused", "failed" or "shown"
    block       \* history: the statements of the lines that ran to their end

rvars == <<prompt, body, env, answer, block>>
-----------------------------------------------------------------------------
\* What an interpreter is made from: the declarations by their kind.
ProgramOf(decls) ==
    LET tree(d) == [name |-> d.name,
                    columns |-> [i \in DOMAIN d.columns |-> d.columns[i][1]]]
        declaredTables == Declared(decls, "table")
    IN  [tables |-> [i \in DOMAIN declaredTables |-> tree(declaredTables[i])],
         functions |-> Declared(decls, "function"),
         event_handlers |-> Declared(decls, "on"),
         finish_handlers |-> Declared(decls, "finish")]

\* "function __repl__() {" and, after the line, "}".
Opening == <<Sym("function"), NameToken(<<"r">>), Sym("("), Sym(")"), Sym("{")>>
Wrapped(text) == Laid(Opening, <<" ">>) \o text \o <<" ", "}">>

\* tokenize, for a text that is no file: its tokens but the last, or none at all.
RECURSIVE Tokens(_, _, _)
Tokens(text, at, before) ==
    LET t == LexAt(text, Skip(text, at))
    IN  CASE ~t.ok -> [ok |-> FALSE, tokens |-> <<>>]
          [] t.ok /\ t.token = Eof -> [ok |-> TRUE, tokens |-> before]
          [] OTHER -> Tokens(text, t.after, Append(before, t.token))

ParsedText(text) ==
    LET t == Tokens(text, Start, <<>>)
    IN  IF t.ok THEN ParseProgram(<<>>, t.tokens) ELSE Malformed

\* An interpreter that has just been made for the program.
Interpreter(locals) ==
    [tables |-> EmptyStore(program.tables), alerts |-> <<>>, out |-> <<>>,
     locals |-> locals, tag |-> "ok", value |-> Unit]

Bound(t, name) ==
    [s |-> IF t.tag = "ok" THEN [t EXCEPT !.locals = Bind(@, name, t.value)] ELSE t,
     last |-> t.value]

\* exec_stmt_with_return: an assignment declares, and a return goes on.
ReplStep(acc, stmt) ==
    CASE acc.s.tag # "ok" -> acc
      [] acc.s.tag = "ok" /\ stmt.kind \in {"let", "assign"} ->
           Bound(Eval(acc.s, stmt.value), stmt.name)
      [] acc.s.tag = "ok" /\ stmt.kind \in {"print", "return"} ->
           [s |-> Eval(acc.s, stmt.value), last |-> Eval(acc.s, stmt.value).value]
      [] OTHER -> [acc EXCEPT !.s = Exec(acc.s, stmt)]

ReplBlock(s, stmts) == FoldLeft(ReplStep, [s |-> s, last |-> Unit], stmts)
-----------------------------------------------------------------------------
ReplInit ==
    /\ prompt = "ready" /\ body = <<>>
    /\ env = <<>> /\ answer = "none" /\ block = <<>>

\* A line that does not parse, or declares a table twice, is refused.
LineRead(p) ==
    IF p.ok /\ NoneTwice(Declared(p.tree, "table"))
    THEN /\ prompt' = "running"
         /\ program' = ProgramOf(p.tree)
         /\ body' = p.tree[1].body
         /\ answer' = "none"
    ELSE answer' = "refused" /\ UNCHANGED <<prompt, program, body>>

\* A line with anything in it that is no command.  The analyser is not asked.
ReadLine(text) ==
    /\ prompt = "ready"
    /\ Len(block) < MaxBlock
    /\ \E i \in DOMAIN text : text[i] \notin Space
    /\ LineRead(ParsedText(Wrapped(text)))
    /\ UNCHANGED <<env, block>>

\* Mutation of LineEnds: the bindings are taken over whatever came of the line.
LineEndsKeeping(r) ==
    LET whole == r.s.tag = "ok"
    IN  /\ prompt' = IF r.s.tag = "panic" THEN "gone" ELSE "ready"
        /\ env' = r.s.locals
        /\ block' = IF whole THEN block \o body ELSE block
        /\ answer' = CASE ~whole -> "failed"
                       [] whole /\ r.last = Unit -> "none"
                       [] OTHER -> "shown"
        /\ body' = <<>>
        /\ UNCHANGED program

\* The bindings are taken over when the whole line has run, with r.
LineEnds(r) ==
    LET whole == r.s.tag = "ok"
    IN  /\ prompt' = IF r.s.tag = "panic" THEN "gone" ELSE "ready"
        /\ env' = IF whole THEN r.s.locals ELSE env
        /\ block' = IF whole THEN block \o body ELSE block
        /\ answer' = CASE ~whole -> "failed"
                       [] whole /\ r.last = Unit -> "none"
                       [] OTHER -> "shown"
        /\ body' = <<>>
        /\ UNCHANGED program

RunLine == prompt = "running" /\ LineEnds(ReplBlock(Interpreter(env), body))

\* ":reset"
Reset ==
    /\ prompt = "ready"
    /\ env' = <<>> /\ block' = <<>> /\ answer' = "none"
    /\ UNCHANGED <<prompt, program, body>>

\* ":quit", or the end of the input.
Quit ==
    /\ prompt = "ready"
    /\ prompt' = "gone"
    /\ UNCHANGED <<program, body, env, answer, block>>

ReplNext == (\E text \in Lines : ReadLine(text)) \/ RunLine \/ Reset \/ Quit
-----------------------------------------------------------------------------
(* Properties.                                                             *)

\* The same statements in a script: an assignment that declares is a let, and
\* a return that goes on is evaluated only.
AsScript(stmts) ==
    [i \in DOMAIN stmts |->
       CASE stmts[i].kind = "assign" ->
              [kind |-> "let", name |-> stmts[i].name, value |-> stmts[i].value]
         [] stmts[i].kind = "return" -> [kind |-> "print", value |-> stmts[i].value]
         [] OTHER -> stmts[i]]

\* The bindings at the prompt are those of one script made of the lines that ran
\* to their end: a line that fails at its last statement has bound nothing, and
\* a line is as good as the same statements on several (cli.rs:437).
BindingsAreOfOneScript ==
    LET s == ExecBlock(Interpreter(<<>>), AsScript(block))
    IN  prompt # "running" => s.tag = "ok" /\ env = s.locals
=============================================================================
