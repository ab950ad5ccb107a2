------------------------------ MODULE Frontend ------------------------------
(***************************************************************************)
(* From the text of a script to its run (check_cmd and run_cmd of          *)
(* src/cli.rs): lexer, parser, analyser and interpreter one after the      *)
(* other, each of them only if the one before it found no error.           *)
(*                                                                         *)
(* A script may also enter as tokens, to look at many without spelling     *)
(* them.                                                                   *)
(***************************************************************************)
EXTENDS Repl

CONSTANTS
    Sources,    \* token sequences and the space between them, to be spelled
    Programs,   \* declarations, to be read from their tokens
    MaxEvents   \* bound: events dispatched to a script

VARIABLES
    stage,      \* "lexing", "parsing", "analysing", "running" or "rejected"
    tokens,     \* the tokens read, without the end
    decls,      \* what was parsed
    written     \* history: the tokens or declarations the script was written as

fvars == <<stage, tokens, decls, written>>
-----------------------------------------------------------------------------
ScriptInit ==
    \/ \E s \in Sources :
          /\ source = Laid(s[1], s[2])
          /\ LexerInit
          /\ stage = "lexing" /\ tokens = <<>>
          /\ written = [kind |-> "tokens", tokens |-> s[1], decls |-> <<>>]
    \/ \E p \in Programs :
          /\ source = <<>>
          /\ position = Start /\ read = <<>> /\ lexing = "done"
          /\ stage = "parsing" /\ tokens = ScriptTokens(p)
          /\ written = [kind |-> "decls", tokens |-> ScriptTokens(p), decls |-> p]

Lex ==
    /\ stage = "lexing"
    /\ NextToken
    /\ stage' = CASE lexing' = "failed" -> "rejected"
                  [] lexing' = "done"   -> "parsing"
                  [] OTHER              -> "lexing"
    /\ tokens' = IF lexing' = "done" THEN [i \in DOMAIN read |-> read[i].token]
                 ELSE <<>>
    /\ UNCHANGED <<decls, written, program, tables, alerts, out, status, events>>

Parse ==
    LET p == ParseProgram(<<>>, tokens)
    IN  /\ stage = "parsing"
        /\ stage' = IF p.ok THEN "analysing" ELSE "rejected"
        /\ decls' = p.tree
        /\ UNCHANGED <<lvars, tokens, written, program, tables, alerts, out,
                       status, events>>

\* What the analyser lets through goes to an interpreter.
Check ==
    /\ stage = "analysing"
    /\ IF Analyze(decls)
       THEN /\ stage' = "running"
            /\ program' = ProgramOf(decls)
            /\ tables' = EmptyStore(ProgramOf(decls).tables)
       ELSE stage' = "rejected" /\ UNCHANGED <<program, tables>>
    /\ UNCHANGED <<lvars, tokens, decls, written, alerts, out, status, events>>

Run ==
    /\ stage = "running"
    /\ \/ \E e \in Events : Len(events) < MaxEvents /\ Dispatch(e)
       \/ RunFinish
    /\ UNCHANGED <<lvars, fvars>>

ScriptNext == Lex \/ Parse \/ Check \/ Run
-----------------------------------------------------------------------------
(* Properties.                                                             *)

\* Whatever spaces, line ends and comments lie between them, or nothing where
\* two tokens cannot be taken for others, a text is read as the tokens it was
\* written from (lexer.rs:277).
TextReadsBack ==
    written.kind = "tokens" =>
       /\ lexing # "failed"
       /\ lexing = "done" => tokens = written.tokens

\* A script written with no more brackets than the table of precedences asks for
\* and with nothing between two statements is read as the declarations it was
\* written from (docs/language_spec.md:118, parser.rs:515).
ScriptReadsBack ==
    written.kind = "decls" =>
       /\ stage \in {"analysing", "running"} => decls = written.decls
       /\ stage = "rejected" => decls # <<>>

\* A table or function named where a value is wanted, or a local where a function
\* is: the analyser takes the name for known.
IsName(x) == x.kind = "name"
RECURSIVE Mistaken(_)
Mistaken(x) ==
    \/ IsName(x) /\ Resolved(Symbols(decls), {}, x.name)
    \/ x.kind = "call" /\ ~CallResolves(Symbols(decls), {}, x.name, Len(x.args))
    \/ \E i \in DOMAIN Subexpressions(x) : Mistaken(Subexpressions(x)[i])

RECURSIVE Misused(_)
Misused(stmts) ==
    \E i \in DOMAIN stmts :
       LET s == stmts[i]
       IN  \/ \E j \in DOMAIN Operands(s) : Mistaken(Operands(s)[j])
           \/ s.kind = "if" /\ (Misused(s.then) \/ Misused(s.else))
           \/ s.kind = "for" /\ Misused(s.body)

\* The analyser follows each branch with locals of its own, the interpreter has
\* one set for a whole handler.  Still a script that got through never fails for
\* a name: with operations that take any value, it does not fail at all
\* (sema.rs:3, "validates that names resolve, table inserts have the right
\* arity").
AcceptedScriptsRun ==
    stage = "running" /\ status = "failed" =>
       \E i \in DOMAIN decls :
          decls[i].kind \in {"on", "function", "finish"} /\ Misused(decls[i].body)
=============================================================================
