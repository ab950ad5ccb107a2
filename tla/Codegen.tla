------------------------------ MODULE Codegen -------------------------------
(***************************************************************************)
(* The compiler from syntax trees to bytecode (src/bytecode/codegen.rs).   *)
(*                                                                         *)
(* An expression or statement is a record whose field kind names its form. *)
(* A program is a record of its declarations, the functions compiled       *)
(* before the event handlers and these before the finish handlers; the     *)
(* order only affects the numbering of the constants.                      *)
(*                                                                         *)
(* A compilation cx carries the code of the current unit, its locals and   *)
(* the constant pool, which all units share.                               *)
(***************************************************************************)
EXTENDS Values, SequencesExt

Index(seq, x) == CHOOSE i \in DOMAIN seq : seq[i] = x

Interned(pool, x) ==
    IF \E i \in DOMAIN pool : pool[i] = x THEN pool ELSE Append(pool, x)

Emit(cx, op, arg) ==
    [cx EXCEPT !.code = Append(@, [op |-> op, arg |-> arg])]

\* An instruction whose argument is the number of a constant.
EmitConst(cx, op, v) ==
    LET pool == Interned(cx.constants, v)
    IN  Emit([cx EXCEPT !.constants = pool], op, Index(pool, v) - 1)

EmitName(cx, op, name) == EmitConst(cx, op, Str(name))

\* The value stored stays on the operand stack.
EmitStore(cx, name) ==
    LET locals == Interned(cx.locals, name)
    IN  Emit([cx EXCEPT !.locals = locals], "StoreVar", Index(locals, name) - 1)

Here(cx) == Len(cx.code)
Patch(cx, at, target) == [cx EXCEPT !.code[at + 1].arg = target]
-----------------------------------------------------------------------------
RECURSIVE CompileExpr(_, _)

CompileExprs(cx, xs) == FoldLeft(CompileExpr, cx, xs)

\* A name that is no local is taken for its own spelling.
CompileName(cx, name) ==
    IF \E i \in DOMAIN cx.locals : cx.locals[i] = name
    THEN Emit(cx, "LoadVar", Index(cx.locals, name) - 1)
    ELSE EmitName(cx, "LoadConst", name)

CompileExpr(cx, x) ==
    CASE x.kind = "literal" -> EmitConst(cx, "LoadConst", x.value)
      [] x.kind = "name"    -> CompileName(cx, x.name)
      [] x.kind = "binary"  -> Emit(CompileExprs(cx, <<x.left, x.right>>),
                                    x.op, 0)
      [] x.kind = "unary"   -> Emit(CompileExpr(cx, x.arg), x.op, 0)
      [] x.kind = "call"    -> EmitName(CompileExprs(cx, x.args), "Call",
                                        x.name)
      [] x.kind = "field"   -> EmitName(CompileExpr(cx, x.object),
                                        "GetEventField", x.field)
      [] x.kind = "index"   -> EmitName(CompileExpr(cx, x.index), "IndexGet",
                                        x.table)
-----------------------------------------------------------------------------
RECURSIVE CompileStmt(_, _)

CompileBlock(cx, body) == FoldLeft(CompileStmt, cx, body)

\* Mutation of CompileIf: the then branch runs on into the else branch.
IfFallsThrough(cx, s) ==
    LET branch == CompileExpr(cx, s.condition)
        then == CompileBlock(Emit(branch, "JumpIfFalse", 0), s.then)
    IN  Patch(CompileBlock(then, s.else), Here(branch), Here(then))

CompileIf(cx, s) ==
    LET branch == CompileExpr(cx, s.condition)
        then == CompileBlock(Emit(branch, "JumpIfFalse", 0), s.then)
        else == Emit(then, "Jump", 0)
        end == CompileBlock(else, s.else)
    IN  Patch(Patch(end, Here(branch), Here(else)), Here(then), Here(end))

\* Mutation of CompileFor: the exit is patched to the loop's own ForNext.
ForNeverExits(cx, s) ==
    LET init == EmitName(cx, "ForInit", s.table)
        body == CompileBlock(EmitStore(Emit(init, "ForNext", Here(init)), s.var),
                             s.body)
    IN  Emit(body, "Jump", Here(init))

CompileFor(cx, s) ==
    LET init == EmitName(cx, "ForInit", s.table)
        next == Emit(init, "ForNext", 0)
        body == CompileBlock(EmitStore(next, s.var), s.body)
        exit == Emit(body, "Jump", Here(init))
    IN  Patch(exit, Here(init), Here(exit))

\* The value is compiled before the index, and the field is the argument of a
\* Pop that only carries it.
CompileIndexAssign(cx, s) ==
    EmitName(EmitName(CompileExprs(cx, <<s.value, s.index>>), "IndexAssign",
                      s.table),
             "Pop", s.field)

CompileStmt(cx, s) ==
    CASE s.kind \in {"let", "assign"} ->
            EmitStore(CompileExpr(cx, s.value), s.name)
      [] s.kind = "indexassign" -> CompileIndexAssign(cx, s)
      [] s.kind = "if"     -> CompileIf(cx, s)
      [] s.kind = "for"    -> CompileFor(cx, s)
      [] s.kind = "insert" -> EmitName(CompileExprs(cx, s.values),
                                       "InsertTable", s.table)
      [] s.kind = "alert"  -> Emit(CompileExprs(cx, s.values), "Alert",
                                   Len(s.values))
      [] s.kind = "show"   -> EmitName(cx, "ShowTable", s.table)
      [] s.kind = "export" -> EmitName(EmitName(cx, "LoadConst", s.path),
                                       "ExportTable", s.table)
      [] s.kind = "print"  -> Emit(CompileExpr(cx, s.value), "Print", 0)
      [] s.kind = "do"     -> Emit(CompileExpr(cx, s.call), "Pop", 0)
      [] s.kind = "return" -> Emit(CompileExpr(cx, s.value), "Return", 0)
-----------------------------------------------------------------------------
Unstarted(locals, constants) ==
    [code |-> <<>>, locals |-> locals, constants |-> constants]

\* Mutation of CompileFunction: at its end a function just returns.
FunctionEndsBare(f, constants) ==
    Emit(CompileBlock(Unstarted(f.params, constants), f.body), "Return", 0)

\* A function that reaches its end returns unit; a handler just returns.
CompileFunction(f, constants) ==
    LET cx == CompileBlock(Unstarted(f.params, constants), f.body)
    IN  Emit(EmitConst(cx, "LoadConst", Unit), "Return", 0)

CompileHandler(locals, body, constants) ==
    Emit(CompileBlock(Unstarted(locals, constants), body), "Return", 0)

\* The declarations are compiled in turn, on one pool.
Compile(p) ==
    LET InTurn(Compiled(_, _), ds, constants) ==
            FoldLeft(LAMBDA acc, d :
                        LET cx == Compiled(d, acc.constants)
                        IN  [code |-> Append(acc.code, cx.code),
                             constants |-> cx.constants],
                     [code |-> <<>>, constants |-> constants], ds)
        fs == InTurn(CompileFunction, p.functions, <<>>)
        hs == InTurn(LAMBDA h, pool : CompileHandler(<<h.param>>, h.body, pool),
                     p.event_handlers, fs.constants)
        fin == InTurn(LAMBDA h, pool : CompileHandler(<<>>, h.body, pool),
                      p.finish_handlers, hs.constants)
    IN  [tables |-> p.tables,
         constants |-> fin.constants,
         functions |-> [i \in DOMAIN p.functions |->
                          [name |-> p.functions[i].name,
                           arity |-> Len(p.functions[i].params),
                           code |-> fs.code[i]]],
         event_handlers |-> [i \in DOMAIN p.event_handlers |->
                               [name |-> p.event_handlers[i].name,
                                code |-> hs.code[i]]],
         finish_handlers |-> [i \in DOMAIN p.finish_handlers |->
                                [code |-> fin.code[i]]]]
=============================================================================
