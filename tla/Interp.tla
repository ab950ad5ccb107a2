------------------------------- MODULE Interp -------------------------------
(***************************************************************************)
(* The tree-walking interpreter (src/interp/mod.rs), which is also what    *)
(* the VM promises: a handler runs to its end, or to its first error, as   *)
(* one step of the tables, the alerts and the output.                      *)
(*                                                                         *)
(* A script state s carries the tables, alerts and out, the locals of the  *)
(* running function, and how the last evaluation ended: tag "ok" with a    *)
(* value, "return" with the value returned, "err" or "panic".              *)
(***************************************************************************)
EXTENDS Tables, SequencesExt

CONSTANT Events

VARIABLES
    program,      \* the program, a tree (see Codegen): any, and always the same
    tables, alerts, out,
    status,       \* "idle", "done", "failed" or "panicked"
    events        \* the events dispatched so far

vars == <<program, tables, alerts, out, status, events>>
-----------------------------------------------------------------------------
Ended(s, r) == [s EXCEPT !.tag = r.tag, !.value = r.value]

Bind(locals, name, v) ==
    [n \in DOMAIN locals \cup {name} |-> IF n = name THEN v ELSE locals[n]]

\* What the VM compares with an ordering, the interpreter may refuse.
Operate(op, l, r) ==
    IF op \in Comparisons THEN InterpCompare(op, l, r) ELSE BinaryOp(op, l, r)

HostCall(s, name, args) ==
    LET arg(i) == IF i \in DOMAIN args THEN AsText(args[i]) ELSE <<>>
    IN  CASE name = <<"count">> ->
               IF /\ 1 \in DOMAIN args /\ TypeOf(args[1]) = "str"
                  /\ Exists(s.tables, arg(1))
               THEN Ended(s, Ok(Int64(Wrap(Len(s.tables[arg(1)].rows)))))
               ELSE Ended(s, Err)
          [] name # <<"count">> /\ ~Sortable(s.tables, arg(1), arg(2)) ->
               Ended(s, Err)
          [] name = <<"filter">> /\ Sortable(s.tables, arg(1), arg(2)) ->
               LET kept == Matching(s.tables, arg(1), arg(2), arg(3))
                   order == CHOOSE o \in Increasing(kept) : TRUE
               IN  Ended([s EXCEPT !.tables = Reorder(@, arg(1), order)],
                         Ok(Int64(Wrap(Cardinality(kept)))))
          [] OTHER ->
               LET order == CHOOSE o \in
                              StableOrders(s.tables, arg(1), arg(2)) : TRUE
               IN  Ended([s EXCEPT !.tables = Reorder(@, arg(1), order)],
                         Ok(Unit))
-----------------------------------------------------------------------------
RECURSIVE Eval(_, _), Exec(_, _), ExecBlock(_, _)

\* Left to right, up to the first that does not end well.
EvalAll(s, xs) ==
    FoldLeft(LAMBDA acc, x :
                IF acc.s.tag # "ok" THEN acc
                ELSE LET t == Eval(acc.s, x)
                     IN  [s |-> t, args |-> Append(acc.args, t.value)],
             [s |-> s, args |-> <<>>], xs)

ExecBlock(s, body) ==
    IF s.tag # "ok" \/ body = <<>> THEN s
    ELSE ExecBlock(Exec(s, Head(body)), Tail(body))

\* The functions of the program of that name: at most one after sema.
Callees(name) ==
    {i \in DOMAIN program.functions : program.functions[i].name = name}

\* A function has locals of its own, and ends with unit unless it returns.
CallUser(s, f, args) ==
    LET t == ExecBlock([s EXCEPT !.locals =
                          [p \in {f.params[i] : i \in DOMAIN f.params} |->
                             args[CHOOSE i \in DOMAIN f.params :
                                     f.params[i] = p]]],
                       f.body)
        back == [t EXCEPT !.locals = s.locals]
    IN  CASE t.tag = "return" -> Ended(back, Ok(t.value))
          [] t.tag = "ok"     -> Ended(back, Ok(Unit))
          [] OTHER            -> back

Call(s, name, args) ==
    CASE name \in BuiltinNames -> Ended(s, Builtin(name, args))
      [] name \in HostNames    -> HostCall(s, name, args)
      [] OTHER ->
           IF \E i \in Callees(name) :
                 Len(program.functions[i].params) = Len(args)
           THEN CallUser(s, program.functions[CHOOSE i \in Callees(name) : TRUE],
                         args)
           ELSE Ended(s, Err)

FieldOf(v, field) ==
    IF TypeOf(v) = "event" /\ field \in Present(v[2]) THEN Ok(v[2][field])
    ELSE Err

RowValue(store, name, index) ==
    IF Exists(store, name) /\ InRange(store, name, index)
    THEN Ok(Str(RowText(RowAt(store, name, index)))) ELSE Err

Eval(s, x) ==
    LET xs == CASE x.kind = "binary" -> <<x.left, x.right>>
                [] x.kind = "unary"  -> <<x.arg>>
                [] x.kind = "call"   -> x.args
                [] x.kind = "field"  -> <<x.object>>
                [] x.kind = "index"  -> <<x.index>>
                [] OTHER             -> <<>>
        e == EvalAll(s, xs)
        t == e.s
        v == e.args
    IN  CASE t.tag # "ok" -> t
          [] t.tag = "ok" /\ x.kind = "literal" -> Ended(t, Ok(x.value))
          [] t.tag = "ok" /\ x.kind = "name" ->
               Ended(t, IF x.name \in DOMAIN t.locals THEN Ok(t.locals[x.name])
                        ELSE Err)
          [] t.tag = "ok" /\ x.kind = "binary" ->
               Ended(t, Operate(x.op, v[1], v[2]))
          [] t.tag = "ok" /\ x.kind = "unary" -> Ended(t, UnaryOp(x.op, v[1]))
          [] t.tag = "ok" /\ x.kind = "call" -> Call(t, x.name, v)
          [] t.tag = "ok" /\ x.kind = "field" ->
               Ended(t, FieldOf(v[1], x.field))
          [] t.tag = "ok" /\ x.kind = "index" ->
               Ended(t, RowValue(t.tables, x.table, v[1]))
-----------------------------------------------------------------------------
\* The rows are copied first: the body may change the table it loops over.
ExecFor(s, stmt) ==
    IF ~Exists(s.tables, stmt.table) THEN Ended(s, Err)
    ELSE FoldLeft(LAMBDA t, row :
                     IF t.tag # "ok" THEN t
                     ELSE ExecBlock([t EXCEPT !.locals =
                                       Bind(@, stmt.var, Str(RowText(row)))],
                                    stmt.body),
                  s, s.tables[stmt.table].rows)

AssignAt(t, stmt, index) ==
    CASE t.tag # "ok" -> t
      [] t.tag = "ok" /\ CanAssign(t.tables, stmt.table, index, stmt.field) ->
           [t EXCEPT !.tables = AssignCell(@, stmt.table, index, stmt.field, t.value)]
      [] OTHER -> Ended(t, Err)

\* The index is evaluated, and its type checked, before the value is.
Indexed(t, stmt) ==
    CASE t.tag # "ok" -> t
      [] t.tag = "ok" /\ TypeOf(t.value) = "int" /\ t.value[2] >= 0 ->
           AssignAt(Eval(t, stmt.value), stmt, t.value)
      [] OTHER -> Ended(t, Err)

ExecIndexAssign(s, stmt) == Indexed(Eval(s, stmt.index), stmt)

Output(kind, name, path, rows) ==
    [kind |-> kind, name |-> name, path |-> path, rows |-> rows]

\* What a statement evaluates before it does anything, in this order.
Evaluated(stmt) ==
    CASE stmt.kind \in {"let", "assign", "print", "return"} -> <<stmt.value>>
      [] stmt.kind \in {"insert", "alert"} -> stmt.values
      [] stmt.kind = "if" -> <<stmt.condition>>
      [] OTHER -> <<>>

\* Its effect on t, once its operands have the values v.
Effect(t, stmt, v) ==
    CASE stmt.kind = "let" -> [t EXCEPT !.locals = Bind(@, stmt.name, v[1])]
      [] stmt.kind = "assign" ->
           IF stmt.name \in DOMAIN t.locals
           THEN [t EXCEPT !.locals = Bind(@, stmt.name, v[1])] ELSE Ended(t, Err)
      [] stmt.kind = "indexassign" -> ExecIndexAssign(t, stmt)
      [] stmt.kind = "if" -> ExecBlock(t, IF Truthy(v[1]) THEN stmt.then ELSE stmt.else)
      [] stmt.kind = "for" -> ExecFor(t, stmt)
      [] stmt.kind = "insert" ->
           IF CanInsert(t.tables, stmt.table, v)
           THEN [t EXCEPT !.tables = Insert(@, stmt.table, v)] ELSE Ended(t, Err)
      [] stmt.kind = "alert" -> [t EXCEPT !.alerts = Append(@, v)]
      [] stmt.kind = "print" ->
           [t EXCEPT !.out = Append(@, Output("print", <<>>, <<>>, <<v>>))]
      [] stmt.kind = "show" ->
           IF Exists(t.tables, stmt.table)
           THEN [t EXCEPT !.out = Append(@, Output("show", stmt.table, <<>>,
                                             t.tables[stmt.table].rows))]
           ELSE Ended(t, Err)
      [] stmt.kind = "export" ->
           IF CanOpen(t.tables, stmt.table, stmt.path)
           THEN Ended([t EXCEPT !.out = Append(@, ExportFile(t.tables, stmt.table,
                                                             stmt.path))],
                      IF Fits(t.tables, stmt.table, stmt.path) THEN Ok(Unit) ELSE Err)
           ELSE Ended(t, Err)
      [] stmt.kind = "do" -> Eval(t, stmt.call)
      [] stmt.kind = "return" -> [t EXCEPT !.tag = "return", !.value = v[1]]

Effected(e, stmt) == IF e.s.tag = "ok" THEN Effect(e.s, stmt, e.args) ELSE e.s

Exec(s, stmt) == Effected(EvalAll(s, Evaluated(stmt)), stmt)
-----------------------------------------------------------------------------
Init ==
    /\ tables = EmptyStore(program.tables)
    /\ alerts = <<>> /\ out = <<>>
    /\ status = "idle" /\ events = <<>>

\* Before a handler starts, with these locals.
Before(locals) ==
    [tables |-> tables, alerts |-> alerts, out |-> out, locals |-> locals,
     tag |-> "ok", value |-> Unit]

\* A handler has ended as s.  The signal that carries a return out of a
\* function is an error like any other at the top level.
Commit(s, next) ==
    /\ tables' = s.tables
    /\ alerts' = s.alerts
    /\ out' = s.out
    /\ status' = CASE s.tag = "ok" -> next
                   [] s.tag = "panic" -> "panicked"
                   [] OTHER -> "failed"

Handlers(name) ==
    {i \in DOMAIN program.event_handlers :
        program.event_handlers[i].name = name}

\* The i-th handler at the end of the event e.
Handled(i, e) ==
    LET h == program.event_handlers[i]
    IN  ExecBlock(Before(Bind(<<>>, h.param, Event(e.fields))), h.body)

Dispatch(e) ==
    /\ status = "idle"
    /\ events' = Append(events, e)
    /\ \/ /\ Handlers(e.name) = {}
          /\ UNCHANGED <<tables, alerts, out, status>>
       \/ \E i \in Handlers(e.name) : Commit(Handled(i, e), "idle")
    /\ UNCHANGED program

\* The end of the last finish handler, or of the first that does not end well.
Finished ==
    FoldLeft(LAMBDA s, h :
                IF s.tag # "ok" THEN s
                ELSE ExecBlock([s EXCEPT !.locals = <<>>], h.body),
             Before(<<>>), program.finish_handlers)

RunFinish ==
    /\ status = "idle"
    /\ Commit(Finished, "done")
    /\ UNCHANGED <<program, events>>

Next == (\E e \in Events : Dispatch(e)) \/ RunFinish

Spec == Init /\ [][Next]_vars
=============================================================================
