------------------------------ MODULE Operands ------------------------------
(***************************************************************************)
(* What can be told of the operand stack from a module m alone: how many   *)
(* operands of its own an activation has at each instruction, at least.    *)
(* The machine looks at none of this before it runs a module; the compiler *)
(* has to see to it.                                                       *)
(***************************************************************************)
EXTENDS VM

\* The name an instruction refers to.
NameIn(m, i) == m.constants[i.arg + 1][2]
WellNamed(m, i) ==
    i.op \in NamingOps => /\ i.arg < Len(m.constants)
                          /\ TypeOf(m.constants[i.arg + 1]) = "str"

\* The operands a call takes, by the order in which names are looked up.
Parameters(m, name) ==
    CASE name \in BuiltinNames    -> Arity(name)
      [] name = <<"count">>       -> 1
      [] name = <<"filter">>      -> 3
      [] name = <<"sort">>        -> 2
      [] name \notin BuiltinNames \cup HostNames ->
            LET found == Named(m.functions, name)
            IN  IF found = {} THEN 0
                ELSE m.functions[CHOOSE f \in found : TRUE].arity

\* The columns of a table as it was declared.
Width(m, name) == Len(EmptyStore(m.tables)[name].fields)
IsTable(m, name) == Exists(EmptyStore(m.tables), name)

\* The operands an instruction needs.
Takes(m, i) ==
    CASE i.op \in BinaryOps \cup {"IndexAssign"} -> 2
      [] i.op \in UnaryOps \cup {"Pop", "StoreVar", "GetEventField", "IndexGet",
                  "Print", "ExportTable", "JumpIfFalse", "JumpIfTrue"} -> 1
      [] i.op = "Alert" -> i.arg
      [] i.op = "InsertTable" ->
            IF IsTable(m, NameIn(m, i)) THEN Width(m, NameIn(m, i)) ELSE 0
      [] i.op = "Call" -> Parameters(m, NameIn(m, i))
      [] OTHER -> 0

Producing == BinaryOps \cup UnaryOps \cup
    {"LoadConst", "LoadVar", "StoreVar", "GetEventField", "IndexGet", "Call"}

\* Where an instruction at ip n goes on if it succeeds, and how many values it
\* has put on the stack by then.  A Return goes nowhere.
Exits(i, n) ==
    CASE i.op = "Jump"        -> {<<i.arg, 0>>}
      [] i.op \in {"JumpIfFalse", "JumpIfTrue"} -> {<<n + 1, 0>>, <<i.arg, 0>>}
      [] i.op = "ForNext"     -> {<<n + 1, 1>>, <<i.arg, 0>>}
      [] i.op = "IndexAssign" -> {<<n + 2, 0>>}
      [] i.op = "Return"      -> {}
      [] i.op \in Producing   -> {<<n + 1, 1>>}
      [] OTHER                -> {<<n + 1, 0>>}

Unreached == -1

\* The fewest operands of its own an activation has at each ip of the code, going
\* by the ways that lead there from earlier instructions.
Depths(m, code) ==
    LET d[n \in 0..Len(code)] ==
           LET Left(k) == LET before == d[k]
                          IN  IF before = Unreached THEN {}
                              ELSE {before - Takes(m, code[k + 1]) + x[2] :
                                      x \in {y \in Exits(code[k + 1], k) : y[1] = n}}
               from == {k \in 0..n-1 : \E x \in Exits(code[k + 1], k) : x[1] = n}
               ways == UNION {Left(k) : k \in from}
           IN  IF n = 0 THEN 0 ELSE IF ways = {} THEN Unreached ELSE Min(ways)
    IN  d

\* At ip n, with depth[n] operands: the next instruction finds its operands, and
\* leaves as many as are counted on wherever it goes on.  A function returns with
\* a result, and never falls off its end.
BalancedAt(m, code, kind, depth, n) ==
    IF n = Len(code) THEN kind # "function"
    ELSE LET i == code[n + 1]
         IN  /\ WellNamed(m, i)
             /\ Takes(m, i) \in 0..depth[n]
             /\ i.op = "Return" /\ kind = "function" => depth[n] >= 1
             /\ \A x \in Exits(i, n) :
                   /\ x[1] \in DOMAIN depth
                   /\ depth[x[1]] \in 0..depth[n] - Takes(m, i) + x[2]

Balanced(m, code, kind) ==
    LET depth == Depths(m, code)
    IN  /\ DOMAIN depth = 0..Len(code)
        /\ depth[0] = 0
        /\ \A n \in DOMAIN depth :
              depth[n] # Unreached =>
                 depth[n] \in Nat /\ BalancedAt(m, code, kind, depth, n)

UnitsBalanced(m) ==
    /\ \A f \in DOMAIN m.functions : Balanced(m, m.functions[f].code, "function")
    /\ \A h \in DOMAIN m.event_handlers : Balanced(m, m.event_handlers[h].code, "on")
    /\ \A h \in DOMAIN m.finish_handlers :
          Balanced(m, m.finish_handlers[h].code, "finish")

\* No activation consumes operands that were on the stack when it began, those its
\* caller still needs among them: not those below, and not for a moment while an
\* instruction takes its operands, or a function its result, off the one stack there
\* is (vm.rs:565, 339).
OperandsStayOwn ==
    /\ \A i \in DOMAIN calls : calls[i].base <= Len(stack)
    /\ status = "running" /\ calls # <<>> /\ ~AtEnd /\ WellNamed(module, Instr) =>
          LET own == Len(stack) - calls[Len(calls)].base
          IN  /\ Takes(module, Instr) <= own
              /\ Instr.op = "Return" /\ Running.kind = "function" => own >= 1

\* In the loaded module no instruction that may be reached lacks an operand, on
\* any path, and every function returns with a result.
CodeBalanced == HaltFree /\ UnitsBalanced(module)

\* What is loaded is balanced: codegen.rs compiles each expression to code that leaves
\* one value, and each function to code that returns one; the VM relies on it
\* unchecked (vm.rs:565).  The module never changes, so it is looked at once.
BalancedWhenLoaded == status = "idle" /\ events = <<>> => CodeBalanced
=============================================================================
