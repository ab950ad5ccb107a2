------------------------------ MODULE Nesting -------------------------------
(***************************************************************************)
(* What can be told of the loops from a module alone: which of them are    *)
(* open at each instruction of a unit.  The machine keeps the iterators of *)
(* all activations on one stack, drops an older one over the same table    *)
(* (vm.rs:534) and lets whichever is on top yield (vm.rs:540); that each   *)
(* loop finds its own there is up to the code it is given.                 *)
(***************************************************************************)
EXTENDS Operands

\* Where an instruction at ip n goes on if it succeeds, and the loops that are open
\* there, each told by the ip of its ForInit, when those in s are open at n.
LoopExits(i, n, s) ==
    CASE i.op = "ForInit" -> {<<n + 1, Append(s, n)>>}
      [] i.op = "ForNext" -> {<<n + 1, s>>, <<i.arg, IF s = <<>> THEN s ELSE Front(s)>>}
      [] OTHER            -> {<<x[1], s>> : x \in Exits(i, n)}

\* The nests of loops that may be open at each ip of the code, outermost first, going
\* by the ways that lead there from earlier instructions.
Nests(code) ==
    LET nests[n \in 0..Len(code)] ==
           LET from == {k \in 0..n-1 : \E x \in Exits(code[k + 1], k) : x[1] = n}
               Ways(k) == UNION {LoopExits(code[k + 1], k, s) : s \in nests[k]}
           IN  IF n = 0 THEN {<<>>}
               ELSE {w[2] : w \in {v \in UNION {Ways(k) : k \in from} : v[1] = n}}
    IN  nests

\* The table constants of loops, as the iterators are keyed.
Keys(code, s) == {code[s[k] + 1].arg : k \in DOMAIN s}
LoopedOver(code) == {i.arg : i \in {j \in Range(code) : j.op = "ForInit"}}

\* The functions of the script a call may enter: one, or none.
Callees(m, i) ==
    IF i.op = "Call" /\ WellNamed(m, i) /\ NameIn(m, i) \notin BuiltinNames \cup HostNames
    THEN Named(m.functions, NameIn(m, i)) ELSE {}

CalledBy(m, f) == UNION {Callees(m, i) : i \in Range(m.functions[f].code)}

\* The functions a call of f may lead to, f among them: those in every set that has
\* f and whatever its members call.
ReachedFrom(m, f) ==
    {g \in DOMAIN m.functions :
        \A S \in SUBSET DOMAIN m.functions :
           f \in S /\ (\A h \in S : CalledBy(m, h) \subseteq S) => g \in S}

\* No loop is open where the code returns.
Completes(code) ==
    \A n \in 0..Len(code) :
       n = Len(code) \/ code[n + 1].op = "Return" => Nests(code)[n] \subseteq {<<>>}

\* A call of f leaves the loops in progress over those tables alone: whatever it leads
\* to closes the loops it opens, and opens none over the same tables.
Spares(m, f, keys) ==
    \A g \in ReachedFrom(m, f) :
       LET code == m.functions[g].code
       IN  Completes(code) /\ LoopedOver(code) \cap keys = {}

\* At ip n, with the loops of s open: no loop is opened inside one over the same table,
\* a ForNext serves the innermost loop, a call spares those that are open, and the code
\* goes on where such a nest is counted on.
NestedAt(m, code, n, s) ==
    LET i == code[n + 1]
    IN  /\ i.op = "ForInit" => i.arg \notin Keys(code, s)
        /\ i.op = "ForNext" => s # <<>> /\ Last(s) = n - 1
        /\ s # <<>> => \A f \in Callees(m, i) : Spares(m, f, Keys(code, s))
        /\ \A w \in LoopExits(i, n, s) :
              w[1] \in 0..Len(code) /\ w[2] \in Nests(code)[w[1]]

Nested(m, code) ==
    LET nests == Nests(code)
    IN  /\ DOMAIN nests = 0..Len(code)
        /\ <<>> \in nests[0]
        /\ \A n \in 0..Len(code) : \A s \in nests[n] :
              s \in Seq(Nat) /\ (n < Len(code) => NestedAt(m, code, n, s))

UnitsNested(m) ==
    /\ \A f \in DOMAIN m.functions : Nested(m, m.functions[f].code)
    /\ \A h \in DOMAIN m.event_handlers : Nested(m, m.event_handlers[h].code)
    /\ \A h \in DOMAIN m.finish_handlers : Nested(m, m.finish_handlers[h].code)

\* In the loaded module the loops of each unit are properly nested, on any path, no loop
\* runs inside another over the same table, be it through calls, and no function called
\* from a loop returns from within one of its own.
LoopsNested == HaltFree /\ UnitsNested(module)

\* What is loaded has its loops nested: codegen.rs compiles a loop to a ForInit, a ForNext
\* right after it and a jump back to that, and patches the way out; from scripts whose
\* loops are over different tables this gives code whose loops never take each other's
\* rows.  The module never changes, so it is looked at once.
NestedWhenLoaded == status = "idle" /\ events = <<>> => LoopsNested
-----------------------------------------------------------------------------
\* The only way back in the code is from a loop's body to its ForNext, and the way out
\* a Return.
Onwards(code) ==
    \A n \in DOMAIN code :
       LET i == code[n]
       IN  /\ i.op # "Halt"
           /\ i.op \in {"JumpIfFalse", "JumpIfTrue", "ForNext"} => i.arg >= n
           /\ i.op = "Jump" /\ i.arg < n => code[i.arg + 1].op = "ForNext"

\* The modules with nothing to go round in but loops, each over a snapshot of its own:
\* no function calls itself, and the loops are nested.
BoundToEnd ==
    {m \in Modules :
        /\ UnitsNested(m)
        /\ \A f \in DOMAIN m.functions :
              /\ Onwards(m.functions[f].code)
              /\ \A g \in CalledBy(m, f) : f \notin ReachedFrom(m, g)
        /\ \A h \in DOMAIN m.event_handlers : Onwards(m.event_handlers[h].code)
        /\ \A h \in DOMAIN m.finish_handlers : Onwards(m.finish_handlers[h].code)}

\* With such a module, once an event or the end of input is being handled the VM comes
\* back to the host, whatever the loops insert into the tables they walk, and whatever
\* the functions called from them do.  A recursive function may well not end; nor may
\* one that is not, if it returns out of its own loop and is called from another one,
\* which UnitsNested rules out (vm.rs:339, 538).
HandlersReturn ==
    (status = "running" /\ module \in BoundToEnd) ~> status # "running"
=============================================================================
