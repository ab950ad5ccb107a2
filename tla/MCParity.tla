------------------------------ MODULE MCParity ------------------------------
(* The runs of Parity: scripts of the grammar, on inputs of up to two events. *)
EXTENDS Parity, Nesting, Scripts

Analyser == INSTANCE Sema

\* What the analyser makes of the declarations of a script.
Declared(p) ==
    [tables |-> [n \in {p.tables[i].name : i \in DOMAIN p.tables} |->
                    Len(EmptyStore(p.tables)[n].fields)],
     functions |-> [n \in {p.functions[i].name : i \in DOMAIN p.functions} |->
                    Len(p.functions[CHOOSE i \in Callee(p, n) : TRUE].params)]]
Accepted(p) ==
    \A i \in DOMAIN p.event_handlers :
       Analyser!ValidBlock(Declared(p), {p.event_handlers[i].param},
                           p.event_handlers[i].body)

AgreeingScripts ==
    AgreeableScripts \cup {p \in ScopingScripts : Accepted(p)}

CompiledPrograms == {Compile(p) : p \in Programs}
TwoEvents == {EventA, EventB}
=============================================================================
