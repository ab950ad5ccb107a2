------------------------------- MODULE Parity -------------------------------
(***************************************************************************)
(* The two execution modes side by side: the VM running the compiled       *)
(* program against the interpreter running the tree.  What the VM does     *)
(* between two events is one step of the interpreter, or none.             *)
(***************************************************************************)
EXTENDS VM, Codegen

CONSTANT Programs

VARIABLES
    program,     \* the tree module was compiled from
    committed    \* history: what was observable when the VM last was at rest

pvars == <<vars, program, committed>>

AtRest == [tables |-> tables, alerts |-> alerts, out |-> out,
           status |-> status, events |-> events]

PInit ==
    /\ program \in Programs
    /\ module = Compile(program)
    /\ Start
    /\ committed = AtRest

PNext ==
    /\ Next
    /\ committed' = IF status' = "running" THEN committed ELSE AtRest'
    /\ UNCHANGED program

PSpec == PInit /\ [][PNext]_pvars
PFairSpec == PSpec /\ WF_pvars((HostResumes \/ Execute) /\ PNext)

Interpreter == INSTANCE Interp WITH
    tables <- committed.tables,
    alerts <- committed.alerts,
    out    <- committed.out,
    status <- committed.status,
    events <- committed.events

\* Both modes have the same observable behaviour on the same input: tables,
\* alerts, printed and exported data, and whether and when the run fails
\* (tests/vm_integration.rs: "identical observable behaviour").
ImplementsInterpreter == Interpreter!Spec

\* Where the interpreter would be at the end of what is being handled.
Foretold ==
    IF finishing = 0
    THEN Interpreter!Handled(CHOOSE i \in Interpreter!Handlers(Last(events).name) : TRUE,
                             Last(events))
    ELSE Interpreter!Finished

\* While an event or the end of input is being handled, the VM never raises or puts
\* out anything the interpreter does not: ImplementsInterpreter compares the two at
\* rest, and says nothing of a handler the VM never comes back from.
OutputForetold ==
    status = "running" => /\ IsPrefix(alerts, Foretold.alerts)
                          /\ IsPrefix(out, Foretold.out)
=============================================================================
