--------------------------------- MODULE VM ---------------------------------
(***************************************************************************)
(* The bytecode virtual machine (src/bytecode/vm.rs) and the host that     *)
(* drives it: the command line dispatches the events of the input one      *)
(* after the other, runs the finish handlers once, and gives up at the     *)
(* first error.  One step executes one instruction.                        *)
(*                                                                         *)
(* The machine runs whatever module it is given: `tracescript vm` loads a  *)
(* .traceb file without verifying it.                                      *)
(*                                                                         *)
(* frames is the VM's own call stack.  calls is the stack of native        *)
(* activations of run_until_return: each executes the code it was passed,  *)
(* at the ip of whatever frame is on top.                                  *)
(***************************************************************************)
EXTENDS Tables, SequencesExt

CONSTANTS
    Modules,     \* the compiled modules a run may load
    Events,      \* the events the input may hold: [name, fields]
    MaxEvents    \* bound: number of events in one input

VARIABLES
    module,      \* the loaded module
    tables,      \* the table store
    alerts,      \* the alerts raised so far
    out,         \* what was printed, shown and exported so far
    stack,       \* operand stack, shared by all frames and all handlers
    frames,      \* [unit, locals, ip]
    iterators,   \* [key, rows] plus owner, the loop that made it (ghost)
    calls,       \* [unit] plus base, the operands below the call (ghost)
    status,      \* what the VM as a whole is doing
    finishing,   \* the finish handler being run, 0 before run_finish
    events       \* the events dispatched so far

vars == <<module, tables, alerts, out, stack, frames, iterators, calls,
          status, finishing, events>>
host == <<module, finishing, events>>
data == <<tables, alerts, out>>

NamingOps == {"Call", "GetEventField", "InsertTable", "ShowTable",
              "ExportTable", "IndexGet", "IndexAssign", "ForInit"}
Opcodes == BinaryOps \cup UnaryOps \cup NamingOps \cup
    {"LoadConst", "Pop", "LoadVar", "StoreVar", "Jump", "JumpIfFalse",
     "JumpIfTrue", "Return", "DispatchEvent", "Alert", "Print", "ForNext",
     "Halt"}

Instruction == [op : Opcodes, arg : Nat]
Module ==
    [tables : Seq([name : Text, columns : Seq(Text)]),
     constants : Seq(Value),
     functions : Seq([name : Text, arity : Nat, code : Seq(Instruction)]),
     event_handlers : Seq([name : Text, code : Seq(Instruction)]),
     finish_handlers : Seq([code : Seq(Instruction)])]

\* VM::new refuses a module that declares a table twice.
ASSUME ModulesAssumption ==
    \A m \in Modules :
       /\ m \in Module
       /\ \A i, j \in DOMAIN m.tables :
             m.tables[i].name = m.tables[j].name => i = j

ASSUME EventsAssumption == Events \subseteq [name : Text, fields : EventFields]

ASSUME MaxEventsAssumption == MaxEvents \in Nat
-----------------------------------------------------------------------------
(* Code units and the instruction about to be executed.                    *)

Units ==
    [kind : {"function"}, n : DOMAIN module.functions]
       \cup [kind : {"on"}, n : DOMAIN module.event_handlers]
       \cup [kind : {"finish"}, n : DOMAIN module.finish_handlers]

Code(unit) ==
    CASE unit.kind = "function" -> module.functions[unit.n].code
      [] unit.kind = "on"       -> module.event_handlers[unit.n].code
      [] unit.kind = "finish"   -> module.finish_handlers[unit.n].code

Frame == frames[Len(frames)]
Running == calls[Len(calls)].unit

AtEnd == Frame.ip >= Len(Code(Running))
Instr == Code(Running)[Frame.ip + 1]

\* The next instruction is an op.  There always is a frame: ActiveFrame.
Executing(op) ==
    /\ status = "running"
    /\ calls # <<>>
    /\ ~AtEnd
    /\ Instr.op = op

IsConstant(i) == i < Len(module.constants)
Constant(i) == module.constants[i + 1]
IsName(i) == IsConstant(i) /\ TypeOf(Constant(i)) = "str"

\* The argument of the instruction read as the name it refers to.
Name == Constant(Instr.arg)[2]

ExecutingNamed(op) == Executing(op) /\ IsName(Instr.arg)

\* First position in a sequence of named records of that name.
Named(seq, name) ==
    {i \in DOMAIN seq : /\ seq[i].name = name
                        /\ \A j \in DOMAIN seq : seq[j].name = name => i <= j}
-----------------------------------------------------------------------------
(* What instructions are made of.                                          *)

Step == frames' = [frames EXCEPT ![Len(frames)].ip = @ + 1]
JumpTo(ip) == frames' = [frames EXCEPT ![Len(frames)].ip = ip]

Enough(n) == Len(stack) >= n
Beneath(n) == SubSeq(stack, 1, Len(stack) - n)
Operand(n) == stack[Len(stack) - n + 1]        \* counted from the top
Operands(n) == SubSeq(stack, Len(stack) - n + 1, Len(stack))

After(tag) == CASE tag = "ok"    -> "running"
                [] tag = "err"   -> "failed"
                [] tag = "panic" -> "panicked"

Underflow == stack' = <<>> /\ status' = "failed"

\* Replace n operands by the value of the outcome r, or stop with its error.
Compute(n, r) ==
    IF ~Enough(n) THEN Underflow
    ELSE /\ stack' = Beneath(n) \o (IF r.tag = "ok" THEN <<r.value>> ELSE <<>>)
         /\ status' = After(r.tag)

\* Take n operands, then go on if ok and stop with an error otherwise.
Consume(n, ok) ==
    IF ~Enough(n) THEN Underflow
    ELSE stack' = Beneath(n) /\ status' = After(IF ok THEN "ok" ELSE "err")

\* Push a frame for unit over the frames below, and run its code.
Enter(unit, locals, below, base) ==
    /\ frames' = Append(below, [unit |-> unit, locals |-> locals, ip |-> 0])
    /\ calls' = Append(calls, [unit |-> unit, base |-> base])

\* VM::new, for the loaded module.
Start ==
    /\ tables = EmptyStore(module.tables)
    /\ alerts = <<>> /\ out = <<>>
    /\ stack = <<>> /\ frames = <<>> /\ iterators = <<>> /\ calls = <<>>
    /\ status = "idle" /\ finishing = 0 /\ events = <<>>

Init == module \in Modules /\ Start
-----------------------------------------------------------------------------
(* Operands, variables and operators.                                      *)

LoadConst ==
    /\ Executing("LoadConst") /\ IsConstant(Instr.arg)
    /\ Compute(0, Ok(Constant(Instr.arg)))
    /\ Step
    /\ UNCHANGED <<host, data, iterators, calls>>

\* An instruction whose constant does not exist, or is no name where a name is
\* needed, fails before it touches the stack.
BadConstant ==
    /\ \E op \in NamingOps \cup {"LoadConst"} :
          /\ Executing(op)
          /\ IF op = "LoadConst" THEN ~IsConstant(Instr.arg)
                                 ELSE ~IsName(Instr.arg)
    /\ status' = "failed"
    /\ Step
    /\ UNCHANGED <<host, data, stack, iterators, calls>>

\* A pop of the empty stack is no error here.
PopOperand ==
    /\ Executing("Pop")
    /\ stack' = IF stack = <<>> THEN <<>> ELSE Front(stack)
    /\ Step
    /\ UNCHANGED <<host, data, iterators, calls, status>>

\* Indexing the locals out of range panics.
LoadVar ==
    /\ Executing("LoadVar")
    /\ Compute(0, IF Instr.arg < Len(Frame.locals)
                  THEN Ok(Frame.locals[Instr.arg + 1]) ELSE Panic)
    /\ Step
    /\ UNCHANGED <<host, data, iterators, calls>>

\* The locals with slot i set to v, grown with unit values where needed.
Stored(locals, i, v) ==
    [j \in 1..Larger(Len(locals), i + 1) |->
        CASE j = i + 1                        -> v
          [] j # i + 1 /\ j <= Len(locals)    -> locals[j]
          [] OTHER                            -> Unit]

\* The stored value is read off the top of the stack and stays there.
StoreVar ==
    /\ Executing("StoreVar")
    /\ IF Enough(1)
       THEN /\ frames' = [frames EXCEPT ![Len(frames)] =
                            [unit |-> Frame.unit,
                             locals |-> Stored(Frame.locals, Instr.arg,
                                               Operand(1)),
                             ip |-> Frame.ip + 1]]
            /\ UNCHANGED <<stack, status>>
       ELSE Underflow /\ Step
    /\ UNCHANGED <<host, data, iterators, calls>>

Binary ==
    /\ \E op \in BinaryOps :
          Executing(op) /\ Compute(2, BinaryOp(op, Operand(2), Operand(1)))
    /\ Step
    /\ UNCHANGED <<host, data, iterators, calls>>

Unary ==
    /\ \E op \in UnaryOps : Executing(op) /\ Compute(1, UnaryOp(op, Operand(1)))
    /\ Step
    /\ UNCHANGED <<host, data, iterators, calls>>

\* A field the event does not carry reads as the unit value.
GetEventField ==
    /\ ExecutingNamed("GetEventField")
    /\ Compute(1, IF TypeOf(Operand(1)) # "event" THEN Err
                  ELSE IF Name \in Present(Operand(1)[2])
                  THEN Ok(Operand(1)[2][Name]) ELSE Ok(Unit))
    /\ Step
    /\ UNCHANGED <<host, data, iterators, calls>>

\* Reserved: does nothing.
NoOperation ==
    /\ Executing("DispatchEvent")
    /\ Step
    /\ UNCHANGED <<host, data, stack, iterators, calls, status>>
-----------------------------------------------------------------------------
(* Control.                                                                *)

Jump ==
    /\ Executing("Jump")
    /\ JumpTo(Instr.arg)
    /\ UNCHANGED <<host, data, stack, iterators, calls, status>>

\* JumpIfFalse and JumpIfTrue.
Branch(op, wanted) ==
    /\ Executing(op)
    /\ Consume(1, TRUE)
    /\ IF Enough(1) /\ Truthy(Operand(1)) = wanted
       THEN JumpTo(Instr.arg) ELSE Step
    /\ UNCHANGED <<host, data, iterators, calls>>

ExecutingCall(names) == ExecutingNamed("Call") /\ Name \in names

\* Built-ins take precedence over host functions, and these over the
\* functions of the script.
CallBuiltin ==
    /\ ExecutingCall(BuiltinNames)
    /\ Compute(Arity(Name), Builtin(Name, Operands(Arity(Name))))
    /\ Step
    /\ UNCHANGED <<host, data, iterators, calls>>

CallCount ==
    /\ ExecutingCall({<<"count">>})
    /\ LET name == AsText(Operand(1))
       IN  Compute(1, IF Exists(tables, name)
                      THEN Ok(Int64(Wrap(Len(tables[name].rows)))) ELSE Err)
    /\ Step
    /\ UNCHANGED <<host, data, iterators, calls>>

CallFilter ==
    /\ ExecutingCall({<<"filter">>})
    /\ LET name == AsText(Operand(3))
           field == AsText(Operand(2))
           ok == Enough(3) /\ Sortable(tables, name, field)
           kept == Matching(tables, name, field, AsText(Operand(1)))
       IN  /\ Compute(3, IF ok THEN Ok(Int64(Wrap(Cardinality(kept)))) ELSE Err)
           /\ IF ok THEN \E order \in Increasing(kept) :
                            tables' = Reorder(tables, name, order)
              ELSE UNCHANGED tables
    /\ Step
    /\ UNCHANGED <<host, alerts, out, iterators, calls>>

CallSort ==
    /\ ExecutingCall({<<"sort">>})
    /\ LET name == AsText(Operand(2))
           field == AsText(Operand(1))
           ok == Enough(2) /\ Sortable(tables, name, field)
       IN  /\ Compute(2, IF ok THEN Ok(Unit) ELSE Err)
           /\ IF ok THEN \E order \in StableOrders(tables, name, field) :
                            tables' = Reorder(tables, name, order)
              ELSE UNCHANGED tables
    /\ Step
    /\ UNCHANGED <<host, alerts, out, iterators, calls>>

\* The callee takes its arguments off the stack and shares the rest of it.
CallFunction ==
    /\ ExecutingNamed("Call")
    /\ Name \notin BuiltinNames \cup HostNames
    /\ \E i \in Named(module.functions, Name) :
          LET arity == module.functions[i].arity
              below == [frames EXCEPT ![Len(frames)].ip = @ + 1]
          IN  IF Enough(arity)
              THEN /\ Enter([kind |-> "function", n |-> i], Operands(arity),
                            below, Len(stack) - arity)
                   /\ stack' = Beneath(arity)
                   /\ UNCHANGED status
              ELSE Underflow /\ Step /\ UNCHANGED calls
    /\ UNCHANGED <<host, data, iterators>>

CallUndefined ==
    /\ ExecutingNamed("Call")
    /\ Name \notin BuiltinNames \cup HostNames
    /\ Named(module.functions, Name) = {}
    /\ status' = "failed"
    /\ Step
    /\ UNCHANGED <<host, data, stack, iterators, calls>>

\* Mutations of Return: the activation goes on without its frame, leaves its
\* frame behind, or keeps its result from the caller.
ReturnGoesOn ==
    /\ Executing("Return")
    /\ frames' = Front(frames)
    /\ UNCHANGED <<host, data, stack, iterators, calls, status>>

ReturnLeavesFrame ==
    /\ Executing("Return")
    /\ calls' = Front(calls)
    /\ UNCHANGED <<host, data, stack, frames, iterators, status>>

ReturnDropsResult ==
    /\ Executing("Return")
    /\ frames' = Front(frames)
    /\ stack' = IF stack = <<>> THEN <<>> ELSE Front(stack)
    /\ calls' = Front(calls)
    /\ UNCHANGED <<host, data, iterators, status>>

\* The result is the top of the stack, whatever lies there, or unit; it goes
\* back on the stack if a frame is left to use it.
Return ==
    /\ Executing("Return")
    /\ frames' = Front(frames)
    /\ stack' = CASE stack = <<>> /\ Len(frames) > 1 -> <<Unit>>
                  [] stack # <<>> /\ Len(frames) = 1 -> Front(stack)
                  [] OTHER                           -> stack
    /\ calls' = Front(calls)
    /\ UNCHANGED <<host, data, iterators, status>>

\* Past the end of the code the activation returns, but pushes nothing.
FallOffEnd ==
    /\ status = "running" /\ calls # <<>> /\ AtEnd
    /\ frames' = Front(frames)
    /\ calls' = Front(calls)
    /\ UNCHANGED <<host, data, stack, iterators, status>>

\* The activation returns and leaves its frame behind.
Halt ==
    /\ Executing("Halt")
    /\ Step
    /\ calls' = Front(calls)
    /\ UNCHANGED <<host, data, stack, iterators, status>>
-----------------------------------------------------------------------------
(* Statements with an effect outside the frames.                           *)

\* Mutation of InsertTable: a row is what the stack holds, and goes in unchecked.
InsertWhatIsThere ==
    /\ ExecutingNamed("InsertTable") /\ Exists(tables, Name)
    /\ LET n == Smaller(Len(tables[Name].fields), Len(stack))
       IN  Consume(n, TRUE) /\ tables' = Insert(tables, Name, Operands(n))
    /\ Step
    /\ UNCHANGED <<host, alerts, out, iterators, calls>>

\* Mutation of InsertTable: a table that does not exist comes into being.
InsertDeclares ==
    /\ ExecutingNamed("InsertTable")
    /\ tables' = [name \in DOMAIN tables \cup {Name} |->
                    IF Exists(tables, name) THEN tables[name]
                    ELSE [fields |-> <<>>, rows |-> <<<<>>>>]]
    /\ Step
    /\ UNCHANGED <<host, alerts, out, stack, iterators, calls, status>>

\* The row is taken off the stack, as many values as the table has columns.
InsertTable ==
    /\ ExecutingNamed("InsertTable")
    /\ IF Exists(tables, Name)
       THEN LET n == Len(tables[Name].fields)
                row == Operands(n)
                ok == Enough(n) /\ CanInsert(tables, Name, row)
            IN  /\ Consume(n, ok)
                /\ tables' = IF ok THEN Insert(tables, Name, row) ELSE tables
       ELSE status' = "failed" /\ UNCHANGED <<stack, tables>>
    /\ Step
    /\ UNCHANGED <<host, alerts, out, iterators, calls>>

IndexGet ==
    /\ ExecutingNamed("IndexGet")
    /\ Compute(1, IF Exists(tables, Name) /\ InRange(tables, Name, Operand(1))
                  THEN Ok(Str(RowText(RowAt(tables, Name, Operand(1)))))
                  ELSE Err)
    /\ Step
    /\ UNCHANGED <<host, data, iterators, calls>>

\* The column is named by the argument of the Pop that must follow, which is
\* skipped.
IndexAssign ==
    /\ ExecutingNamed("IndexAssign")
    /\ LET next == Frame.ip + 2
           code == Code(Running)
           hasField == /\ next <= Len(code)
                       /\ code[next].op = "Pop"
                       /\ IsName(code[next].arg)
           field == Constant(code[next].arg)[2]
           ok == /\ Enough(2) /\ hasField
                 /\ CanAssign(tables, Name, Operand(1), field)
       IN  /\ Consume(2, ok)
           /\ tables' = IF ok THEN AssignCell(tables, Name, Operand(1), field,
                                              Operand(2))
                              ELSE tables
           /\ JumpTo(Frame.ip + (IF ok THEN 2 ELSE 1))
    /\ UNCHANGED <<host, alerts, out, iterators, calls>>

Alert ==
    /\ Executing("Alert")
    /\ Consume(Instr.arg, TRUE)
    /\ alerts' = IF Enough(Instr.arg)
                 THEN Append(alerts, Operands(Instr.arg)) ELSE alerts
    /\ Step
    /\ UNCHANGED <<host, tables, out, iterators, calls>>

Printed(v) == [kind |-> "print", name |-> <<>>, path |-> <<>>,
               rows |-> <<<<v>>>>]
Shown(name) == [kind |-> "show", name |-> name, path |-> <<>>,
                rows |-> tables[name].rows]

PrintValue ==
    /\ Executing("Print")
    /\ Consume(1, TRUE)
    /\ out' = IF Enough(1) THEN Append(out, Printed(Operand(1))) ELSE out
    /\ Step
    /\ UNCHANGED <<host, tables, alerts, iterators, calls>>

ShowTable ==
    /\ ExecutingNamed("ShowTable")
    /\ Consume(0, Exists(tables, Name))
    /\ out' = IF Exists(tables, Name) THEN Append(out, Shown(Name)) ELSE out
    /\ Step
    /\ UNCHANGED <<host, tables, alerts, iterators, calls>>

\* Mutation of ExportTable: no flush, so what does not fit is lost without an error.
ExportUnflushed ==
    /\ ExecutingNamed("ExportTable")
    /\ LET path == AsText(Operand(1))
           opened == Enough(1) /\ CanOpen(tables, Name, path)
       IN  /\ Consume(1, opened)
           /\ out' = IF opened THEN Append(out, ExportFile(tables, Name, path))
                     ELSE out
    /\ Step
    /\ UNCHANGED <<host, tables, alerts, iterators, calls>>

\* An export that fails half-way has changed the file all the same.
ExportTable ==
    /\ ExecutingNamed("ExportTable")
    /\ LET path == AsText(Operand(1))
           opened == Enough(1) /\ CanOpen(tables, Name, path)
       IN  /\ Consume(1, opened /\ Fits(tables, Name, path))
           /\ out' = IF opened THEN Append(out, ExportFile(tables, Name, path))
                     ELSE out
    /\ Step
    /\ UNCHANGED <<host, tables, alerts, iterators, calls>>
-----------------------------------------------------------------------------
(* Loops.  The iterators of all frames share one stack.  A loop's ForNext  *)
(* sits right after its ForInit, which is how the ghost tells loops apart. *)

Owner(at) == [depth |-> Len(frames), unit |-> Running, at |-> at]

\* A snapshot of the rows; an older iterator over the same table is dropped.
ForInit ==
    /\ ExecutingNamed("ForInit")
    /\ IF Exists(tables, Name)
       THEN /\ \E kept \in Increasing({i \in DOMAIN iterators :
                                          iterators[i].key # Instr.arg}) :
                  iterators' = Append([i \in DOMAIN kept |->
                                         iterators[kept[i]]],
                                      [key |-> Instr.arg,
                                       rows |-> tables[Name].rows,
                                       owner |-> Owner(Frame.ip)])
            /\ UNCHANGED status
       ELSE status' = "failed" /\ UNCHANGED iterators
    /\ Step
    /\ UNCHANGED <<host, data, stack, calls>>

HasRow == iterators # <<>> /\ Last(iterators).rows # <<>>

\* The innermost iterator yields, whichever loop it belongs to.
ForNextRow ==
    /\ Executing("ForNext") /\ HasRow
    /\ stack' = Append(stack, Str(RowText(Head(Last(iterators).rows))))
    /\ iterators' = [iterators EXCEPT ![Len(iterators)].rows = Tail(@)]
    /\ Step
    /\ UNCHANGED <<host, data, calls, status>>

\* Mutation of ForNextDone: the machine comes back to the exhausted loop.
ForNextAgain ==
    /\ Executing("ForNext") /\ ~HasRow
    /\ iterators' = IF iterators = <<>> THEN <<>> ELSE Front(iterators)
    /\ UNCHANGED <<host, data, stack, frames, calls, status>>

\* Mutation of ForNextDone: the exhausted iterator stays.
ForNextKeepsIterator ==
    /\ Executing("ForNext") /\ ~HasRow
    /\ JumpTo(Instr.arg)
    /\ UNCHANGED <<host, data, stack, iterators, calls, status>>

ForNextDone ==
    /\ Executing("ForNext") /\ ~HasRow
    /\ iterators' = IF iterators = <<>> THEN <<>> ELSE Front(iterators)
    /\ JumpTo(Instr.arg)
    /\ UNCHANGED <<host, data, stack, calls, status>>
-----------------------------------------------------------------------------
(* The host.                                                               *)

\* dispatch_event: an event that has no handler is ignored.
DispatchEvent(e) ==
    /\ status = "idle" /\ Len(events) < MaxEvents
    /\ events' = Append(events, e)
    /\ \/ /\ Named(module.event_handlers, e.name) = {}
          /\ UNCHANGED <<frames, calls, status>>
       \/ \E i \in Named(module.event_handlers, e.name) :
             /\ Enter([kind |-> "on", n |-> i], <<Event(e.fields)>>, frames,
                      Len(stack))
             /\ status' = "running"
    /\ UNCHANGED <<module, finishing, data, stack, iterators>>

\* The n-th finish handler starts over the frames below, or there is none left.
Finish(n, below) ==
    IF n <= Len(module.finish_handlers)
    THEN /\ Enter([kind |-> "finish", n |-> n], <<>>, below, Len(stack))
         /\ finishing' = n
         /\ status' = "running"
    ELSE /\ frames' = below
         /\ status' = "done"
         /\ UNCHANGED <<calls, finishing>>

\* run_finish, once the input is exhausted.
RunFinish ==
    /\ status = "idle"
    /\ Finish(1, frames)
    /\ UNCHANGED <<module, events, data, stack, iterators>>

\* The outermost activation is back in dispatch_event or run_finish, which pops
\* a frame if there still is one, and goes on to the next handler or event.
HostResumes ==
    /\ status = "running" /\ calls = <<>>
    /\ LET below == IF frames = <<>> THEN <<>> ELSE Front(frames)
       IN  IF finishing = 0
           THEN /\ frames' = below
                /\ status' = "idle"
                /\ UNCHANGED <<calls, finishing>>
           ELSE Finish(finishing + 1, below)
    /\ UNCHANGED <<module, events, data, stack, iterators>>

\* The run is over; an error or a panic has ended the program.
Terminated ==
    /\ status \in {"done", "failed", "panicked"}
    /\ UNCHANGED vars
-----------------------------------------------------------------------------
Execute ==
    \/ LoadConst \/ BadConstant \/ PopOperand \/ LoadVar \/ StoreVar
    \/ Binary \/ Unary \/ GetEventField \/ NoOperation
    \/ Jump \/ Branch("JumpIfFalse", FALSE) \/ Branch("JumpIfTrue", TRUE)
    \/ CallBuiltin \/ CallCount \/ CallFilter \/ CallSort
    \/ CallFunction \/ CallUndefined
    \/ Return \/ FallOffEnd \/ Halt
    \/ InsertTable \/ IndexGet \/ IndexAssign
    \/ Alert \/ PrintValue \/ ShowTable \/ ExportTable
    \/ ForInit \/ ForNextRow \/ ForNextDone

Next ==
    \/ \E e \in Events : DispatchEvent(e)
    \/ RunFinish
    \/ HostResumes
    \/ Execute
    \/ Terminated

Spec == Init /\ [][Next]_vars

\* One thread runs the machine and never waits: it keeps taking steps.
FairSpec == Spec /\ WF_vars(HostResumes \/ Execute)
-----------------------------------------------------------------------------
(* Properties.                                                             *)

Status == {"idle", "running", "done", "failed", "panicked"}
Output == [kind : {"print", "show", "export", "cut"}, name : Text, path : Text,
           rows : Seq(Row)]
FrameType == [unit : Units, locals : Seq(Value), ip : Nat]
CallType == [unit : Units, base : Nat]
IteratorType ==
    [key : Nat, rows : Seq(Row), owner : [depth : Nat, unit : Units, at : Nat]]

\* Every variable holds what its Rust type says, whatever bytecode runs.
TypeOK ==
    /\ module \in Modules
    /\ tables \in [{module.tables[i].name : i \in DOMAIN module.tables} -> Table]
    /\ alerts \in Seq(Row)
    /\ out \in Seq(Output)
    /\ stack \in Seq(Value)
    /\ frames \in Seq(FrameType)
    /\ iterators \in Seq(IteratorType)
    /\ calls \in Seq(CallType)
    /\ status \in Status
    /\ finishing \in Nat
    /\ events \in Seq(Events)

\* While an activation of run_until_return is left there is a frame for it to
\* work on, whatever bytecode runs: "no active frame" is never reported and the
\* unwraps of frames.last() never panic (vm.rs:131-146).
ActiveFrame == Len(calls) <= Len(frames)

\* Functions and handlers without a Halt, as the compiler emits them.
HaltFree ==
    /\ \A i \in DOMAIN module.functions :
          \A j \in DOMAIN module.functions[i].code :
             module.functions[i].code[j].op # "Halt"
    /\ \A i \in DOMAIN module.event_handlers :
          \A j \in DOMAIN module.event_handlers[i].code :
             module.event_handlers[i].code[j].op # "Halt"
    /\ \A i \in DOMAIN module.finish_handlers :
          \A j \in DOMAIN module.finish_handlers[i].code :
             module.finish_handlers[i].code[j].op # "Halt"

\* Each activation executes the code of the frame it advances: run_until_return
\* takes the instructions from its argument and the ip from the top frame, and
\* nothing but the order of the pushes and pops ties the two together.
FramesMatchCalls ==
    HaltFree => /\ Len(frames) = Len(calls)
                /\ \A i \in DOMAIN frames : frames[i].unit = calls[i].unit

\* Every row has one cell per column, whatever bytecode runs.  filter and
\* export_json index cells by column number and would panic otherwise
\* (host.rs:32, tables.rs:123).
RowsFit ==
    \A name \in DOMAIN tables : \A i \in DOMAIN tables[name].rows :
       Len(tables[name].rows[i]) = Len(tables[name].fields)

\* A loop is given rows by the iterator its own ForInit made, in the same
\* activation: no other loop's snapshot, and none that was dropped meanwhile.
LoopYieldsOwnRows ==
    Executing("ForNext") =>
       iterators # <<>> /\ Last(iterators).owner = Owner(Frame.ip - 1)

\* A local that is read is there, whichever branches were taken on the way: LoadVar
\* indexes the locals without a check (vm.rs:165), StoreVar grows them only where it
\* is executed, and the compiler gives all branches of a unit one set of slots.
LocalsAreThere == Executing("LoadVar") => Instr.arg < Len(Frame.locals)

\* Alerts and output are only ever appended to, over all the events.  An
\* instruction that fails has changed no table and no alert, however many of its
\* operands it had already taken, and what it has put out, if anything, is a file
\* with the first of a table's rows; a file that was cut short never goes
\* unreported (tables.rs:98-137, vm.rs:441-521).
RecordKept ==
    [][LET cut == out' # out /\ Last(out').kind = "cut"
       IN  /\ IsPrefix(alerts, alerts') /\ IsPrefix(out, out')
           /\ cut => /\ status' = "failed"
                     /\ Last(out').name \in DOMAIN tables
                     /\ IsPrefix(Last(out').rows, tables[Last(out').name].rows)
           /\ status' \in {"failed", "panicked"} =>
                 /\ UNCHANGED <<tables, alerts>>
                 /\ cut \/ UNCHANGED out]_vars

\* language_spec.md:170: "The CLI exits with status 2 on any error", which a
\* panic, at 101, does not.
NoPanic == status # "panicked"
=============================================================================
