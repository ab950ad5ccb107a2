-------------------------------- MODULE MCVM --------------------------------
(* The runs of VM: compiled scripts, and bytecode no compiler has emitted,  *)
(* as a .traceb file may hold it.                                           *)
EXTENDS VM, Codegen, Scripts

CompiledScripts == {Compile(p) : p \in AgreeableScripts}

Op(op, arg) == [op |-> op, arg |-> arg]

\* One handler over two tables, a function that halts, two finish handlers.
Pool == <<Str(<<"A">>), Int64(1), Str(<<"f">>), Str(<<"z">>), Str(<<"x">>),
          Str(<<"len">>), Str(<<"substring">>), Str(<<"k">>), Bool(FALSE),
          Str(<<"g">>), Int64(100), Str(<<"filter">>), Str(<<"sort">>),
          Str(<<"count">>)>>
Bytecode(code) ==
    [tables |-> <<[name |-> <<"A">>, columns |-> <<<<"x">>>>]>>,
     constants |-> Pool,
     functions |-> <<[name |-> <<"f">>, arity |-> 0, code |-> <<Op("Halt", 0)>>],
                     [name |-> <<"g">>, arity |-> 1, code |-> <<>>]>>,
     event_handlers |-> <<[name |-> <<"q">>, code |-> code]>>,
     finish_handlers |-> <<[code |-> <<>>], [code |-> <<Op("Return", 0)>>]>>]

Codes == {
    <<Op("LoadConst", 1), Op("JumpIfTrue", 3), Op("Halt", 0),
      Op("DispatchEvent", 0), Op("LoadConst", 1), Op("InsertTable", 0)>>,
    <<Op("Call", 2), Op("Halt", 0)>>,
    <<Op("LoadConst", 1), Op("Call", 9), Op("Pop", 0), Op("Pop", 0),
      Op("Return", 0)>>,
    <<Op("LoadConst", 1), Op("LoadConst", 0), Op("LoadConst", 1),
      Op("IndexAssign", 0), Op("Pop", 4)>>,
    <<Op("LoadConst", 1), Op("LoadConst", 1), Op("IndexAssign", 0)>>,
    <<Op("LoadConst", 10), Op("LoadConst", 10), Op("Mul", 0), Op("Neg", 0),
      Op("Print", 0), Op("LoadConst", 1), Op("Add", 0)>>,
    <<Op("Not", 0)>>, <<Op("IndexGet", 0)>>, <<Op("IndexAssign", 0)>>,
    <<Op("InsertTable", 0)>>, <<Op("ExportTable", 0)>>,
    <<Op("JumpIfFalse", 0)>>, <<Op("GetEventField", 7)>>,
    <<Op("Call", 11)>>, <<Op("Call", 12)>>, <<Op("Call", 13)>>,
    <<Op("ForInit", 3)>>, <<Op("ForNext", 7)>>, <<Op("LoadConst", 99)>>,
    <<Op("InsertTable", 1)>>, <<Op("InsertTable", 3)>>, <<Op("ShowTable", 3)>>,
    <<Op("StoreVar", 0)>>, <<Op("LoadVar", 1)>>, <<Op("Call", 3)>>,
    <<Op("Call", 5)>>, <<Op("Call", 9)>>, <<Op("Print", 0)>>, <<Op("Alert", 1)>>,
    <<Op("LoadVar", 0), Op("Call", 5), Op("GetEventField", 7)>>,
    <<Op("LoadVar", 0), Op("LoadConst", 1), Op("LoadConst", 1),
      Op("Call", 6), Op("Halt", 0)>>,
    <<Op("LoadConst", 7), Op("LoadConst", 8), Op("LoadConst", 1),
      Op("Call", 6)>>,
    <<Op("LoadVar", 0), Op("GetEventField", 4), Op("StoreVar", 2),
      Op("Alert", 1)>>,
    <<Op("LoadConst", 1), Op("InsertTable", 0), Op("ForInit", 0),
      Op("ForInit", 0), Op("ForNext", 6), Op("Halt", 0), Op("Return", 0)>>}

RawModules == {Bytecode(c) : c \in Codes}
RemainderModules == {Compile(p) : p \in RemainderScripts}
AllModules == CompiledScripts \cup RawModules
TwoEvents == {EventA, EventB}
AllEvents == {EventA, EventB, EventZ}
=============================================================================
