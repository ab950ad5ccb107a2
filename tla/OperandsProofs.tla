--------------------------- MODULE OperandsProofs ---------------------------
(***************************************************************************)
(* In a module whose code is balanced no activation consumes operands from *)
(* below its own, whatever events arrive.  The invariant counts, for each  *)
(* activation, the operands Depths promises it: above its base, and below  *)
(* the base of the activation it has called.                               *)
(***************************************************************************)
EXTENDS VMProofs, Operands

\* At ip, base and the operands promised there are within the height.
Covered(m, code, ip, base, height) ==
    /\ ip \in DOMAIN Depths(m, code)
    /\ Depths(m, code)[ip] \in Nat
    /\ base + Depths(m, code)[ip] <= height

\* Where the operands of the i-th activation end: its callee adds its result.
Height(i) == IF i = Len(calls) THEN Len(stack) ELSE calls[i + 1].base + 1

Bases ==
    /\ \A i \in DOMAIN calls : calls[i].base <= Len(stack)
    /\ \A i, j \in DOMAIN calls : i <= j => calls[i].base <= calls[j].base
    /\ \A i \in DOMAIN calls : i > 1 => calls[i].unit.kind = "function"

Promised ==
    status = "running" =>
       \A i \in DOMAIN calls :
          Covered(module, Code(calls[i].unit), frames[i].ip, calls[i].base, Height(i))

DepthInv ==
    /\ Matched /\ Bases /\ Promised
    /\ status \in {"idle", "done"} => calls = <<>>

\* The tables have the columns they were declared with.
ColumnsStay ==
    \A name \in DOMAIN tables :
       IsTable(module, name) /\ Width(module, name) = Len(tables[name].fields)

\* The code of a unit stays.
LEMMA CodeStays == ASSUME UNCHANGED module, NEW u PROVE Code(u)' = Code(u)
BY DEF Code

\* What is promised where an activation is.
LEMMA TopPromised ==
    ASSUME IInv, DepthInv, UnitsBalanced(module), status = "running", calls # <<>>
    PROVE  LET code == Code(Running)
               depth == Depths(module, code)
               n == Frame.ip
           IN  /\ n \in 0..Len(code) /\ depth[n] \in Nat
               /\ calls[Len(calls)].base \in Nat
               /\ calls[Len(calls)].base + depth[n] <= Len(stack)
               /\ BalancedAt(module, code, Running.kind, depth, n)
<1> DEFINE code == Code(Running)
           depth == Depths(module, code)
           n == Frame.ip
           top == calls[Len(calls)]
<1>1. /\ Len(calls) \in DOMAIN calls /\ Len(calls) = Len(frames)
      /\ Running \in Units /\ top \in CallType
  <2>1. Len(calls) \in DOMAIN calls /\ Running \in Units
    BY Types, TopFrame
  <2> QED BY <2>1, Types DEF DepthInv, Matched
<1>2. Covered(module, code, n, top.base, Len(stack))
  BY <1>1 DEF DepthInv, Promised, Height, Running, Frame
<1>3. Balanced(module, code, Running.kind)
  BY <1>1 DEF Units, UnitsBalanced, Code
<1>4. top.base \in Nat
  BY <1>1 DEF CallType
<1>5. /\ n \in DOMAIN depth /\ depth[n] \in Nat /\ top.base + depth[n] <= Len(stack)
  BY <1>2 DEF Covered
<1>6. DOMAIN depth = 0..Len(code)
  BY <1>3, Zenon DEF Balanced
<1>7. depth[n] # Unreached
  BY <1>5 DEF Unreached
<1>8. BalancedAt(module, code, Running.kind, depth, n)
  <2> HIDE DEF code, n
  <2> QED BY <1>3, <1>5, <1>7, Zenon DEF Balanced
<1> QED BY <1>4, <1>5, <1>6, <1>8

\* An instruction about to be executed finds its operands.
LEMMA FindsOperands ==
    ASSUME IInv, DepthInv, UnitsBalanced(module), NEW op, Executing(op)
    PROVE  LET code == Code(Running)
               depth == Depths(module, code)
               n == Frame.ip
               need == Takes(module, Instr)
           IN  /\ calls # <<>> /\ status = "running" /\ Instr.op = op
               /\ n \in Nat /\ depth[n] \in Nat /\ need \in 0..depth[n]
               /\ Len(stack) \in Nat
               /\ calls[Len(calls)].base \in Nat
               /\ calls[Len(calls)].base + depth[n] <= Len(stack)
               /\ WellNamed(module, Instr)
               /\ op = "Return" /\ Running.kind = "function" => depth[n] >= 1
               /\ \A x \in Exits(Instr, n) :
                     /\ x[1] \in DOMAIN depth
                     /\ depth[x[1]] \in 0..(depth[n] - need + x[2])
<1> DEFINE code == Code(Running)
           depth == Depths(module, code)
           n == Frame.ip
<1>1. calls # <<>> /\ status = "running" /\ Instr.op = op
  BY NextInstruction
<1>2. /\ n \in 0..Len(code) /\ depth[n] \in Nat
      /\ calls[Len(calls)].base \in Nat
      /\ calls[Len(calls)].base + depth[n] <= Len(stack)
      /\ BalancedAt(module, code, Running.kind, depth, n)
  BY <1>1, TopPromised
<1>3. Len(stack) \in Nat /\ n # Len(code)
  <2>1. stack \in Seq(Value) /\ code \in Seq(Instruction)
    BY Types, <1>1, TopFrame
  <2>2. Len(code) \in Nat /\ ~(n >= Len(code))
    BY <2>1 DEF Executing, AtEnd
  <2> QED BY <2>1, <2>2
<1>4. Instr = code[n + 1]
  BY DEF Instr
<1> HIDE DEF code, depth, n
<1> QED BY <1>1, <1>2, <1>3, <1>4 DEF BalancedAt, code, depth, n
-----------------------------------------------------------------------------
(* What keeps the invariant.                                               *)

\* The top activation goes on in its code, or the machine stops, with all that
\* lies below its base in place.
LEMMA TopGoesOn ==
    ASSUME IInv, DepthInv, status = "running", calls # <<>>,
           UNCHANGED <<module, calls>>, frames' \in Seq(FrameType), Advances,
           \A i \in DOMAIN frames : i # Len(frames) => frames'[i] = frames[i],
           stack' \in Seq(Value), status' \notin {"idle", "done"},
           calls[Len(calls)].base <= Len(stack'),
           status' = "running" =>
              Covered(module, Code(Running), frames'[Len(frames)].ip,
                      calls[Len(calls)].base, Len(stack'))
    PROVE  DepthInv'
<1>1. /\ calls \in Seq(CallType) /\ Len(calls) \in DOMAIN calls
      /\ Len(calls) = Len(frames) /\ DOMAIN calls = 1..Len(calls)
      /\ DOMAIN calls = DOMAIN frames
  BY Types, TopFrame DEF DepthInv, Matched
<1>2. \A i \in DOMAIN calls : calls[i].base \in Nat
  <2>1. \A i \in DOMAIN calls : calls[i] \in CallType
    BY <1>1
  <2> QED BY <2>1 DEF CallType
<1>3. Len(stack') \in Nat
  OBVIOUS
<1>4. Matched'
  BY MatchedAdvances DEF DepthInv
<1>5. Bases'
  <2>1. \A i \in DOMAIN calls : calls[i].base <= calls[Len(calls)].base
    BY <1>1 DEF DepthInv, Bases
  <2>2. \A i \in DOMAIN calls : calls[i].base <= Len(stack')
    BY <1>1, <1>2, <1>3, <2>1
  <2> QED BY <2>2 DEF DepthInv, Bases
<1>6. Promised'
  <2> SUFFICES ASSUME status' = "running", NEW i \in DOMAIN calls
               PROVE  Covered(module, Code(calls[i].unit), frames'[i].ip,
                              calls[i].base,
                              IF i = Len(calls) THEN Len(stack')
                              ELSE calls[i + 1].base + 1)
    BY CodeStays DEF Promised, Height
  <2>1. CASE i = Len(calls)
    BY <1>1, <2>1 DEF Running
  <2>2. CASE i # Len(calls)
    BY <1>1, <2>2 DEF DepthInv, Promised, Height
  <2> QED BY <2>1, <2>2
<1> QED BY <1>4, <1>5, <1>6 DEF DepthInv

\* The ip of the top frame is set, and the other frames are left alone.
LEMMA TopIp ==
    ASSUME IInv, calls # <<>>, NEW ip \in Nat, JumpTo(ip)
    PROVE  /\ frames' \in Seq(FrameType) /\ frames'[Len(frames)].ip = ip
           /\ \A i \in DOMAIN frames : i # Len(frames) => frames'[i] = frames[i]
<1>1. frames' \in Seq(FrameType)
  BY JumpToType
<1>2. Len(frames) \in DOMAIN frames /\ frames[Len(frames)] \in FrameType
  BY TopFrame DEF Frame
<1> QED BY <1>1, <1>2 DEF JumpTo, FrameType

\* A step is a jump to the next instruction.
LEMMA StepJumps ==
    ASSUME IInv, calls # <<>>, Step PROVE JumpTo(Frame.ip + 1) /\ Frame.ip + 1 \in Nat
BY TopFrame DEF Step, JumpTo, Frame, FrameType

\* An instruction that succeeded goes on at one of its exits.
LEMMA ExitKeeps ==
    ASSUME IInv, DepthInv, UnitsBalanced(module), NEW op, Executing(op),
           UNCHANGED <<module, calls>>,
           NEW x \in Exits(Instr, Frame.ip), x[1] \in Nat, x[2] \in Nat,
           frames' \in Seq(FrameType), frames'[Len(frames)].ip = x[1], Advances,
           \A i \in DOMAIN frames : i # Len(frames) => frames'[i] = frames[i],
           stack' \in Seq(Value), status' = "running",
           Len(stack') = Len(stack) - Takes(module, Instr) + x[2]
    PROVE  DepthInv'
<1> DEFINE depth == Depths(module, Code(Running))
           need == Takes(module, Instr)
           before == depth[Frame.ip]
           after == depth[x[1]]
           base == calls[Len(calls)].base
<1>1. /\ calls # <<>> /\ status = "running"
      /\ before \in Nat /\ need \in 0..before /\ Len(stack) \in Nat
      /\ base \in Nat /\ base + before <= Len(stack)
      /\ x[1] \in DOMAIN depth /\ after \in 0..(before - need + x[2])
  BY FindsOperands
<1>2. Len(stack') = Len(stack) - need + x[2]
  OBVIOUS
<1> HIDE DEF before, after, base, need
<1>3. after \in Nat /\ base + after <= Len(stack') /\ base <= Len(stack')
  BY <1>1, <1>2
<1>4. Covered(module, Code(Running), x[1], base, Len(stack'))
  BY <1>1, <1>3 DEF Covered, after
<1> QED BY <1>1, <1>3, <1>4, TopGoesOn DEF base

\* An instruction that failed may have taken its operands, and no more.
LEMMA FailureKeeps ==
    ASSUME IInv, DepthInv, UnitsBalanced(module), NEW op, Executing(op),
           UNCHANGED <<module, calls>>,
           frames' \in Seq(FrameType), Advances,
           \A i \in DOMAIN frames : i # Len(frames) => frames'[i] = frames[i],
           stack' \in Seq(Value), status' \in {"failed", "panicked"},
           Len(stack') >= Len(stack) - Takes(module, Instr)
    PROVE  DepthInv'
<1> DEFINE need == Takes(module, Instr)
           before == Depths(module, Code(Running))[Frame.ip]
           base == calls[Len(calls)].base
<1>1. /\ calls # <<>> /\ status = "running"
      /\ before \in Nat /\ need \in 0..before /\ Len(stack) \in Nat
      /\ base \in Nat /\ base + before <= Len(stack)
  BY FindsOperands
<1>2. Len(stack') >= Len(stack) - need /\ Len(stack') \in Nat
  OBVIOUS
<1> HIDE DEF before, base, need
<1>3. base <= Len(stack')
  BY <1>1, <1>2
<1> QED BY <1>1, <1>3, TopGoesOn DEF base

\* An instruction that succeeded and moves on to the next one.
LEMMA StepKeeps ==
    ASSUME IInv, DepthInv, UnitsBalanced(module), NEW op, Executing(op),
           UNCHANGED <<module, calls>>, Step, stack' \in Seq(Value),
           \/ /\ status' = "running"
              /\ \E g \in Nat : /\ <<Frame.ip + 1, g>> \in Exits(Instr, Frame.ip)
                                /\ Len(stack') = Len(stack) - Takes(module, Instr) + g
           \/ /\ status' \in {"failed", "panicked"}
              /\ Len(stack') >= Len(stack) - Takes(module, Instr)
    PROVE  DepthInv'
<1>1. calls # <<>>
  BY NextInstruction
<1>2. Advances /\ frames' \in Seq(FrameType)
  BY <1>1, StepAdvances
<1>3. Frame.ip + 1 \in Nat /\ JumpTo(Frame.ip + 1)
  BY <1>1, StepJumps
<1>4. /\ frames'[Len(frames)].ip = Frame.ip + 1
      /\ \A i \in DOMAIN frames : i # Len(frames) => frames'[i] = frames[i]
  BY <1>1, <1>3, TopIp
<1>5. ASSUME status' = "running",
             NEW g \in Nat, <<Frame.ip + 1, g>> \in Exits(Instr, Frame.ip),
             Len(stack') = Len(stack) - Takes(module, Instr) + g
      PROVE  DepthInv'
  <2> DEFINE x == <<Frame.ip + 1, g>>
  <2>1. x[1] = Frame.ip + 1 /\ x[2] = g /\ x \in Exits(Instr, Frame.ip)
    BY <1>5
  <2> HIDE DEF x
  <2> QED BY <1>2, <1>3, <1>4, <1>5, <2>1, ExitKeeps
<1>6. CASE /\ status' \in {"failed", "panicked"}
           /\ Len(stack') >= Len(stack) - Takes(module, Instr)
  BY <1>2, <1>4, <1>6, FailureKeeps
<1> QED BY <1>5, <1>6

\* An instruction that replaces its operands by a value, or stops.
LEMMA ComputeKeeps ==
    ASSUME IInv, DepthInv, UnitsBalanced(module), NEW op \in Producing, Executing(op),
           UNCHANGED <<module, calls>>, Step, NEW r,
           NEW n, n = Takes(module, Instr), Enough(n) => r \in Outcome, Compute(n, r)
    PROVE  DepthInv'
<1>1. n \in Nat /\ Enough(n) /\ Instr.op = op
  <2>1. /\ n \in Nat /\ Len(stack) \in Nat
        /\ Instr.op = op /\ n <= Len(stack)
    BY FindsOperands
  <2> QED BY <2>1 DEF Enough
<1>2. r.tag \in {"ok", "err", "panic"} /\ r.value \in Value
  BY <1>1 DEF Outcome
<1>3. /\ stack' = Beneath(n) \o (IF r.tag = "ok" THEN <<r.value>> ELSE <<>>)
      /\ status' = After(r.tag)
  BY <1>1 DEF Compute
<1>4. /\ Beneath(n) \in Seq(Value) /\ Len(Beneath(n)) = Len(stack) - n
      /\ Len(stack) \in Nat
  BY <1>1, OperandTypes, Types
<1>5. CASE r.tag = "ok"
  <2>1. status' = "running" /\ stack' = Append(Beneath(n), r.value)
    BY <1>2, <1>3, <1>4, <1>5 DEF After
  <2>2. stack' \in Seq(Value) /\ Len(stack') = Len(stack) - n + 1
    BY <1>2, <1>4, <2>1
  <2>3. <<Frame.ip + 1, 1>> \in Exits(Instr, Frame.ip)
    BY <1>1 DEF Exits, Producing, BinaryOps, UnaryOps, Comparisons
  <2> QED BY <2>1, <2>2, <2>3, StepKeeps
<1>6. CASE r.tag # "ok"
  <2>1. status' \in {"failed", "panicked"} /\ stack' = Beneath(n)
    BY <1>2, <1>3, <1>4, <1>6 DEF After
  <2>2. stack' \in Seq(Value) /\ Len(stack') >= Len(stack) - n
    BY <1>4, <2>1
  <2> QED BY <2>1, <2>2, StepKeeps
<1> QED BY <1>5, <1>6

\* What taking its operands leaves of the stack, for an instruction about to run.
LEMMA ConsumeLeaves ==
    ASSUME IInv, DepthInv, UnitsBalanced(module), NEW op, Executing(op), NEW ok,
           NEW n, n = Takes(module, Instr), Consume(n, ok)
    PROVE  /\ stack' \in Seq(Value) /\ Len(stack') = Len(stack) - n
           /\ n \in Nat /\ Enough(n) /\ Len(stack) \in Nat
           /\ status' = IF ok THEN "running" ELSE "failed"
<1>1. n \in Nat /\ n <= Len(stack) /\ Len(stack) \in Nat
  BY FindsOperands
<1>2. Enough(n)
  BY <1>1 DEF Enough
<1>3. stack' = Beneath(n) /\ status' = After(IF ok THEN "ok" ELSE "err")
  BY <1>2 DEF Consume
<1> QED BY <1>1, <1>2, <1>3, OperandTypes DEF After

\* An instruction that takes its operands and moves on, or stops.
LEMMA ConsumeKeeps ==
    ASSUME IInv, DepthInv, UnitsBalanced(module), NEW op, Executing(op),
           UNCHANGED <<module, calls>>, Step, NEW ok,
           NEW n, n = Takes(module, Instr), Consume(n, ok),
           <<Frame.ip + 1, 0>> \in Exits(Instr, Frame.ip)
    PROVE  DepthInv'
<1>1. /\ stack' \in Seq(Value) /\ Len(stack') = Len(stack) - n
      /\ n \in Nat /\ Len(stack) \in Nat
      /\ status' = IF ok THEN "running" ELSE "failed"
  BY ConsumeLeaves
<1>2. Len(stack') = Len(stack) - n + 0 /\ Len(stack') >= Len(stack) - n
  BY <1>1
<1> QED BY <1>1, <1>2, StepKeeps
-----------------------------------------------------------------------------
(* The operands of each instruction.                                       *)

\* What Takes and Exits say of the opcodes, one by one.
LEMMA OpcodeTable ==
    ASSUME IInv, NEW op, Executing(op)
    PROVE  LET need == Takes(module, Instr)
               exits == Exits(Instr, Frame.ip)
               next == <<Frame.ip + 1, 0>>
               pushed == <<Frame.ip + 1, 1>>
               target == <<Instr.arg, 0>>
           IN  /\ op \in BinaryOps => need = 2
               /\ op \in UnaryOps => need = 1
               /\ op = "IndexAssign" => need = 2 /\ <<Frame.ip + 2, 0>> \in exits
               /\ op \in {"GetEventField", "IndexGet"} => need = 1
               /\ op \in {"LoadConst", "LoadVar"} => need = 0
               /\ op = "StoreVar" => need = 1 /\ pushed \in exits
               /\ op \in {"Pop", "Print", "ExportTable"} => need = 1 /\ next \in exits
               /\ op = "Alert" => need = Instr.arg /\ next \in exits
               /\ op = "InsertTable" =>
                     /\ next \in exits
                     /\ need = IF IsTable(module, NameIn(module, Instr))
                               THEN Width(module, NameIn(module, Instr)) ELSE 0
               /\ op = "Call" => /\ need = Parameters(module, NameIn(module, Instr))
                                 /\ pushed \in exits
               /\ op \in {"ShowTable", "ForInit", "DispatchEvent"} =>
                     need = 0 /\ next \in exits
               /\ op = "Jump" => need = 0 /\ target \in exits
               /\ op \in {"JumpIfFalse", "JumpIfTrue"} =>
                     need = 1 /\ next \in exits /\ target \in exits
               /\ op = "ForNext" => need = 0 /\ pushed \in exits /\ target \in exits
<1>1. Instr.op = op
  BY NextInstruction
<1> QED BY <1>1 DEF Takes, Exits, Producing, BinaryOps, UnaryOps, Comparisons

\* An instruction about to be executed has all it needs.
LEMMA Ready ==
    ASSUME IInv, DepthInv, UnitsBalanced(module), NEW op, Executing(op)
    PROVE  /\ calls # <<>> /\ status = "running" /\ Instr.arg \in Nat
           /\ Frame.ip \in Nat /\ stack \in Seq(Value) /\ Len(stack) \in Nat
           /\ Takes(module, Instr) \in Nat /\ Takes(module, Instr) <= Len(stack)
<1> DEFINE need == Takes(module, Instr)
           before == Depths(module, Code(Running))[Frame.ip]
           base == calls[Len(calls)].base
<1>1. /\ before \in Nat /\ need \in 0..before /\ Len(stack) \in Nat
      /\ base \in Nat /\ base + before <= Len(stack) /\ Frame.ip \in Nat
  BY FindsOperands
<1>2. calls # <<>> /\ status = "running" /\ Instr.arg \in Nat /\ stack \in Seq(Value)
  BY NextInstruction, Types
<1> HIDE DEF before, base, need
<1>3. need \in Nat /\ need <= Len(stack)
  BY <1>1
<1> QED BY <1>1, <1>2, <1>3 DEF need

\* The operands of a call, by the kind of what it calls.
LEMMA CallTable ==
    ASSUME NEW m, NEW name
    PROVE  /\ name \in BuiltinNames => Parameters(m, name) = Arity(name)
           /\ name = <<"count">> => Parameters(m, name) = 1
           /\ name = <<"filter">> => Parameters(m, name) = 3
           /\ name = <<"sort">> => Parameters(m, name) = 2
<1>1. /\ name = <<"count">> => name \notin BuiltinNames
      /\ name = <<"filter">> => name \notin BuiltinNames
      /\ name = <<"sort">> => name \notin BuiltinNames
  BY DEF BuiltinNames
<1>2. /\ <<"count">> # <<"filter">> /\ <<"count">> # <<"sort">>
      /\ <<"filter">> # <<"sort">>
  OBVIOUS
<1>3. CASE name \in BuiltinNames
  BY <1>1, <1>3 DEF Parameters
<1>4. CASE name \in HostNames
  BY <1>1, <1>2, <1>4 DEF Parameters, HostNames
<1> QED BY <1>3, <1>4 DEF HostNames

\* The name of the instruction as the machine and as Takes reads it.
LEMMA SameName == Name = NameIn(module, Instr)
BY DEF Name, NameIn, Constant

\* LoadConst keeps the invariant.
LEMMA LoadConstKeeps ==
    ASSUME IInv, DepthInv, UnitsBalanced(module), LoadConst PROVE DepthInv'
<1>1. /\ Executing("LoadConst") /\ Instr.arg \in Nat /\ IsConstant(Instr.arg)
      /\ Compute(0, Ok(Constant(Instr.arg))) /\ Step /\ UNCHANGED <<module, calls>>
  BY NextInstruction DEF LoadConst, host
<1>2. Ok(Constant(Instr.arg)) \in Outcome
  BY <1>1, ConstantType, MakeOutcome
<1>3. Takes(module, Instr) = 0
  BY <1>1, OpcodeTable
<1> QED BY <1>1, <1>2, <1>3, ComputeKeeps DEF Producing

\* An instruction without a constant fails with the stack as it was.
LEMMA BadConstantKeeps ==
    ASSUME IInv, DepthInv, UnitsBalanced(module), BadConstant PROVE DepthInv'
<1>1. PICK op \in NamingOps \cup {"LoadConst"} : Executing(op)
  BY DEF BadConstant
<1>2. Step /\ UNCHANGED <<module, calls, stack>> /\ status' = "failed"
  BY DEF BadConstant, host
<1>3. Takes(module, Instr) \in Nat /\ Len(stack) \in Nat /\ stack \in Seq(Value)
  BY <1>1, Ready
<1>4. Len(stack') >= Len(stack) - Takes(module, Instr)
  BY <1>2, <1>3
<1> QED BY <1>1, <1>2, <1>3, <1>4, StepKeeps

\* Pop takes an operand of its own.
LEMMA PopOperandKeeps ==
    ASSUME IInv, DepthInv, UnitsBalanced(module), PopOperand PROVE DepthInv'
<1>1. /\ Executing("Pop") /\ Step /\ UNCHANGED <<module, calls, status>>
  BY DEF PopOperand, host
<1>2. /\ Takes(module, Instr) = 1
      /\ <<Frame.ip + 1, 0>> \in Exits(Instr, Frame.ip)
  BY <1>1, OpcodeTable
<1>3. /\ status = "running" /\ stack \in Seq(Value) /\ stack # <<>>
  <2>1. Len(stack) >= 1 /\ stack \in Seq(Value) /\ status = "running"
    BY <1>1, <1>2, Ready
  <2> QED BY <2>1
<1>4. stack' = Front(stack)
  BY <1>3 DEF PopOperand
<1>5. stack' \in Seq(Value) /\ Len(stack') = Len(stack) - 1 + 0
  BY <1>3, <1>4, FrontType
<1> QED BY <1>1, <1>2, <1>3, <1>5, StepKeeps

\* LoadVar keeps the invariant.
LEMMA LoadVarKeeps ==
    ASSUME IInv, DepthInv, UnitsBalanced(module), LoadVar PROVE DepthInv'
<1> DEFINE r == IF Instr.arg < Len(Frame.locals)
                THEN Ok(Frame.locals[Instr.arg + 1]) ELSE Panic
<1>1. /\ Executing("LoadVar") /\ Compute(0, r) /\ Step
      /\ UNCHANGED <<module, calls>>
  BY DEF LoadVar, host
<1>2. r \in Outcome
  <2>1. Instr.arg \in Nat /\ Frame.locals \in Seq(Value)
    BY <1>1, NextInstruction, TopFrame DEF FrameType
  <2>2. Instr.arg < Len(Frame.locals) => Frame.locals[Instr.arg + 1] \in Value
    BY <2>1
  <2> QED BY <2>2, MakeOutcome
<1>3. Takes(module, Instr) = 0
  BY <1>1, OpcodeTable
<1> HIDE DEF r
<1> QED BY <1>1, <1>2, <1>3, ComputeKeeps DEF Producing

\* StoreVar leaves what it stores on the stack.
LEMMA StoreVarKeeps ==
    ASSUME IInv, DepthInv, UnitsBalanced(module), StoreVar PROVE DepthInv'
<1>1. Executing("StoreVar") /\ UNCHANGED <<module, calls>>
  BY DEF StoreVar, host
<1>2. /\ Takes(module, Instr) = 1
      /\ <<Frame.ip + 1, 1>> \in Exits(Instr, Frame.ip)
  BY <1>1, OpcodeTable
<1>3. /\ status = "running" /\ Len(stack) \in Nat /\ Len(stack) >= 1
      /\ stack \in Seq(Value) /\ Frame.ip + 1 \in Nat /\ calls # <<>>
  BY <1>1, <1>2, Ready
<1> DEFINE f == [unit |-> Frame.unit,
                 locals |-> Stored(Frame.locals, Instr.arg, Operand(1)),
                 ip |-> Frame.ip + 1]
<1>4. frames' = [frames EXCEPT ![Len(frames)] = f] /\ UNCHANGED <<stack, status>>
  BY <1>3 DEF StoreVar, Enough
<1>5. f.ip = Frame.ip + 1
  OBVIOUS
<1> HIDE DEF f
<1>6. /\ frames'[Len(frames)].ip = Frame.ip + 1
      /\ \A i \in DOMAIN frames : i # Len(frames) => frames'[i] = frames[i]
  BY <1>3, <1>4, <1>5, TopFrame
<1>7. Advances /\ frames' \in Seq(FrameType)
  BY StoreVarAdvances
<1> DEFINE x == <<Frame.ip + 1, 1>>
<1>8. x[1] = Frame.ip + 1 /\ x[2] = 1 /\ x \in Exits(Instr, Frame.ip)
  BY <1>2
<1> HIDE DEF x
<1>9. Len(stack') = Len(stack) - Takes(module, Instr) + x[2]
  BY <1>2, <1>3, <1>4, <1>8
<1> QED BY <1>1, <1>3, <1>4, <1>6, <1>7, <1>8, <1>9, ExitKeeps

\* Binary operators keep the invariant.
LEMMA BinaryKeeps ==
    ASSUME IInv, DepthInv, UnitsBalanced(module), Binary PROVE DepthInv'
<1>1. PICK op \in BinaryOps :
         Executing(op) /\ Compute(2, BinaryOp(op, Operand(2), Operand(1)))
  BY DEF Binary
<1>2. Step /\ UNCHANGED <<module, calls>>
  BY DEF Binary, host
<1>4. Takes(module, Instr) = 2
  BY <1>1, OpcodeTable
<1>3. Enough(2) => BinaryOp(op, Operand(2), Operand(1)) \in Outcome
  BY OperandTypes, BinaryOpType
<1> QED BY <1>1, <1>2, <1>3, <1>4, ComputeKeeps DEF Producing

\* Unary operators keep the invariant.
LEMMA UnaryKeeps ==
    ASSUME IInv, DepthInv, UnitsBalanced(module), Unary PROVE DepthInv'
<1>1. PICK op \in UnaryOps : Executing(op) /\ Compute(1, UnaryOp(op, Operand(1)))
  BY DEF Unary
<1>2. Step /\ UNCHANGED <<module, calls>>
  BY DEF Unary, host
<1>4. Takes(module, Instr) = 1
  BY <1>1, OpcodeTable
<1>3. Enough(1) => UnaryOp(op, Operand(1)) \in Outcome
  BY OperandTypes, UnaryOpType
<1> QED BY <1>1, <1>2, <1>3, <1>4, ComputeKeeps DEF Producing

\* GetEventField keeps the invariant.
LEMMA GetEventFieldKeeps ==
    ASSUME IInv, DepthInv, UnitsBalanced(module), GetEventField PROVE DepthInv'
<1> DEFINE r == IF TypeOf(Operand(1)) # "event" THEN Err
                ELSE IF Name \in Present(Operand(1)[2])
                THEN Ok(Operand(1)[2][Name]) ELSE Ok(Unit)
<1>1. /\ Executing("GetEventField") /\ Compute(1, r) /\ Step
      /\ UNCHANGED <<module, calls>>
  BY DEF GetEventField, ExecutingNamed, host
<1>2. Enough(1) => r \in Outcome
  <2> SUFFICES ASSUME Enough(1) PROVE r \in Outcome
    OBVIOUS
  <2>1. Operand(1) \in Value
    BY OperandTypes
  <2>2. TypeOf(Operand(1)) = "event" => Operand(1)[2] \in EventFields
    BY <2>1, Payload
  <2> QED BY <2>1, <2>2, FieldType, MakeOutcome, MakeValue
<1>3. Takes(module, Instr) = 1
  BY <1>1, OpcodeTable
<1> HIDE DEF r
<1> QED BY <1>1, <1>2, <1>3, ComputeKeeps DEF Producing

\* The reserved instruction keeps the invariant.
LEMMA NoOperationKeeps ==
    ASSUME IInv, DepthInv, UnitsBalanced(module), NoOperation PROVE DepthInv'
<1>1. /\ Executing("DispatchEvent") /\ Step /\ UNCHANGED <<module, calls, stack, status>>
  BY DEF NoOperation, host
<1>2. /\ Takes(module, Instr) = 0 /\ <<Frame.ip + 1, 0>> \in Exits(Instr, Frame.ip)
      /\ status = "running" /\ stack \in Seq(Value) /\ Len(stack) \in Nat
  BY <1>1, OpcodeTable, Ready
<1>3. stack' \in Seq(Value) /\ status' = "running" /\ 0 \in Nat
      /\ Len(stack') = Len(stack) - Takes(module, Instr) + 0
  BY <1>1, <1>2
<1>4. \E g \in Nat : /\ <<Frame.ip + 1, g>> \in Exits(Instr, Frame.ip)
                     /\ Len(stack') = Len(stack) - Takes(module, Instr) + g
  BY <1>2, <1>3
<1> QED BY <1>1, <1>3, <1>4, StepKeeps

\* An instruction that jumps to its argument keeps the invariant.
LEMMA JumpedKeeps ==
    ASSUME IInv, DepthInv, UnitsBalanced(module), NEW op, Executing(op),
           UNCHANGED <<module, calls>>, JumpTo(Instr.arg),
           <<Instr.arg, 0>> \in Exits(Instr, Frame.ip),
           stack' \in Seq(Value), status' = "running",
           Len(stack') = Len(stack) - Takes(module, Instr)
    PROVE  DepthInv'
<1>1. calls # <<>> /\ Instr.arg \in Nat
  BY NextInstruction
<1>2. Advances
  BY <1>1, StepAdvances
<1>3. /\ frames' \in Seq(FrameType) /\ frames'[Len(frames)].ip = Instr.arg
      /\ \A i \in DOMAIN frames : i # Len(frames) => frames'[i] = frames[i]
  BY <1>1, TopIp
<1> DEFINE x == <<Instr.arg, 0>>
<1>4. x[1] = Instr.arg /\ x[2] = 0 /\ x \in Exits(Instr, Frame.ip)
  OBVIOUS
<1> HIDE DEF x
<1>5. Len(stack') = Len(stack) - Takes(module, Instr) + x[2]
  BY <1>4
<1> QED BY <1>1, <1>2, <1>3, <1>4, <1>5, ExitKeeps

\* Jump keeps the invariant.
LEMMA JumpKeeps ==
    ASSUME IInv, DepthInv, UnitsBalanced(module), Jump PROVE DepthInv'
<1>1. /\ Executing("Jump") /\ JumpTo(Instr.arg)
      /\ UNCHANGED <<module, calls, stack, status>>
  BY DEF Jump, host
<1>2. /\ Takes(module, Instr) = 0 /\ <<Instr.arg, 0>> \in Exits(Instr, Frame.ip)
      /\ status = "running" /\ stack \in Seq(Value) /\ Len(stack) \in Nat
  BY <1>1, OpcodeTable, Ready
<1>3. Len(stack') = Len(stack) - Takes(module, Instr)
  BY <1>1, <1>2
<1> QED BY <1>1, <1>2, <1>3, JumpedKeeps

\* Conditional jumps keep the invariant.
LEMMA BranchKeeps ==
    ASSUME IInv, DepthInv, UnitsBalanced(module), NEW op \in {"JumpIfFalse", "JumpIfTrue"},
           NEW wanted, Branch(op, wanted)
    PROVE  DepthInv'
<1>1. /\ Executing(op) /\ Consume(1, TRUE) /\ UNCHANGED <<module, calls>>
      /\ Step \/ JumpTo(Instr.arg)
  BY DEF Branch, host
<1>2. /\ Takes(module, Instr) = 1
      /\ <<Frame.ip + 1, 0>> \in Exits(Instr, Frame.ip)
      /\ <<Instr.arg, 0>> \in Exits(Instr, Frame.ip)
  BY <1>1, OpcodeTable
<1>3. stack' \in Seq(Value) /\ Len(stack') = Len(stack) - 1 /\ status' = "running"
  BY <1>1, <1>2, ConsumeLeaves
<1>4. CASE Step
  BY <1>1, <1>2, <1>4, ConsumeKeeps
<1>5. CASE JumpTo(Instr.arg)
  BY <1>1, <1>2, <1>3, <1>5, JumpedKeeps
<1> QED BY <1>1, <1>4, <1>5

-----------------------------------------------------------------------------
(* Calls of built-ins and host functions.                                  *)

\* A call needs what it calls takes.
LEMMA CallNeeds ==
    ASSUME IInv, Executing("Call") PROVE Takes(module, Instr) = Parameters(module, Name)
BY OpcodeTable, SameName

\* CallBuiltin keeps the invariant.
LEMMA CallBuiltinKeeps ==
    ASSUME IInv, DepthInv, UnitsBalanced(module), CallBuiltin PROVE DepthInv'
<1> DEFINE n == Arity(Name)
           r == Builtin(Name, Operands(n))
<1>1. /\ Executing("Call") /\ Name \in BuiltinNames /\ Compute(n, r) /\ Step
      /\ UNCHANGED <<module, calls>>
  BY DEF CallBuiltin, ExecutingCall, ExecutingNamed, host
<1>2. n = Takes(module, Instr)
  BY <1>1, CallNeeds, CallTable
<1>3. n \in Nat
  BY ArityType
<1> HIDE DEF n
<1>4. Enough(n) => r \in Outcome
  BY <1>3, OperandTypes, BuiltinType
<1> HIDE DEF r
<1> QED BY <1>1, <1>2, <1>4, ComputeKeeps DEF Producing

\* count keeps the invariant.
LEMMA CallCountKeeps ==
    ASSUME IInv, DepthInv, UnitsBalanced(module), CallCount PROVE DepthInv'
<1> DEFINE name == AsText(Operand(1))
           r == IF Exists(tables, name)
                THEN Ok(Int64(Wrap(Len(tables[name].rows)))) ELSE Err
<1>1. /\ Executing("Call") /\ Name = <<"count">> /\ Compute(1, r) /\ Step
      /\ UNCHANGED <<module, calls>>
  BY DEF CallCount, ExecutingCall, ExecutingNamed, host
<1>2. 1 = Takes(module, Instr)
  BY <1>1, CallNeeds, CallTable
<1> HIDE DEF name
<1>3. r \in Outcome
  <2>1. ASSUME Exists(tables, name) PROVE Len(tables[name].rows) \in Int
    BY <2>1, RowCount
  <2> QED BY <2>1, WrappedValue, MakeOutcome
<1> HIDE DEF r
<1> QED BY <1>1, <1>2, <1>3, ComputeKeeps DEF Producing

\* filter keeps the invariant.
LEMMA CallFilterTakesThree ==
    ASSUME IInv, DepthInv, UnitsBalanced(module), CallFilter PROVE DepthInv'
<1> DEFINE name == AsText(Operand(3))
           field == AsText(Operand(2))
           kept == Matching(tables, name, field, AsText(Operand(1)))
           ok == Enough(3) /\ Sortable(tables, name, field)
           r == IF ok THEN Ok(Int64(Wrap(Cardinality(kept)))) ELSE Err
<1>1. Executing("Call") /\ Name = <<"filter">>
  BY DEF CallFilter, ExecutingCall, ExecutingNamed
<1>2. Compute(3, r) /\ Step /\ UNCHANGED <<module, calls>>
  BY Zenon DEF CallFilter, host
<1>3. 3 = Takes(module, Instr)
  BY <1>1, CallNeeds, CallTable
<1> HIDE DEF name, field
<1>4. ok => Cardinality(kept) \in Int
  BY CardinalityOfRows DEF Sortable
<1> HIDE DEF ok, kept
<1>5. r \in Outcome
  BY <1>4, WrappedValue, MakeOutcome
<1> HIDE DEF r
<1> QED BY <1>1, <1>2, <1>3, <1>5, ComputeKeeps DEF Producing

\* sort keeps the invariant.
LEMMA CallSortTakesTwo ==
    ASSUME IInv, DepthInv, UnitsBalanced(module), CallSort PROVE DepthInv'
<1> DEFINE ok == Enough(2) /\ Sortable(tables, AsText(Operand(2)), AsText(Operand(1)))
           r == IF ok THEN Ok(Unit) ELSE Err
<1>1. Executing("Call") /\ Name = <<"sort">>
  BY DEF CallSort, ExecutingCall, ExecutingNamed
<1>2. Compute(2, r) /\ Step /\ UNCHANGED <<module, calls>>
  BY Zenon DEF CallSort, host
<1>3. 2 = Takes(module, Instr)
  BY <1>1, CallNeeds, CallTable
<1> HIDE DEF ok
<1>4. r \in Outcome
  BY MakeValue, MakeOutcome
<1> HIDE DEF r
<1> QED BY <1>1, <1>2, <1>3, <1>4, ComputeKeeps DEF Producing

\* An undefined function fails with the stack as it was.
LEMMA CallUndefinedKeeps ==
    ASSUME IInv, DepthInv, UnitsBalanced(module), CallUndefined PROVE DepthInv'
<1>1. /\ Executing("Call") /\ Step /\ UNCHANGED <<module, calls, stack>>
      /\ status' = "failed"
  BY DEF CallUndefined, ExecutingNamed, host
<1>2. Takes(module, Instr) \in Nat /\ Len(stack) \in Nat /\ stack \in Seq(Value)
  BY <1>1, Ready
<1>3. Len(stack') >= Len(stack) - Takes(module, Instr)
  BY <1>1, <1>2
<1> QED BY <1>1, <1>2, <1>3, StepKeeps
-----------------------------------------------------------------------------
(* Statements with an effect outside the frames.                           *)

\* InsertTable takes one operand per declared column.
LEMMA InsertTableTakesRow ==
    ASSUME IInv, DepthInv, UnitsBalanced(module), ColumnsStay, InsertTable
    PROVE  DepthInv'
<1>1. Executing("InsertTable") /\ Step /\ UNCHANGED <<module, calls>>
  BY DEF InsertTable, ExecutingNamed, host
<1>2. /\ <<Frame.ip + 1, 0>> \in Exits(Instr, Frame.ip)
      /\ Takes(module, Instr) = IF IsTable(module, Name) THEN Width(module, Name) ELSE 0
  BY <1>1, OpcodeTable, SameName
<1>3. CASE Exists(tables, Name)
  <2> DEFINE n == Len(tables[Name].fields)
             ok == Enough(n) /\ CanInsert(tables, Name, Operands(n))
  <2>1. Consume(n, ok)
    BY <1>3, Zenon DEF InsertTable
  <2>2. n = Takes(module, Instr)
    BY <1>2, <1>3 DEF ColumnsStay, Exists
  <2> HIDE DEF n, ok
  <2> QED BY <1>1, <1>2, <2>1, <2>2, ConsumeKeeps
<1>4. CASE ~Exists(tables, Name)
  <2>1. UNCHANGED stack /\ status' = "failed"
    BY <1>4 DEF InsertTable
  <2>2. Takes(module, Instr) \in Nat /\ Len(stack) \in Nat /\ stack \in Seq(Value)
    BY <1>1, Ready
  <2>3. Len(stack') >= Len(stack) - Takes(module, Instr)
    BY <2>1, <2>2
  <2> QED BY <1>1, <2>1, <2>2, <2>3, StepKeeps
<1> QED BY <1>3, <1>4

\* IndexGet replaces an index by a row.
LEMMA IndexGetKeeps ==
    ASSUME IInv, DepthInv, UnitsBalanced(module), IndexGet PROVE DepthInv'
<1> DEFINE r == IF Exists(tables, Name) /\ InRange(tables, Name, Operand(1))
                THEN Ok(Str(RowText(RowAt(tables, Name, Operand(1))))) ELSE Err
<1>1. Executing("IndexGet") /\ Compute(1, r) /\ Step /\ UNCHANGED <<module, calls>>
  BY DEF IndexGet, ExecutingNamed, host
<1>2. Enough(1) => r \in Outcome
  <2> SUFFICES ASSUME Enough(1) PROVE r \in Outcome
    OBVIOUS
  <2>1. Operand(1) \in Value
    BY OperandTypes
  <2>2. CASE Exists(tables, Name) /\ InRange(tables, Name, Operand(1))
    <3>1. RowText(RowAt(tables, Name, Operand(1))) \in Text
      BY <2>1, <2>2, RowAtType, RowTextType
    <3> QED BY <2>2, <3>1, MakeValue, MakeOutcome
  <2>3. CASE ~(Exists(tables, Name) /\ InRange(tables, Name, Operand(1)))
    BY <2>3, MakeOutcome
  <2> QED BY <2>2, <2>3
<1>3. 1 = Takes(module, Instr)
  BY <1>1, OpcodeTable
<1> HIDE DEF r
<1> QED BY <1>1, <1>2, <1>3, ComputeKeeps DEF Producing

\* IndexAssign skips the Pop that names the column, and leaves neither operand.
LEMMA IndexAssignTakesTwo ==
    ASSUME IInv, DepthInv, UnitsBalanced(module), IndexAssign PROVE DepthInv'
<1> DEFINE next == Frame.ip + 2
           code == Code(Running)
           hasField == /\ next <= Len(code)
                       /\ code[next].op = "Pop"
                       /\ IsName(code[next].arg)
           field == Constant(code[next].arg)[2]
           ok == /\ Enough(2) /\ hasField
                 /\ CanAssign(tables, Name, Operand(1), field)
           to == Frame.ip + (IF ok THEN 2 ELSE 1)
<1>1. Executing("IndexAssign") /\ UNCHANGED <<module, calls>>
  BY DEF IndexAssign, ExecutingNamed, host
<1>2. Consume(2, ok) /\ JumpTo(to)
  BY Zenon DEF IndexAssign
<1> HIDE DEF ok
<1>3. Takes(module, Instr) = 2 /\ <<Frame.ip + 2, 0>> \in Exits(Instr, Frame.ip)
  BY <1>1, OpcodeTable
<1>4. /\ calls # <<>> /\ Frame.ip \in Nat /\ Len(stack) \in Nat /\ to \in Nat
  BY <1>1, Ready
<1>5. /\ stack' \in Seq(Value) /\ Len(stack') = Len(stack) - 2
      /\ status' = IF ok THEN "running" ELSE "failed"
  BY <1>1, <1>2, <1>3, ConsumeLeaves
<1> HIDE DEF to
<1>6. /\ frames' \in Seq(FrameType) /\ frames'[Len(frames)].ip = to
      /\ \A i \in DOMAIN frames : i # Len(frames) => frames'[i] = frames[i]
  BY <1>2, <1>4, TopIp
<1>7. Advances
  BY <1>1, <1>2, <1>4, StepAdvances
<1>8. CASE ok
  <2> DEFINE x == <<Frame.ip + 2, 0>>
  <2>1. x[1] = to /\ x[2] = 0 /\ x \in Exits(Instr, Frame.ip)
    BY <1>3, <1>8 DEF to
  <2> HIDE DEF x
  <2>2. Len(stack') = Len(stack) - Takes(module, Instr) + x[2]
    BY <1>3, <1>4, <1>5, <2>1
  <2>3. status' = "running"
    BY <1>5, <1>8
  <2> QED BY <1>1, <1>4, <1>5, <1>6, <1>7, <2>1, <2>2, <2>3, ExitKeeps
<1>9. CASE ~ok
  <2>1. Len(stack') >= Len(stack) - Takes(module, Instr)
    BY <1>3, <1>4, <1>5
  <2>2. status' = "failed"
    BY <1>5, <1>9
  <2> QED BY <1>1, <1>5, <1>6, <1>7, <2>1, <2>2, FailureKeeps
<1> QED BY <1>8, <1>9

\* An alert takes as many operands as its argument says.
LEMMA AlertTakesAll ==
    ASSUME IInv, DepthInv, UnitsBalanced(module), Alert PROVE DepthInv'
<1>1. /\ Executing("Alert") /\ Step /\ Consume(Instr.arg, TRUE)
      /\ UNCHANGED <<module, calls>>
  BY DEF Alert, host
<1>2. /\ Takes(module, Instr) = Instr.arg
      /\ <<Frame.ip + 1, 0>> \in Exits(Instr, Frame.ip)
  BY <1>1, OpcodeTable
<1> QED BY <1>1, <1>2, ConsumeKeeps

\* Print takes one operand.
LEMMA PrintValueTakesOne ==
    ASSUME IInv, DepthInv, UnitsBalanced(module), PrintValue PROVE DepthInv'
<1>1. Executing("Print") /\ Step /\ Consume(1, TRUE) /\ UNCHANGED <<module, calls>>
  BY DEF PrintValue, host
<1>2. 1 = Takes(module, Instr) /\ <<Frame.ip + 1, 0>> \in Exits(Instr, Frame.ip)
  BY <1>1, OpcodeTable
<1> QED BY <1>1, <1>2, ConsumeKeeps

\* show takes no operand.
LEMMA ShowTableTakesNone ==
    ASSUME IInv, DepthInv, UnitsBalanced(module), ShowTable PROVE DepthInv'
<1>1. /\ Executing("ShowTable") /\ Step /\ Consume(0, Exists(tables, Name))
      /\ UNCHANGED <<module, calls>>
  BY DEF ShowTable, ExecutingNamed, host
<1>2. 0 = Takes(module, Instr) /\ <<Frame.ip + 1, 0>> \in Exits(Instr, Frame.ip)
  BY <1>1, OpcodeTable
<1> QED BY <1>1, <1>2, ConsumeKeeps

\* export takes the path.
LEMMA ExportTableTakesPath ==
    ASSUME IInv, DepthInv, UnitsBalanced(module), ExportTable PROVE DepthInv'
<1> DEFINE path == AsText(Operand(1))
           ok == /\ Enough(1) /\ CanOpen(tables, Name, path)
                 /\ Fits(tables, Name, path)
<1>1. Executing("ExportTable") /\ Step /\ UNCHANGED <<module, calls>>
  BY DEF ExportTable, ExecutingNamed, host
<1>2. Consume(1, ok)
  BY Zenon DEF ExportTable
<1> HIDE DEF ok
<1>3. 1 = Takes(module, Instr) /\ <<Frame.ip + 1, 0>> \in Exits(Instr, Frame.ip)
  BY <1>1, OpcodeTable
<1> QED BY <1>1, <1>2, <1>3, ConsumeKeeps

\* ForInit leaves the stack as it is.
LEMMA ForInitKeeps ==
    ASSUME IInv, DepthInv, UnitsBalanced(module), ForInit PROVE DepthInv'
<1>1. /\ Executing("ForInit") /\ Step /\ UNCHANGED <<module, calls, stack>>
      /\ status' \in {status, "failed"}
  BY DEF ForInit, ExecutingNamed, host
<1>2. /\ Takes(module, Instr) = 0 /\ <<Frame.ip + 1, 0>> \in Exits(Instr, Frame.ip)
      /\ status = "running" /\ stack \in Seq(Value) /\ Len(stack) \in Nat
  BY <1>1, OpcodeTable, Ready
<1>3. /\ stack' \in Seq(Value) /\ Len(stack') = Len(stack) - Takes(module, Instr) + 0
      /\ Len(stack') >= Len(stack) - Takes(module, Instr)
      /\ status' \in {"running", "failed"} /\ 0 \in Nat
  BY <1>1, <1>2
<1>4. \E g \in Nat : /\ <<Frame.ip + 1, g>> \in Exits(Instr, Frame.ip)
                     /\ Len(stack') = Len(stack) - Takes(module, Instr) + g
  BY <1>2, <1>3
<1> QED BY <1>1, <1>3, <1>4, StepKeeps

\* ForNext pushes a row and goes on.
LEMMA ForNextRowKeeps ==
    ASSUME IInv, DepthInv, UnitsBalanced(module), ForNextRow PROVE DepthInv'
<1> DEFINE v == Str(RowText(Head(Last(iterators).rows)))
<1>1. /\ Executing("ForNext") /\ HasRow /\ Step /\ UNCHANGED <<module, calls, status>>
      /\ stack' = Append(stack, v)
  BY DEF ForNextRow, host
<1>2. /\ Takes(module, Instr) = 0 /\ <<Frame.ip + 1, 1>> \in Exits(Instr, Frame.ip)
      /\ status = "running" /\ stack \in Seq(Value) /\ Len(stack) \in Nat
  BY <1>1, OpcodeTable, Ready
<1>3. v \in Value
  <2>1. iterators \in Seq(IteratorType) /\ iterators # <<>>
    BY <1>1, Types DEF HasRow
  <2>2. Last(iterators) \in IteratorType /\ Last(iterators).rows # <<>>
    BY <1>1, <2>1 DEF Last, HasRow
  <2>3. Last(iterators).rows \in Seq(Row)
    BY <2>2 DEF IteratorType
  <2>4. Head(Last(iterators).rows) \in Seq(Value)
    BY <2>2, <2>3 DEF Row
  <2> QED BY <2>4, RowTextType, MakeValue
<1> HIDE DEF v
<1>4. /\ stack' \in Seq(Value) /\ Len(stack') = Len(stack) - Takes(module, Instr) + 1
      /\ status' = "running"
  BY <1>1, <1>2, <1>3
<1> QED BY <1>1, <1>2, <1>4, StepKeeps

\* ForNext leaves the loop.
LEMMA ForNextDoneKeeps ==
    ASSUME IInv, DepthInv, UnitsBalanced(module), ForNextDone PROVE DepthInv'
<1>1. /\ Executing("ForNext") /\ JumpTo(Instr.arg)
      /\ UNCHANGED <<module, calls, stack, status>>
  BY DEF ForNextDone, host
<1>2. /\ Takes(module, Instr) = 0 /\ <<Instr.arg, 0>> \in Exits(Instr, Frame.ip)
      /\ status = "running" /\ stack \in Seq(Value) /\ Len(stack) \in Nat
  BY <1>1, OpcodeTable, Ready
<1>3. Len(stack') = Len(stack) - Takes(module, Instr)
  BY <1>1, <1>2
<1> QED BY <1>1, <1>2, <1>3, JumpedKeeps

-----------------------------------------------------------------------------
(* Activations that begin and end.                                         *)

\* More operands cover what fewer did.
LEMMA CoveredMore ==
    ASSUME NEW m, NEW code, NEW ip, NEW base \in Nat, NEW h \in Nat, NEW more \in Nat,
           h <= more, Covered(m, code, ip, base, h)
    PROVE  Covered(m, code, ip, base, more)
<1> DEFINE depth == Depths(m, code)[ip]
<1>1. depth \in Nat /\ base + depth <= h /\ ip \in DOMAIN Depths(m, code)
  BY DEF Covered
<1> HIDE DEF depth
<1>2. base + depth <= more
  BY <1>1
<1> QED BY <1>1, <1>2 DEF Covered, depth

\* The code of every unit is balanced.
LEMMA UnitBalanced ==
    ASSUME UnitsBalanced(module), NEW u \in Units
    PROVE  Balanced(module, Code(u), u.kind)
BY DEF UnitsBalanced, Units, Code

\* Where no activation is left there is nothing to keep.
LEMMA NoneLeft == ASSUME calls' = <<>>, Matched' PROVE DepthInv'
<1>1. DOMAIN calls' = {}
  OBVIOUS
<1> QED BY <1>1 DEF DepthInv, Bases, Promised

\* A new activation begins with no operand, over what its caller was promised.
LEMMA EnterKeeps ==
    ASSUME IInv, UnitsBalanced(module), UNCHANGED module, DepthInv,
           NEW unit \in Units, NEW locals, NEW below \in Seq(FrameType),
           NEW base \in Nat, Enter(unit, locals, below, base),
           Len(below) = Len(calls),
           \A i \in DOMAIN below : below[i].unit = calls[i].unit,
           stack' \in Seq(Value), Len(stack') = base, status' = "running",
           calls # <<>> => unit.kind = "function",
           \A i \in DOMAIN calls :
              /\ calls[i].base <= base
              /\ Covered(module, Code(calls[i].unit), below[i].ip, calls[i].base,
                         IF i = Len(calls) THEN base + 1 ELSE calls[i + 1].base + 1)
    PROVE  DepthInv'
<1> DEFINE n == Len(calls)
           f == [unit |-> unit, locals |-> locals, ip |-> 0]
           c == [unit |-> unit, base |-> base]
<1>1. /\ calls \in Seq(CallType) /\ n \in Nat /\ DOMAIN calls = 1..n
      /\ Len(below) = n /\ DOMAIN below = 1..n
  BY Types
<1>2. f.ip = 0 /\ c.unit = unit /\ c.base = base
  OBVIOUS
<1>3. frames' = Append(below, f) /\ calls' = Append(calls, c)
  BY DEF Enter
<1>4. Matched'
  BY <1>1, EnterMatches
<1>5. /\ \A i \in 1..n : calls[i].base \in Nat
      /\ \A i, j \in 1..n : i <= j => calls[i].base <= calls[j].base
      /\ \A i \in 1..n : i > 1 => calls[i].unit.kind = "function"
      /\ \A i \in 1..n : calls[i].base <= base
      /\ n > 0 => unit.kind = "function"
  <2>1. \A i \in 1..n : calls[i] \in CallType
    BY <1>1
  <2>2. n > 0 => calls # <<>>
    OBVIOUS
  <2> QED BY <1>1, <2>1, <2>2 DEF CallType, DepthInv, Bases
<1>6. \A i \in 1..n :
         Covered(module, Code(calls[i].unit), below[i].ip, calls[i].base,
                 IF i = n THEN base + 1 ELSE calls[i + 1].base + 1)
  BY <1>1
<1> HIDE DEF f, c
<1>7. /\ DOMAIN calls' = 1..(n + 1) /\ Len(calls') = n + 1
      /\ calls'[n + 1] = c /\ frames'[n + 1] = f
      /\ \A i \in 1..n : calls'[i] = calls[i] /\ frames'[i] = below[i]
  BY <1>1, <1>3
<1> HIDE DEF n
<1>8. Bases'
  <2>1. \A i \in 1..(n + 1) : calls'[i].base <= Len(stack')
    <3> TAKE i \in 1..(n + 1)
    <3>1. i = n + 1 \/ i \in 1..n
      BY <1>1
    <3> QED BY <1>2, <1>5, <1>7, <3>1
  <2>2. \A i, j \in 1..(n + 1) : i <= j => calls'[i].base <= calls'[j].base
    <3> TAKE i, j \in 1..(n + 1)
    <3>1. /\ i = n + 1 \/ i \in 1..n
          /\ j = n + 1 \/ j \in 1..n
      BY <1>1
    <3>2. CASE j = n + 1
      BY <1>2, <1>5, <1>7, <3>1, <3>2
    <3>3. CASE j \in 1..n
      <4>1. i <= j => i \in 1..n
        BY <1>1, <3>1, <3>3
      <4> QED BY <1>5, <1>7, <3>3, <4>1
    <3> QED BY <3>1, <3>2, <3>3
  <2>3. \A i \in 1..(n + 1) : i > 1 => calls'[i].unit.kind = "function"
    <3> TAKE i \in 1..(n + 1)
    <3>1. i = n + 1 \/ i \in 1..n
      BY <1>1
    <3>2. i = n + 1 /\ i > 1 => n > 0
      BY <1>1
    <3> QED BY <1>2, <1>5, <1>7, <3>1, <3>2
  <2> QED BY <1>7, <2>1, <2>2, <2>3 DEF Bases
<1>9. Promised'
  <2> SUFFICES ASSUME NEW i \in 1..(n + 1)
               PROVE  Covered(module, Code(calls'[i].unit), frames'[i].ip, calls'[i].base,
                              IF i = n + 1 THEN Len(stack') ELSE calls'[i + 1].base + 1)
    BY <1>7, CodeStays DEF Promised, Height
  <2>1. CASE i = n + 1
    <3> DEFINE depth == Depths(module, Code(unit))
    <3>1. Balanced(module, Code(unit), unit.kind)
      BY UnitBalanced
    <3>2. DOMAIN depth = 0..Len(Code(unit)) /\ depth[0] = 0
      BY <3>1, Zenon DEF Balanced
    <3>3. Code(unit) \in Seq(Instruction)
      BY Types, CodeType
    <3>4. 0 \in 0..Len(Code(unit))
      BY <3>3
    <3>5. 0 \in DOMAIN depth /\ depth[0] \in Nat /\ base + depth[0] <= base
      <4> HIDE DEF depth
      <4> QED BY <3>2, <3>4
    <3>6. Covered(module, Code(unit), 0, base, base)
      BY <3>5 DEF Covered
    <3> QED BY <1>2, <1>7, <2>1, <3>6
  <2>2. CASE i \in 1..n
    <3>1. CASE i = n
      <4>1. i # n + 1 /\ calls'[i + 1].base = base
        BY <1>1, <1>2, <1>7, <3>1
      <4> QED BY <1>6, <1>7, <2>2, <3>1, <4>1
    <3>2. CASE i # n
      <4>1. i # n + 1 /\ i + 1 \in 1..n
        BY <1>1, <2>2, <3>2
      <4> QED BY <1>6, <1>7, <2>2, <3>2, <4>1
    <3> QED BY <3>1, <3>2
  <2> QED BY <1>1, <2>1, <2>2
<1> QED BY <1>4, <1>8, <1>9 DEF DepthInv

\* An activation that ends leaves its caller what it was promised.
LEMMA LeaveKeeps ==
    ASSUME IInv, DepthInv, UNCHANGED <<module, status>>,
           status = "running", calls # <<>>,
           frames' = Front(frames), calls' = Front(calls), stack' \in Seq(Value),
           Len(calls) > 1 => UNCHANGED stack /\ calls[Len(calls)].base + 1 <= Len(stack)
    PROVE  DepthInv'
<1> DEFINE n == Len(calls)
<1>1. Matched'
  BY LeaveMatches DEF DepthInv
<1>2. /\ calls \in Seq(CallType) /\ n \in Nat /\ n >= 1 /\ DOMAIN calls = 1..n
      /\ frames \in Seq(FrameType) /\ Len(frames) = n /\ frames # <<>>
  <2>1. Len(frames) = n /\ calls \in Seq(CallType) /\ frames \in Seq(FrameType)
    BY Types DEF DepthInv, Matched
  <2> QED BY <2>1
<1>3. /\ DOMAIN calls' = 1..(n - 1) /\ Len(calls') = n - 1
      /\ \A i \in 1..(n - 1) : calls'[i] = calls[i] /\ frames'[i] = frames[i]
  <2>1. /\ Front(calls) \in Seq(CallType) /\ Len(Front(calls)) = n - 1
        /\ \A i \in DOMAIN Front(calls) : Front(calls)[i] = calls[i]
    BY <1>2, FrontType
  <2>2. /\ Front(frames) \in Seq(FrameType) /\ Len(Front(frames)) = n - 1
        /\ \A i \in DOMAIN Front(frames) : Front(frames)[i] = frames[i]
    BY <1>2, FrontType
  <2> HIDE DEF n
  <2> QED BY <1>2, <2>1, <2>2
<1>4. CASE n = 1
  <2>1. calls' = <<>>
    <3>1. Front(calls) \in Seq(CallType) /\ Len(Front(calls)) = 0
      BY <1>2, <1>4, FrontType
    <3> QED BY <3>1
  <2> QED BY <1>1, <2>1, NoneLeft
<1>5. CASE n > 1
  <2>1. UNCHANGED stack /\ calls[n].base + 1 <= Len(stack)
    BY <1>5
  <2>2. /\ \A i \in 1..n : calls[i].base \in Nat /\ calls[i].base <= Len(stack)
        /\ \A i, j \in 1..n : i <= j => calls[i].base <= calls[j].base
        /\ \A i \in 1..n : i > 1 => calls[i].unit.kind = "function"
        /\ Len(stack) \in Nat
    <3>1. \A i \in 1..n : calls[i] \in CallType
      BY <1>2
    <3>2. \A i \in 1..n : calls[i].base \in Nat
      BY <3>1 DEF CallType
    <3>3. Len(stack) \in Nat
      BY Types
    <3> HIDE DEF n
    <3> QED BY <1>2, <3>2, <3>3 DEF DepthInv, Bases
  <2>3. \A i \in 1..n :
           Covered(module, Code(calls[i].unit), frames[i].ip, calls[i].base,
                   IF i = n THEN Len(stack) ELSE calls[i + 1].base + 1)
    BY <1>2 DEF DepthInv, Promised, Height
  <2> HIDE DEF n
  <2>4. Bases'
    BY <1>2, <1>3, <2>1, <2>2 DEF Bases
  <2>5. Promised'
    <3> SUFFICES ASSUME NEW i \in 1..(n - 1)
                 PROVE  Covered(module, Code(calls'[i].unit), frames'[i].ip, calls'[i].base,
                                IF i = n - 1 THEN Len(stack') ELSE calls'[i + 1].base + 1)
      BY <1>3, CodeStays DEF Promised, Height
    <3>1. /\ i \in 1..n /\ i + 1 \in 1..n /\ i # n /\ calls'[i] = calls[i]
          /\ frames'[i] = frames[i]
      BY <1>2, <1>3
    <3>2. Covered(module, Code(calls[i].unit), frames[i].ip, calls[i].base,
                  calls[i + 1].base + 1)
      BY <2>3, <3>1
    <3>3. CASE i = n - 1
      <4>1. i + 1 = n
        BY <1>2, <3>3
      <4>2. Covered(module, Code(calls[i].unit), frames[i].ip, calls[i].base, Len(stack))
        <5>1. /\ calls[i].base \in Nat /\ calls[n].base + 1 \in Nat
              /\ calls[n].base + 1 <= Len(stack) /\ Len(stack) \in Nat
          <6>1. i \in 1..n /\ n \in 1..n
            BY <1>2, <3>1
          <6>2. calls[i].base \in Nat /\ calls[n].base \in Nat /\ Len(stack) \in Nat
            BY <2>2, <6>1
          <6> QED BY <2>1, <6>2
        <5> QED BY <3>2, <4>1, <5>1, CoveredMore
      <4> QED BY <2>1, <3>1, <3>3, <4>2
    <3>4. CASE i # n - 1
      <4>1. i + 1 \in 1..(n - 1)
        BY <1>2, <3>4
      <4> QED BY <1>3, <3>1, <3>2, <3>4, <4>1
    <3> QED BY <3>3, <3>4
  <2> QED BY <1>1, <2>4, <2>5 DEF DepthInv
<1> QED BY <1>2, <1>4, <1>5


\* At most one position is the first of a name.
LEMMA NamedOnce ==
    ASSUME NEW S, NEW seq \in Seq(S), NEW name,
           NEW i \in Named(seq, name), NEW j \in Named(seq, name)
    PROVE  i = j
<1>1. i \in Nat /\ j \in Nat
  BY DEF Named
<1>2. i <= j /\ j <= i
  BY DEF Named
<1> QED BY <1>1, <1>2

\* A call takes its arguments and promises its caller a result.
LEMMA CallFunctionKeeps ==
    ASSUME IInv, DepthInv, UnitsBalanced(module), CallFunction PROVE DepthInv'
<1> DEFINE below == [frames EXCEPT ![Len(frames)].ip = Frame.ip + 1]
<1>1. /\ Executing("Call") /\ UNCHANGED module
      /\ Name \notin BuiltinNames \cup HostNames
  BY Zenon DEF CallFunction, ExecutingNamed, host
<1>2. PICK i \in Named(module.functions, Name) :
         LET arity == module.functions[i].arity
         IN  IF Enough(arity)
             THEN /\ Enter([kind |-> "function", n |-> i], Operands(arity),
                           below, Len(stack) - arity)
                  /\ stack' = Beneath(arity)
                  /\ UNCHANGED status
             ELSE Underflow /\ Step /\ UNCHANGED calls
  BY Zenon DEF CallFunction, Frame
<1> DEFINE arity == module.functions[i].arity
           unit == [kind |-> "function", n |-> i]
           base == Len(stack) - arity
           top == calls[Len(calls)]
           depth == Depths(module, Code(Running))
<1>3. unit \in Units
  BY DEF Named, Units
<1>4. arity = Takes(module, Instr)
  <2> DEFINE found == Named(module.functions, Name)
  <2>1. Parameters(module, Name) = module.functions[CHOOSE k \in found : TRUE].arity
    <3>1. Name \notin BuiltinNames /\ Name \notin HostNames /\ found # {}
      BY <1>1
    <3>2. Name # <<"count">> /\ Name # <<"filter">> /\ Name # <<"sort">>
      BY <3>1 DEF HostNames
    <3> HIDE DEF found
    <3>3. Parameters(module, Name) = IF found = {} THEN 0
             ELSE module.functions[CHOOSE k \in found : TRUE].arity
      BY <3>1, <3>2, Zenon DEF Parameters, found
    <3> QED BY <3>1, <3>3
  <2>2. (CHOOSE k \in found : TRUE) \in found
    OBVIOUS
  <2>3. module.functions \in Seq([name : Text, arity : Nat, code : Seq(Instruction)])
    BY Types, ModuleType DEF Module
  <2>4. (CHOOSE k \in found : TRUE) = i
    BY <2>2, <2>3, NamedOnce
  <2> QED BY <1>1, <2>1, <2>4, CallNeeds
<1>5. <<Frame.ip + 1, 1>> \in Exits(Instr, Frame.ip)
  BY <1>1, OpcodeTable
<1>6. /\ calls # <<>> /\ status = "running" /\ stack \in Seq(Value) /\ Frame.ip \in Nat
      /\ Len(stack) \in Nat /\ arity \in Nat /\ arity <= Len(stack)
  BY <1>1, <1>4, Ready
<1>7. /\ depth[Frame.ip] \in Nat /\ arity \in 0..depth[Frame.ip]
      /\ top.base \in Nat /\ top.base + depth[Frame.ip] <= Len(stack)
      /\ Frame.ip + 1 \in DOMAIN depth
      /\ depth[Frame.ip + 1] \in 0..(depth[Frame.ip] - arity + 1)
  <2> DEFINE x == <<Frame.ip + 1, 1>>
  <2>1. x \in Exits(Instr, Frame.ip) /\ x[1] = Frame.ip + 1 /\ x[2] = 1
    BY <1>5
  <2> HIDE DEF x, arity
  <2>2. /\ x[1] \in DOMAIN depth
        /\ depth[x[1]] \in 0..(depth[Frame.ip] - Takes(module, Instr) + x[2])
    BY <1>1, <2>1, FindsOperands
  <2> QED BY <1>1, <1>4, <2>1, <2>2, FindsOperands
<1>8. Enough(arity)
  BY <1>6 DEF Enough
<1>9. /\ Enter(unit, Operands(arity), below, base) /\ stack' = Beneath(arity)
      /\ status' = "running"
  BY <1>2, <1>6, <1>8
<1>10. /\ calls \in Seq(CallType) /\ Len(calls) \in Nat /\ DOMAIN calls = 1..Len(calls)
       /\ frames \in Seq(FrameType) /\ Len(frames) = Len(calls)
       /\ Len(frames) \in DOMAIN frames /\ DOMAIN frames = DOMAIN calls
  BY <1>6, Types, TopFrame DEF DepthInv, Matched
<1>11. /\ below \in Seq(FrameType) /\ Len(below) = Len(calls)
       /\ below[Len(frames)].ip = Frame.ip + 1
       /\ \A j \in DOMAIN frames : j # Len(frames) => below[j] = frames[j]
       /\ \A j \in DOMAIN below : below[j].unit = calls[j].unit
  <2>1. below \in Seq(FrameType) /\ Len(below) = Len(frames)
    <3>1. Frame.ip + 1 \in Nat
      BY <1>6
    <3> QED BY <1>6, <3>1, JumpType
  <2>2. \A j \in DOMAIN frames : frames[j] \in FrameType
    BY <1>10
  <2>3. \A j \in DOMAIN below : below[j].unit = calls[j].unit
    BY <2>2 DEF FrameType, DepthInv, Matched
  <2>4. below[Len(frames)].ip = Frame.ip + 1
    BY <1>10, <2>2 DEF FrameType
  <2>5. \A j \in DOMAIN frames : j # Len(frames) => below[j] = frames[j]
    OBVIOUS
  <2> QED BY <1>10, <2>1, <2>3, <2>4, <2>5
<1> HIDE DEF below
<1>12. stack' \in Seq(Value) /\ Len(stack') = base
  BY <1>6, <1>8, <1>9, OperandTypes
<1>13. /\ base \in Nat /\ top.base <= base
       /\ depth[Frame.ip + 1] \in Nat /\ top.base + depth[Frame.ip + 1] <= base + 1
  <2> DEFINE before == depth[Frame.ip]
             after == depth[Frame.ip + 1]
             bottom == top.base
  <2>1. /\ before \in Nat /\ arity \in 0..before /\ bottom \in Nat
        /\ bottom + before <= Len(stack) /\ after \in 0..(before - arity + 1)
        /\ Len(stack) \in Nat /\ arity \in Nat /\ arity <= Len(stack)
    BY <1>6, <1>7
  <2> HIDE DEF before, after, bottom, arity
  <2>2. /\ base \in Nat /\ bottom <= base /\ after \in Nat /\ bottom + after <= base + 1
    BY <2>1
  <2> QED BY <2>2 DEF before, after, bottom
<1> HIDE DEF base, arity, unit
<1>14. \A j \in DOMAIN calls :
          /\ calls[j].base <= base
          /\ Covered(module, Code(calls[j].unit), below[j].ip, calls[j].base,
                     IF j = Len(calls) THEN base + 1 ELSE calls[j + 1].base + 1)
  <2> TAKE j \in DOMAIN calls
  <2>1. Len(calls) \in DOMAIN calls /\ j <= Len(calls) /\ j \in DOMAIN frames
    BY <1>10
  <2>2. calls[j].base <= base
    <3>1. calls[j].base <= top.base
      BY <2>1 DEF DepthInv, Bases
    <3>2. calls[j] \in CallType
      BY <1>10
    <3>3. calls[j].base \in Nat
      BY <3>2 DEF CallType
    <3> HIDE DEF top
    <3> QED BY <1>7, <1>13, <3>1, <3>3
  <2>3. CASE j = Len(calls)
    <3>1. Covered(module, Code(Running), Frame.ip + 1, top.base, base + 1)
      BY <1>7, <1>13 DEF Covered
    <3> QED BY <1>10, <1>11, <2>2, <2>3, <3>1 DEF Running
  <2>4. CASE j # Len(calls)
    <3>1. Covered(module, Code(calls[j].unit), frames[j].ip, calls[j].base,
                  calls[j + 1].base + 1)
      BY <1>6, <2>4 DEF DepthInv, Promised, Height
    <3>2. below[j] = frames[j]
      BY <1>10, <1>11, <2>1, <2>4
    <3> QED BY <2>2, <2>4, <3>1, <3>2
  <2> QED BY <2>3, <2>4
<1>15. unit.kind = "function"
  BY DEF unit
<1> QED BY <1>1, <1>3, <1>9, <1>11, <1>12, <1>13, <1>14, <1>15, EnterKeeps

\* A function returns with a result on top of what its caller had.
LEMMA ReturnKeeps ==
    ASSUME IInv, DepthInv, UnitsBalanced(module), Return PROVE DepthInv'
<1> DEFINE n == Len(calls)
           base == calls[n].base
           before == Depths(module, Code(Running))[Frame.ip]
<1>1. /\ Executing("Return") /\ UNCHANGED <<module, status>>
      /\ frames' = Front(frames) /\ calls' = Front(calls)
  BY DEF Return, host
<1>2. /\ calls # <<>> /\ status = "running" /\ stack \in Seq(Value)
      /\ Len(stack) \in Nat
  BY <1>1, Ready
<1>3. stack' \in Seq(Value)
  <2>1. <<Unit>> \in Seq(Value)
    BY MakeValue
  <2>2. stack # <<>> => Front(stack) \in Seq(Value)
    BY <1>2, FrontType
  <2>3. \/ stack' = <<Unit>>
        \/ stack # <<>> /\ stack' = Front(stack)
        \/ stack' = stack
    BY DEF Return
  <2> QED BY <1>2, <2>1, <2>2, <2>3
<1>4. ASSUME n > 1 PROVE UNCHANGED stack /\ base + 1 <= Len(stack)
  <2>1. Running.kind = "function" /\ Len(frames) = n /\ n \in Nat
    <3>1. n \in DOMAIN calls /\ n \in Nat
      BY <1>2, Types
    <3> QED BY <1>4, <3>1 DEF DepthInv, Bases, Matched, Running
  <2>2. /\ before \in Nat /\ base \in Nat /\ base + before <= Len(stack)
        /\ before >= 1
    BY <1>1, <2>1, FindsOperands
  <2> HIDE DEF before, base
  <2>3. base + 1 <= Len(stack) /\ Len(stack) # 0
    BY <1>2, <2>2
  <2>4. stack # <<>>
    BY <2>3
  <2>5. Len(frames) # 1
    BY <1>4, <2>1
  <2>6. stack' = stack
    BY <2>4, <2>5 DEF Return
  <2> QED BY <2>3, <2>6
<1> QED BY <1>1, <1>2, <1>3, <1>4, LeaveKeeps

\* Only a handler falls off its end, and it has no caller.
LEMMA FallOffEndKeeps ==
    ASSUME IInv, DepthInv, UnitsBalanced(module), FallOffEnd PROVE DepthInv'
<1>1. /\ status = "running" /\ calls # <<>> /\ AtEnd /\ UNCHANGED <<module, stack, status>>
      /\ frames' = Front(frames) /\ calls' = Front(calls)
  BY DEF FallOffEnd, host
<1> DEFINE code == Code(Running)
           depth == Depths(module, code)
<1>2. Frame.ip \in 0..Len(code) /\ BalancedAt(module, code, Running.kind, depth, Frame.ip)
  BY <1>1, TopPromised
<1>3. code \in Seq(Instruction) /\ Frame.ip >= Len(code)
  BY <1>1, TopFrame DEF AtEnd
<1> HIDE DEF code, depth
<1>4. Frame.ip = Len(code)
  BY <1>2, <1>3
<1>5. Running.kind # "function"
  BY <1>2, <1>4 DEF BalancedAt
<1>6. ~(Len(calls) > 1)
  <2>1. Len(calls) \in DOMAIN calls
    BY <1>1, Types
  <2> QED BY <1>5, <2>1 DEF DepthInv, Bases, Running
<1>7. stack' \in Seq(Value)
  BY <1>1, Types
<1> QED BY <1>1, <1>6, <1>7, LeaveKeeps
-----------------------------------------------------------------------------
(* The host.                                                               *)

\* A handler begins where no other activation is left.
LEMMA HandlerKeeps ==
    ASSUME IInv, DepthInv, UnitsBalanced(module), UNCHANGED <<module, stack>>,
           calls = <<>>, NEW unit \in Units, NEW locals,
           Enter(unit, locals, <<>>, Len(stack)), status' = "running"
    PROVE  DepthInv'
<1>1. stack \in Seq(Value) /\ Len(stack) \in Nat
  BY Types
<1>2. /\ <<>> \in Seq(FrameType) /\ Len(<<>>) = Len(calls) /\ DOMAIN <<>> = {}
      /\ DOMAIN calls = {}
  OBVIOUS
<1> QED BY <1>1, <1>2, EnterKeeps

\* Starting a finish handler, or ending the run, keeps the invariant.
LEMMA FinishKeeps ==
    ASSUME IInv, DepthInv, UnitsBalanced(module), UNCHANGED <<module, stack>>,
           calls = <<>>, NEW n \in Nat \ {0}, Finish(n, <<>>)
    PROVE  DepthInv'
<1>1. CASE n <= Len(module.finish_handlers)
  <2>1. [kind |-> "finish", n |-> n] \in Units
    <3>1. module.finish_handlers \in Seq([code : Seq(Instruction)])
      BY Types, ModuleType DEF Module
    <3>2. n \in DOMAIN module.finish_handlers
      BY <1>1, <3>1
    <3> QED BY <3>2 DEF Units
  <2>2. /\ Enter([kind |-> "finish", n |-> n], <<>>, <<>>, Len(stack))
        /\ status' = "running"
    BY <1>1 DEF Finish
  <2> QED BY <2>1, <2>2, HandlerKeeps
<1>2. CASE ~(n <= Len(module.finish_handlers))
  <2>1. frames' = <<>> /\ calls' = <<>>
    BY <1>2 DEF Finish
  <2>2. Matched'
    BY <2>1 DEF Matched
  <2> QED BY <2>1, <2>2, NoneLeft
<1> QED BY <1>1, <1>2

\* The host keeps the invariant.
LEMMA HostKeeps ==
    ASSUME IInv, DepthInv, UnitsBalanced(module),
           RunFinish \/ HostResumes \/ \E e \in Events : DispatchEvent(e)
    PROVE  DepthInv'
<1>1. calls = <<>> /\ frames = <<>>
  <2>1. calls = <<>>
    BY DEF RunFinish, HostResumes, DispatchEvent, DepthInv
  <2> QED BY <2>1, NoFrames DEF DepthInv
<1>2. CASE RunFinish
  BY <1>1, <1>2, FinishKeeps DEF RunFinish
<1>3. CASE HostResumes
  <2>1. UNCHANGED <<module, stack>>
    BY <1>3 DEF HostResumes
  <2>2. \/ frames' = <<>> /\ UNCHANGED calls
        \/ Finish(finishing + 1, <<>>)
    BY <1>1, <1>3 DEF HostResumes
  <2>3. CASE frames' = <<>> /\ UNCHANGED calls
    <3>1. Matched' /\ calls' = <<>>
      BY <1>1, <2>3 DEF Matched
    <3> QED BY <3>1, NoneLeft
  <2>4. finishing + 1 \in Nat \ {0}
    BY Types
  <2> QED BY <1>1, <2>1, <2>2, <2>3, <2>4, FinishKeeps
<1>4. ASSUME NEW e \in Events, DispatchEvent(e) PROVE DepthInv'
  <2>1. UNCHANGED <<module, stack>>
    BY <1>4 DEF DispatchEvent
  <2>2. CASE UNCHANGED <<frames, calls>>
    <3>1. Matched' /\ calls' = <<>>
      BY <1>1, <2>2 DEF Matched
    <3> QED BY <3>1, NoneLeft
  <2>3. CASE ~UNCHANGED <<frames, calls>>
    <3>1. PICK i \in Named(module.event_handlers, e.name) :
             /\ Enter([kind |-> "on", n |-> i], <<Event(e.fields)>>, frames, Len(stack))
             /\ status' = "running"
      BY <1>4, <2>3 DEF DispatchEvent
    <3>2. [kind |-> "on", n |-> i] \in Units
      BY DEF Units, Named
    <3> QED BY <1>1, <2>1, <3>1, <3>2, HandlerKeeps
  <2> QED BY <2>2, <2>3
<1> QED BY <1>2, <1>3, <1>4

-----------------------------------------------------------------------------
(* The columns of the tables.                                              *)

\* The store has the columns that were declared for each of its tables.
AsDeclared(m, store) ==
    \A name \in DOMAIN store :
       IsTable(m, name) /\ Width(m, name) = Len(store[name].fields)

\* Replacing the rows of a table keeps its columns.
LEMMA WithRowsDeclared ==
    ASSUME NEW m, NEW N, NEW store \in [N -> Table], NEW name \in N,
           AsDeclared(m, store), NEW rows
    PROVE  AsDeclared(m, [store EXCEPT ![name].rows = rows])
<1> DEFINE after == [store EXCEPT ![name].rows = rows]
<1>1. store[name] \in Table
  OBVIOUS
<1>2. after[name].fields = store[name].fields
  BY <1>1 DEF Table
<1>3. DOMAIN after = DOMAIN store /\ \A t \in DOMAIN store \ {name} : after[t] = store[t]
  OBVIOUS
<1> HIDE DEF after
<1>4. AsDeclared(m, after)
  BY <1>2, <1>3 DEF AsDeclared
<1> QED BY <1>4 DEF after

\* The operations on a table keep its columns.
LEMMA OperationsDeclared ==
    ASSUME NEW m, NEW N, NEW store \in [N -> Table], NEW name \in N, AsDeclared(m, store)
    PROVE  /\ \A row : AsDeclared(m, Insert(store, name, row))
           /\ \A order : AsDeclared(m, Reorder(store, name, order))
           /\ \A index, field, v : AsDeclared(m, AssignCell(store, name, index, field, v))
<1>1. ASSUME NEW rows PROVE AsDeclared(m, [store EXCEPT ![name].rows = rows])
  BY WithRowsDeclared
<1>2. ASSUME NEW row PROVE AsDeclared(m, Insert(store, name, row))
  <2> DEFINE rows == Append(store[name].rows, row)
  <2>1. Insert(store, name, row) = [store EXCEPT ![name].rows = rows]
    BY DEF Insert
  <2> HIDE DEF rows
  <2>2. AsDeclared(m, [store EXCEPT ![name].rows = rows])
    BY <1>1
  <2> QED BY <2>1, <2>2, Zenon
<1>3. ASSUME NEW order PROVE AsDeclared(m, Reorder(store, name, order))
  <2> DEFINE rows == [i \in DOMAIN order |-> store[name].rows[order[i]]]
  <2>1. Reorder(store, name, order) = [store EXCEPT ![name].rows = rows]
    BY DEF Reorder
  <2> HIDE DEF rows
  <2>2. AsDeclared(m, [store EXCEPT ![name].rows = rows])
    BY <1>1
  <2> QED BY <2>1, <2>2, Zenon
<1>4. ASSUME NEW index, NEW field, NEW v
      PROVE  AsDeclared(m, AssignCell(store, name, index, field, v))
  <2> DEFINE old == store[name].rows
             i == index[2] + 1
             row == [old[i] EXCEPT ![Column(store, name, field)] = v]
             rows == [old EXCEPT ![i] = row]
  <2>1. AssignCell(store, name, index, field, v) = [store EXCEPT ![name].rows = rows]
    BY DEF AssignCell
  <2> HIDE DEF rows
  <2>2. AsDeclared(m, [store EXCEPT ![name].rows = rows])
    BY <1>1
  <2> QED BY <2>1, <2>2, Zenon
<1> QED BY <1>2, <1>3, <1>4

\* What a step may make of the tables.
LEMMA TablesChange ==
    ASSUME IInv, Next
    PROVE  \/ UNCHANGED tables
           \/ \E name \in TableNames :
                 \/ \E row : tables' = Insert(tables, name, row)
                 \/ \E order : tables' = Reorder(tables, name, order)
                 \/ \E index, field, v : tables' = AssignCell(tables, name, index, field, v)
<1>1. CASE InsertTable
  <2> SUFFICES ASSUME tables' # tables
               PROVE  \E name \in TableNames : \E row : tables' = Insert(tables, name, row)
    OBVIOUS
  <2> DEFINE n == Len(tables[Name].fields)
  <2>1. Exists(tables, Name) /\ tables' = Insert(tables, Name, Operands(n))
    BY <1>1, Zenon DEF InsertTable
  <2>2. Name \in TableNames
    BY <2>1, RowCount
  <2> QED BY <2>1, <2>2
<1>2. CASE IndexAssign
  <2> SUFFICES ASSUME tables' # tables
               PROVE  \E name \in TableNames : \E index, field, v :
                         tables' = AssignCell(tables, name, index, field, v)
    OBVIOUS
  <2> DEFINE field == Constant(Code(Running)[Frame.ip + 2].arg)[2]
  <2>1. /\ CanAssign(tables, Name, Operand(1), field)
        /\ tables' = AssignCell(tables, Name, Operand(1), field, Operand(2))
    BY <1>2, Zenon DEF IndexAssign
  <2>2. Name \in TableNames
    BY <2>1, RowCount DEF CanAssign
  <2> HIDE DEF field
  <2> QED BY <2>1, <2>2
<1>3. CASE CallFilter
  <2> SUFFICES ASSUME tables' # tables
               PROVE  \E name \in TableNames : \E order : tables' = Reorder(tables, name, order)
    OBVIOUS
  <2> DEFINE name == AsText(Operand(3))
             kept == Matching(tables, name, AsText(Operand(2)), AsText(Operand(1)))
  <2>1. Exists(tables, name)
        /\ \E order \in Increasing(kept) : tables' = Reorder(tables, name, order)
    BY <1>3, Zenon DEF CallFilter, Sortable
  <2> HIDE DEF name, kept
  <2>2. name \in TableNames
    BY <2>1, RowCount
  <2> QED BY <2>1, <2>2
<1>4. CASE CallSort
  <2> SUFFICES ASSUME tables' # tables
               PROVE  \E name \in TableNames : \E order : tables' = Reorder(tables, name, order)
    OBVIOUS
  <2> DEFINE name == AsText(Operand(2))
             field == AsText(Operand(1))
  <2>1. Exists(tables, name)
        /\ \E order \in StableOrders(tables, name, field) :
              tables' = Reorder(tables, name, order)
    BY <1>4, Zenon DEF CallSort, Sortable
  <2> HIDE DEF name, field
  <2>2. name \in TableNames
    BY <2>1, RowCount
  <2> QED BY <2>1, <2>2
<1> QED BY <1>1, <1>2, <1>3, <1>4, TablesUntouched

\* Every step keeps the columns.
LEMMA ColumnsKept == ASSUME IInv, Next, ColumnsStay PROVE ColumnsStay'
<1>1. UNCHANGED module
  BY ModuleStays
<1>2. AsDeclared(module, tables) /\ tables \in [TableNames -> Table]
  BY Types DEF ColumnsStay, AsDeclared, Store
<1>3. AsDeclared(module, tables')
  BY <1>2, TablesChange, OperationsDeclared
<1> QED BY <1>1, <1>3 DEF ColumnsStay, AsDeclared
-----------------------------------------------------------------------------
(* The theorem.                                                            *)

\* Every instruction keeps the invariant.
LEMMA ExecuteKeeps ==
    ASSUME IInv, DepthInv, UnitsBalanced(module), HaltFree, ColumnsStay, Execute
    PROVE  DepthInv'
<1>1. CASE LoadConst \/ BadConstant \/ PopOperand \/ LoadVar \/ StoreVar
             \/ Binary \/ Unary \/ GetEventField \/ NoOperation
  BY <1>1, LoadConstKeeps, BadConstantKeeps, PopOperandKeeps, LoadVarKeeps,
     StoreVarKeeps, BinaryKeeps, UnaryKeeps, GetEventFieldKeeps, NoOperationKeeps
<1>2. CASE Jump \/ Branch("JumpIfFalse", FALSE) \/ Branch("JumpIfTrue", TRUE)
  BY <1>2, JumpKeeps, BranchKeeps
<1>3. CASE CallBuiltin \/ CallCount \/ CallFilter \/ CallSort \/ CallFunction
             \/ CallUndefined
  BY <1>3, CallBuiltinKeeps, CallCountKeeps, CallFilterTakesThree,
     CallSortTakesTwo, CallFunctionKeeps, CallUndefinedKeeps
<1>4. CASE Return \/ FallOffEnd
  BY <1>4, ReturnKeeps, FallOffEndKeeps
<1>5. CASE Halt
  BY <1>5, NoHalt DEF Halt
<1>6. CASE InsertTable \/ IndexGet \/ IndexAssign \/ Alert \/ PrintValue
             \/ ShowTable \/ ExportTable
  BY <1>6, InsertTableTakesRow, IndexGetKeeps, IndexAssignTakesTwo, AlertTakesAll,
     PrintValueTakesOne, ShowTableTakesNone, ExportTableTakesPath
<1>7. CASE ForInit \/ ForNextRow \/ ForNextDone
  BY <1>7, ForInitKeeps, ForNextRowKeeps, ForNextDoneKeeps
<1> QED BY <1>1, <1>2, <1>3, <1>4, <1>5, <1>6, <1>7 DEF Execute

\* What is known of every state of a run of balanced code, beside the types.
BalancedRun == CodeBalanced /\ DepthInv /\ ColumnsStay

\* It holds at the start.
LEMMA BalancedStart == ASSUME Init, CodeBalanced PROVE BalancedRun
<1>1. /\ stack = <<>> /\ frames = <<>> /\ calls = <<>> /\ status = "idle"
      /\ tables = EmptyStore(module.tables)
  BY DEF Init, Start
<1>2. DepthInv
  BY <1>1 DEF DepthInv, Matched, Bases, Promised
<1>3. ColumnsStay
  BY <1>1 DEF ColumnsStay, IsTable, Width, Exists
<1> QED BY <1>2, <1>3 DEF BalancedRun

\* Every step keeps it.
LEMMA BalancedStep == ASSUME IInv, BalancedRun, [Next]_vars PROVE BalancedRun'
<1>1. CASE UNCHANGED vars
  BY <1>1 DEF vars, BalancedRun, CodeBalanced, HaltFree, DepthInv, Matched, Bases,
              Promised, Height, ColumnsStay, Code
<1>2. CASE Next
  <2>1. UNCHANGED module
    BY <1>2, ModuleStays
  <2>2. CodeBalanced'
    BY <2>1 DEF BalancedRun, CodeBalanced, HaltFree
  <2>3. ColumnsStay'
    BY <1>2, ColumnsKept DEF BalancedRun
  <2>4. DepthInv'
    <3>1. DepthInv /\ ColumnsStay /\ HaltFree /\ UnitsBalanced(module)
      BY DEF BalancedRun, CodeBalanced
    <3>2. CASE Terminated
      BY <3>1, <3>2 DEF Terminated, vars, DepthInv, Matched, Bases, Promised,
                        Height, Code
    <3> QED BY <1>2, <3>1, <3>2, HostKeeps, ExecuteKeeps DEF Next
  <2> QED BY <2>2, <2>3, <2>4 DEF BalancedRun
<1> QED BY <1>1, <1>2

\* The operands of each activation are its own, and the next instruction finds what it
\* takes among them.
LEMMA OwnOperands == ASSUME IInv, BalancedRun PROVE OperandsStayOwn
<1>1. DepthInv /\ UnitsBalanced(module)
  BY DEF BalancedRun, CodeBalanced
<1>2. \A i \in DOMAIN calls : calls[i].base <= Len(stack)
  BY <1>1 DEF DepthInv, Bases
<1>3. ASSUME status = "running", calls # <<>>, ~AtEnd
      PROVE  LET own == Len(stack) - calls[Len(calls)].base
             IN  /\ Takes(module, Instr) <= own
                 /\ Instr.op = "Return" /\ Running.kind = "function" => own >= 1
  <2>1. Executing(Instr.op)
    BY <1>3 DEF Executing
  <2> DEFINE depth == Depths(module, Code(Running))[Frame.ip]
  <2>2. /\ depth \in Nat /\ Takes(module, Instr) \in 0..depth
        /\ Len(stack) \in Nat /\ calls[Len(calls)].base \in Nat
        /\ calls[Len(calls)].base + depth <= Len(stack)
        /\ Instr.op = "Return" /\ Running.kind = "function" => depth >= 1
    BY <1>1, <2>1, FindsOperands
  <2> HIDE DEF depth
  <2> QED BY <2>2
<1> QED BY <1>2, <1>3 DEF OperandsStayOwn

\* Whatever module with balanced code is loaded and whatever the input, no activation
\* consumes operands that were on the stack when it began: pop (vm.rs:565), which takes
\* whatever is on top, never takes what a caller still needs, within an instruction
\* either.
THEOREM OperandsAlwaysOwn == Spec /\ CodeBalanced => []OperandsStayOwn
<1>1. Init /\ CodeBalanced => BalancedRun
  BY BalancedStart
<1>2. IInv /\ BalancedRun /\ [Next]_vars => BalancedRun'
  BY BalancedStep
<1>3. IInv /\ BalancedRun => OperandsStayOwn
  BY OwnOperands
<1> QED BY <1>1, <1>2, <1>3, TypesAlways, PTL DEF Spec
=============================================================================
