# TraceScript in TLA+

TraceScript is a small language for packet captures and logs: a script declares
tables, functions, a handler per kind of event and an `after finish` handler; the
program reads a pcap, JSONL or CSV file, turns it into events and runs the handlers.
A script runs in one of two modes, a tree-walking interpreter (`run`) and a bytecode
virtual machine (`run --vm`, or `compile` and then `vm`). `docs/language_spec.md`
says the two are kept in sync, and `tests/vm_integration.rs` that their observable
behaviour is identical.

This directory models the program from the text of a script and the bytes of a capture
to what a session of commands leaves behind: lexer, parser and semantic analyser, the
values and tables both modes share, the compiler, the virtual machine one instruction
at a time, the interpreter one event at a time, the statement that the first implements
the second, the packet decoder and filter, the REPL, SHA-256 over a stream, and around
them the commands that read the input, dispatch it and keep the alert log. TLC checks
it on families of scripts, texts, packets, hand-made bytecode and sessions of commands;
TLAPS proves the machine's own invariants for every module it may load, and those of the
stacks its activations share, operands and iterators, for every module whose code keeps
its part; for sessions of
any length that events are dispatched in order, that an extracted subset stands for its
capture and that the alert log tells what the runs came to; that dates are those of the
calendar; and that the streaming hash implements the hash of the whole message for every
block size.

All paths below are relative to the repository root; `src/` is its Rust crate.

## 1. The system: inventory

One process, one thread. Nothing runs concurrently, nothing is persisted between
runs but the files a script exports, the alert log and compiled modules. What makes
the program hard is elsewhere: state shared by activations that should be separate
(one operand stack, one iterator stack), two implementations of one language,
order-dependent effects with an error in the middle, and arithmetic on data from
untrusted files.

| Component | Source | State | Operations |
|---|---|---|---|
| Virtual machine | `src/bytecode/vm.rs`, `opcode.rs` | tables, alerts, operand stack, frames, iterators, native activations | `dispatch_event`, `run_finish`, 37 opcodes |
| Compiler | `src/bytecode/codegen.rs` | constant pool; code and locals of the unit | one case per statement and expression form |
| Interpreter | `src/interp/mod.rs` | tables, alerts, locals | `dispatch_event`, `run_finish`, `eval_repl_block` |
| Values, built-ins | `src/interp/value.rs`, `builtins.rs` | none | display, truth, operators, `try_call` |
| Table store, host functions | `src/tables.rs`, `src/host.rs` | rows per table | `create`, `insert`, `show`, `export`; `count`, `filter`, `sort`; cell assignment |
| Source readers, run driver | `src/runtime.rs` | position in the file | `run_pcap…`, `run_jsonl`, `run_csv`, `run_script…`, `extract_matching_frames` |
| Packet decoder | `src/runtime.rs` | none | `decode_frame`, TCP, UDP, DNS, HTTP |
| Packet filter | `src/filter.rs` | none (a parsed tree) | `parse`, `matches` |
| Semantic analyser | `src/sema.rs` | symbol table, errors so far | declarations, then bodies |
| Lexer, parser | `src/lexer.rs`, `src/parser.rs` | position | tokens; syntax tree |
| Command line, REPL | `src/cli.rs`, `src/main.rs` | REPL: the environment between lines | `lex`, `parse`, `check`, `run`, `compile`, `vm`, `repl`, `extract` |
| SHA-256 | `src/sha256.rs` | digest state, buffer, bit count | `update`, `finalize` |
| Timestamps | `src/runtime.rs` 595-620 | none | `format_ts`, `days_to_ymd` |
| Module files | `src/bytecode/opcode.rs` | none | `save`, `load` |

**How they interact.** By calls only. The command line parses and analyses the
script, makes one interpreter or one VM (an `EventSink`), and hands it to the run
driver, which calls `dispatch_event` once per decoded event in file order and returns
at the first error; then the command line calls `run_finish` once and writes the alert
log. The interpreter and the VM each own a table store and change it through the same
functions. The VM knows scripts only as modules, which may come from the compiler or
from a `.traceb` file that nobody verified.

**What is hard, and what makes each part correct.**

* *Virtual machine.* `run_until_return` is called recursively; it executes the code it
  was passed at the ip of whatever frame is on top of a separate stack; `Return`
  pops that stack and the host pops it again; all activations share the operand
  stack, all loops the iterator stack, and both survive an event. Correct: frames and
  activations stay matched, an activation consumes only operands of its own, a loop
  gets the rows of its own snapshot, a local that is read is there, a failed
  instruction changes nothing the user sees but the file it was exporting, handlers
  return.
* *Compiler.* Jump targets patched after the fact, constants interned, locals
  allocated on first store. Correct: the compiled script behaves as the tree does.
* *Interpreter.* Effects in evaluation order, `return` as an error that must be
  caught exactly at function boundaries. It is the reference the VM must implement.
* *Tables.* Every row as long as its header (cells are indexed by column number);
  `filter` and `sort` select or permute; failure leaves the store alone. An export
  truncates its file before it writes, so one that fails half-way is seen, and must be
  reported.
* *Run driver and readers.* An error skips the finish handlers and the alert log;
  JSONL and CSV ignore the filters; `extract` chooses frames by a test of its own;
  the log is appended to by one command after another. Correct: events once each, in
  order; a subset that stands for its capture; a log that tells what runs came to.
* *Decoder and filter.* Lengths and pointers read from packets decide where the next
  field starts; a capture may cut a frame at any byte; the ports a filter sees are
  decoded apart from those the events tell. Correct: the events are those of the packet
  that was sent; a frame cut short loses events and gains none; a filter sees
  what the events tell.
* *Lexer, parser, analyser.* Nothing separates statements, and a mistake in one of six
  levels of operators regroups every longer expression. The analyser follows branches
  with scopes the interpreter does not have. Correct: what is written is read back; a
  script that was accepted does not fail for a name or an arity.
* *SHA-256, time stamps.* Block edges, wrapping counters, leap years.
* *REPL.* The environment is taken over only when a line succeeds.

`PROJECT.json` lists every component with what is modelled of it, and every hazard
at its line with the properties that cover it.

## 2. The modules

```
Values --> Builtins --> Tables --> VM -----+--> Parity --> MCParity
   |                       |               |       ^
   |                       +--> Interp - - | - - - + (INSTANCE)
   |                       +--> Sema       |
   +--> Codegen ---------------------------+--> MCVM        Scripts --> MC*
   +--> Lexer --+
Descent --> Parser --> Writing --> Repl (Interp, Sema) --> Frontend --> MCFrontend
   +------> PacketFilter -------------------------+
FilterTree -+                                     |
   +--> Decode --> Capture -----------------------+
Calendar -----------------------------------------+--> MCInput
Sha256Stream (INSTANCE Sha256Message) ------------+
VMProofs --> OperandsProofs --> LoopsProofs               (about Values .. VM)
VM --> Operands --> Nesting --> LoopsProofs, MCParity
Sha256Proofs                                              (about Sha256Stream)
Pipeline --> MCPipeline
Pipeline --> PipelineProofs
Calendar --> CalendarProofs
Capture --> CaptureProofs
Lexer --> LexerProofs
```

| Module | Models | Correspondence |
|---|---|---|
| `Values` | `value.rs`, `error.rs`, the operators in `vm.rs` | A value is `<<type, payload>>`; an operation returns an outcome: `ok`, `err` (a `TraceError`) or `panic`. Text is a sequence of tokens. i64 wraps at `MaxInt`, as the release profile does; `/` and `%` keep their checks. |
| `Builtins` | `builtins.rs` | `Builtin(name, args)` is `try_call`: argument count, then types, then the result. `Arity` is the number of operands the VM takes. |
| `Tables` | `tables.rs`, `host.rs` | A store is a function from names to columns and rows; one operator per operation, with the conditions under which the code refuses it. `filter` and `sort` are described by the row numbers they select, not by an algorithm. |
| `VM` | `vm.rs`, the driver of `cli.rs` | One action per opcode, plus `DispatchEvent`, `RunFinish` and `HostResumes` for the host side. |
| `Operands` | — | What can be told of the operand stack from a module alone: what each opcode takes, where it goes on, and whether enough operands are there on every path (`CodeBalanced`). |
| `Nesting` | — | The same for loops: which are open at each place in a unit, which tables a call may loop over, and whether none takes the rows of another (`LoopsNested`). |
| `Codegen` | `codegen.rs` | `Compile(program)` returns the module, constant numbers, local slots and jump targets included. |
| `Interp` | `interp/mod.rs` | `Eval` and `Exec` walk the tree and carry the tables, alerts, output and the way evaluation ended. One event, or the finish handlers, is one step: `Dispatch`, `RunFinish`. |
| `Parity` | `run` against `run --vm` | Runs the VM on `Compile(program)`; the refinement mapping gives the interpreter what the VM showed when it was last at rest. |
| `Pipeline` | `cli.rs` (`run`, `vm`, `extract`), the readers of `runtime.rs` | A session of commands over the files they leave each other. One action per record read, event dispatched, frame copied or log line written, and one per way a command stops. |
| `Lexer` | `lexer.rs` | One action per token: `NextToken` skips blanks and comments and consumes what `next_token` consumes, counting lines and columns as `advance` does. |
| `Descent` | the helpers of both parsers | The outcome of a parse (tree and rest, or `Malformed`), lists and chains of operators. |
| `Parser` | `parser.rs` | One operator per grammar rule, from tokens to the trees `Interp` and `Codegen` read. |
| `Writing` | `docs/language_spec.md` 3-8 | The grammar the other way: a tree as tokens with the fewest brackets, tokens as characters with a gap between them. It is what the parser is held against. |
| `Sema` | `sema.rs` | The symbol table, the scopes of bodies and branches, arities; `Accepted(decls)`. |
| `Repl` | `repl_cmd` in `cli.rs`, `eval_repl_block` | `ReadLine`, `RunLine`, `Reset`, `Quit`. |
| `Frontend` | `check_cmd` and `run_cmd` up to the sink | `Lex`, `Parse`, `Check`, `Run`: each stage only if the one before found no error. |
| `FilterTree` | `filter.rs` | The tree of a filter and `Matches`, its evaluation against one packet. |
| `PacketFilter` | `filter.rs` | The parser over tokens, and the grammar of the file's head as a way of writing. |
| `Decode` | `decode_frame…` of `runtime.rs` | Octets to events, one operator per layer, with every early return. |
| `Capture` | — | A packet, its frame, and `CutOff`, which takes one octet from the end. |
| `Calendar` | `format_ts`, `days_to_ymd` | The conversion, beside a calendar that turns a page a day (`CalendarSpec`, one of the parts of `input`). |
| `Sha256Stream` | `sha256.rs` | `Update(data)` and `Finalize`, over the buffer in place; the blocks compressed stand for the state words. |
| `Sha256Message` | what `sha256.rs` promises | Feed a message, pad the whole once. `Sha256Stream` implements it. |
| `Scripts` | — | The scripts and events of the runs. |
| `MCVM`, `MCParity`, `MCPipeline`, `MCFrontend`, `MCInput` | — | Values of the constants; `MCFrontend` and `MCInput` join parts that share a run. |

**The machine's state.** `tables`, `alerts`, `stack`, `frames` and `iterators` are the
fields of `struct VM`; `out` is what was printed, shown and exported; `calls` stands
for the native stack, one entry per `run_until_return` that has not returned, with
the code it was passed; `status`, `finishing` and `events` say where the host is. Two
parts are ghosts, read by properties only: `base` in a call, the height of the operand
stack below its arguments, and `owner` in an iterator, the loop that made it.

**Steps.** Each opcode is one atomic step. That is exact: the machine has one thread,
an opcode runs to its end, and no other code sees the state in between. An instruction
whose constant is missing or no string fails before it pops (`BadConstant`); one that
finds too few operands empties the stack and fails (`Underflow`); one that fails after
popping loses what it popped. `StoreVar` reads the top of the stack and leaves it
there; `Pop` on an empty stack is no error; `LoadVar` out of range panics. All as in
the code.

**The pipeline's state.** `disk` holds what the files are, `log` the lines of the alert
log and whether the last is torn; both outlive a command. `phase`, `next`, `queue` and
`logged` are where the process is: opening, writing the output's header, reading,
running the finish handlers, logging; the record it reads next; the events of the last
one not yet dispatched; the alerts already written. `dispatched` and `history` are
ghosts. The sink is what `VM` and `Interp` promise: it raises some alerts and then
succeeds or stops the process. `run` with either sink and `vm` are one command here,
since they differ only in how the sink is made. A frame is the events it decodes to
and whether it passes the filter; an event is whether it holds the grep text. A write
may fail, half way through a frame or a log line included. An `extract` over its own
input is left out (`CommandsAssumption`).

**Texts and trees.** In `Lexer`, characters are members of a small set and a keyword is
spelled by a short stand-in, so that no text is put together letter by letter: what a
token's end depends on is only the class of the next character. `tokens`, `decls`,
`stage` are what `check_cmd` holds between its calls. `written` is a ghost: what the
source was written from. The positions of tokens are modelled in the lexer and left out
of the trees.

**The REPL's state.** `env` and `prompt` outlive a line; `body` is the parsed line while
it runs. `block`, a ghost, holds the statements of all lines since the last `:reset`
that ran to their end.

**Frames.** `Decode` reads octets by the offsets of the code. What is left out of an
event is named in its head. `sent`, a ghost, is the packet the frame was made from.

**SHA-256.** The sizes of byte, block and length field are constants: the code has 8
bits, 64 and 8 bytes. The state words are a function of the blocks compressed, so the
sequence of these stands for them; the compression function itself is not modelled.

**Abstractions.** Text inside the interpreter and VM is built of tokens that stand for
words; the built-ins and `contains` work on tokens. Integers are 8 bits wide in the runs
(`MaxInt = 127`), which moves the edges of i64 without changing them; the proofs hold
for every `MaxInt`. Left out: floats (their display and NaN; the lexer does read them),
`lower`, `upper`, `trim` and `hash_sha256` (one string to another, the path of
`to_string`), the entry code stream with `VM::run` (nothing calls it), the layout of
printed tables and the encoding of exported files. The clock reads the same at each
`now()`; no run compares two readings. An export fails before anything is changed, at a
path in `UnwritablePaths`; or it writes the file; or it runs out of room on the way, at a
path in `Room`, and the file is left with what was written of it, entered in `out` as
`cut`. How much room a path has is a constant, so that both modes meet the same disk;
what has been written is counted in rows, whole ones. All parse errors
are one, `Malformed`: each is the last thing the parser does, and the words differ only.

## 3. The runs

| Run | Specification | Checks | States |
|---|---|---|---|
| `machine` | `Spec` of `VM`, compiled scripts and raw bytecode | `TypeOK`, `ActiveFrame`, `FramesMatchCalls`, `RowsFit`, `RecordKept` | 143 492 |
| `parity` | `PFairSpec` of `Parity`, compiled scripts | `ImplementsInterpreter`, `LoopYieldsOwnRows`, `LocalsAreThere`, `OperandsStayOwn`, `BalancedWhenLoaded`, `NestedWhenLoaded`, `HandlersReturn` | 113 293 |
| `session` | `FairSpec` of `Pipeline` | `TypeOK`, `EventsInOrder`, `ExtractFeedsRun`, `LogTellsRuns`, `CommandsEnd` | 686 370 |
| `frontend` | `MCSpec` of `MCFrontend` | `PositionsAreTrue`, `TextReadsBack`, `ScriptReadsBack`, `AcceptedScriptsRun`, `BindingsAreOfOneScript` | 136 406 |
| `input` | `InputSpec` of `MCInput` | `EventsTellThePacket`, `CutsOnlyLose`, `FilterSeesTheEvents`, `FilterReadsBack`, `TimestampsAreDates`, `BufferHasRoom`, `HashesTheWhole` | 69 676 |
| `pending`, `nested`, `cells` | `PFairSpec` of `Parity` | `ImplementsInterpreter`, violated | |
| `endless` | `PFairSpec` of `Parity` | `OutputForetold`, violated | |
| `panic` | `FairSpec` of `VM` | `NoPanic`, violated | |
| `grep` | `FairSpec` of `Pipeline` | `GrepNarrows`, violated | |
| `dnstcp` | `InputSpec` | `DnsOverTcpIsSeen`, violated | |

* **machine** asks whether the VM keeps its own state consistent on *any* module: the
  444 compiled scripts and 34 pieces of bytecode no compiler emits (underflows, missing
  constants, wrong names, `Halt` in a function, a `Pop` too many, a jump past the end,
  a failing cell assignment). `RecordKept` includes what an instruction that fails may
  have changed: no table and no alert, and of the output only the file of an export
  that ran out of room, which then holds the first rows of its table; such a file never
  goes unreported. `FramesMatchCalls` is about code without `Halt`, which
  the compiler never emits in a handler or function.
* **parity** asks what only compiled code can promise, and whether the two modes agree:
  a loop is fed by the snapshot its own `ForInit` took, no activation eats operands from
  below its own, because the compiler emits code that has its operands on every path
  (`BalancedWhenLoaded`: a fact about the module, which never changes, so it is looked
  at where a run begins; all 700 scripts of the grammar satisfy it, agreeable or not) and
  keeps the loops it opens apart (`NestedWhenLoaded`: those of the violations `nested`
  and `endless` do not); a local that is read is there, whichever branches were taken,
  although `LoadVar` does not look (`LocalsAreThere`); every handler comes back to the
  host, if its module has nothing to go round in but nested loops (`BoundToEnd`: all 551
  have; a recursive function need not end, nor need the caller's loop of `endless`);
  every step of the VM between two
  points of rest is a stutter of the interpreter, and what is visible at rest is what
  the interpreter's one step produces: tables, alerts, output, and whether the run
  failed.
* **session** asks what survives damaged input, failing writes and one command after
  another: the sink gets the selected events once each and in order and the finish
  handlers only after the last; after a successful `extract`, a run over the subset is
  fed what the run over the whole capture would be, although the two choose frames by
  different tests; the log holds all alerts of a run that ended with 0, the first ones
  of a run whose log writing failed, and none of a run that failed before, however many
  it had raised; a torn line is continued by the next run's first alert, and that is
  the only way two alerts come to share a line.
* **frontend** asks whether a script means what was written: lines and columns are those
  of the characters passed; tokens written with any gap, or none where none is needed,
  are read back; so are trees written with the fewest brackets; a script the analyser
  accepts runs two events and the finish handlers without a name failing, although the
  analyser follows each branch with locals of its own and the interpreter does not; and
  what a REPL session has bound is what one script of its successful lines would have
  bound, across lines that fail half way, resets and lines that are refused.
* **input** asks whether packets, filters, dates and hashed texts are understood: a whole
  packet gives the events that were sent, behind any tag and options; cutting an octet
  off gives no event with another name, address, port, query or method, only fewer and
  shorter ones, but that a request may appear where the octet cut off is none of a text
  (the decoder takes no request from octets that are not UTF-8); the ports a filter sees
  are the ones the events tell; a filter written by its grammar is read back; every day
  has the date a calendar shows; any way of cutting a text into calls of `update`
  compresses the blocks of the padded whole.
* **The violations** are known differences, each the shortest statement of one
  mechanism (section 5). `endless` needs a property of its own: the refinement compares
  the modes at rest, and there the VM never comes to rest. `OutputForetold` says that
  meanwhile it has raised and put out nothing but what the interpreter does.

**Bounds and why they are enough.** Inputs hold at most two events (`MaxEvents`): the
second one sees whatever operands and iterators the first has left behind, which is
the only way one event influences another besides the tables. `machine` draws from
three events, one of them without a handler and one without the field the script may
read. The scripts are all combinations of five bodies of `f`, two of `g`, five first
and seven second statements and two finish handlers, 700 in all, chosen so that
functions insert, store, loop and return early, are called from operands, statements,
loops and each other, and that loops insert into the tables they walk; 444 of them
satisfy `Agreeable`. `parity` adds 107 scripts in which three of eight statements bind,
use or assign locals, in some branches only or in a loop, after an insert and before a
call: all those of 512 that the analyser accepts. Tables hold up to four rows, so loops run zero, one and several
times, and one of the paths exported to has room for the header and one row. Between them the runs take every action of every module.
Sessions have two commands (`MaxCommands`): the files pass from one command
to the next and to nobody else, so two are enough for a log to be continued, a subset
to be overwritten or left alone. Captures have up to two frames out of five kinds (two
events, one, none, one the filter drops, a damaged one), and an event raises at most
one alert (`MaxRaised`), so a run raises up to five.

Of texts, `frontend` takes every sequence of three out of seventeen tokens, one of each
class with its awkward neighbours (a keyword and a name that starts with it, texts with
quotes and escapes, numbers before points), with each of four gaps: a token's end depends
on the next character, and its start on nothing. Of trees it takes every expression of
two levels of operators with a closer one below, a third unary, call or field around
(up to three binary operators, one of each level); all pairs of thirteen statements,
one of each form, in both orders, since nothing separates them; all pairs of eight
declarations. For the analyser it takes handlers of three out of fourteen statements
that bind, assign, shadow or misuse a name, so that a name is bound in one statement,
hidden in a branch of another and used in the third, and pairs of a finish handler with
an event handler, which share the table. The REPL takes thirteen typed lines, in any
order, until four statements have run since the last reset (`MaxBlock`): enough for a
binding to be made, replaced, used and survive a failure.

`input` cuts the frames of every layout (tag or none, no to two words of options, UDP,
TCP or another protocol, three DNS and five HTTP messages) at every octet, none with
padding behind the packet or with a label of more than a few octets (`CutsOnlyLose` and
`FilterSeesTheEvents` are proved for frames of any octets, these included); the filters
are all of two levels over four kinds of predicate, with negations; the days are all of
1970 to 2106, which is what 32 bits of seconds hold; the hash has bytes of two bits,
blocks of six bytes and a length of two, and is fed up to thirteen bytes, so that every
position relative to two blocks' edges is met and the counter, of four bits, wraps.

**`Agreeable`** is the condition under which the modes agree, stated on the tree: no
function that stores a local is called while an operand waits (`NothingPending`), no
loop runs inside another over the same table (`TablesApart`), no function called
from a loop returns from within a loop of its own (`LoopsCompleted`), and the row of a
cell assignment is written as a number (`RowsNumbered`). Each is necessary, as the runs
`pending`, `nested`, `endless` and `cells` show, and on the grammar they together suffice.

**Fairness.** `FairSpec` assumes weak fairness of `HostResumes \/ Execute`: once a
handler is running, the one thread keeps executing instructions, and nothing it
executes waits. Nothing is assumed of the input: the next event may never come. That
of `Pipeline` says the same of a process that has been started, `WF_vars(Work)`; it
includes that the sink returns, which `HandlersReturn` is about. The
parity violations are checked under the same fairness, so that no counterexample is a
machine that merely stopped. `frontend` and `input` check safety alone: each of their
steps is a call that has returned, and their ends are not waited for.

**Deadlock** is checked in `machine`, `parity` and `session`; a run that is over stutters
by `Terminated`. `frontend` and `input` stop where a text, a frame, the days or the
session is used up, and say so with `CHECK_DEADLOCK FALSE`.

**Mutants.** For each property `PROJECT.json` names a plausible bug, written beside the
definition it would replace: `Return` that leaves its frame or drops its result,
a loop that goes back to itself when it is exhausted, an insert of too few operands or into
a table that is not there, an export without its flush, a missing jump after a `then`
branch, a loop that jumps past its own exit, a
reader that does not wait for the sink, an `extract` that does not grep, a log opened
for writing instead of appending, a token that starts before the blanks, a number that
takes any point, a binary operator that groups to the right, locals that leak out of a
branch, a failed line that binds, an IP header of fixed length, a query type made up where
the frame has ended, a filter that reads ports no header holds, a century rule forgotten, a buffer that
stays full, a padding thought to fit.

## 4. The proofs

| Theorem | Says |
|---|---|
| `VMProofs!TypesHold` | `Spec => []TypeOK` |
| `VMProofs!FramesAreThere` | `Spec => []ActiveFrame` |
| `VMProofs!FramesAlwaysMatch` | `Spec => []FramesMatchCalls` |
| `VMProofs!RowsAlwaysFit` | `Spec => []RowsFit` |
| `VMProofs!RecordAlwaysKept` | `Spec => RecordKept` |
| `OperandsProofs!OperandsAlwaysOwn` | `Spec /\ CodeBalanced => []OperandsStayOwn` |
| `LoopsProofs!LoopsAlwaysOwn` | `Spec /\ LoopsNested => []LoopYieldsOwnRows` |
| `PipelineProofs!TypesHold` | `Spec => []TypeOK` |
| `PipelineProofs!AlwaysInOrder` | `Spec => []EventsInOrder` |
| `PipelineProofs!ExtractsAlwaysFeed` | `Spec => []ExtractFeedsRun` |
| `PipelineProofs!LogAlwaysTells` | `Spec => []LogTellsRuns` |
| `LexerProofs!PositionsAlwaysTrue` | `LexerSpec => []PositionsAreTrue` |
| `CaptureProofs!CutsAlwaysLose` | `CaptureSpec => CutsOnlyLose` |
| `CaptureProofs!FilterAlwaysSees` | `CaptureSpec => []FilterSeesTheEvents` |
| `CalendarProofs!TimestampsAlwaysDates` | `CalendarSpec => []TimestampsAreDates` |
| `Sha256Proofs!BufferAlwaysHasRoom` | `Spec => []BufferHasRoom` |
| `Sha256Proofs!AlwaysHashesTheWhole` | `Spec => HashesTheWhole` |

Each `Spec` is that of the module the proofs are about, and the constants are arbitrary
but for the assumptions stated with them, each of which TLC evaluates in the runs that
use the module:

* the machine: every set of modules that satisfy `ModulesAssumption` (well-formed
  records; table names distinct, which `VM::new` checks), every set of events
  (`EventsAssumption`), every `MaxInt`, alphabet and bound (`AlphabetAssumption`, the
  tokens display uses are in the alphabet; `FieldNamesAssumption`, an event has finitely
  many fields; `MaxIntAssumption`, `NowAssumption`, `MaxEventsAssumption`);
* the pipeline: every set of files, of contents, of commands that satisfy
  `PathsAssumption` and `CommandsAssumption`, and every bound (`BoundsAssumption`), so
  sessions, captures and alert lists of any length;
* the decoder: every set of packets whose frames are octets (`PacketsAssumption`), so
  frames of any length with any content, and every set of filter trees of finite height
  (`ExpressionsAssumption`) that holds the filters the property asks about
  (`ProbesAssumption`);
* the lexer: every sequence of characters, every table of keywords, every set of letters
  (`CharactersAssumption`: what stands for the end of a text is no character);
* the calendar: every day from 1970-01-01 on and every second of a day
  (`SecondsAssumption`). The run looks at the days of 32 bits of seconds, the theorem
  at all that follow;
* the hash: every `Bits`, `Block`, `Field` and set of chunks that satisfy
  `SizesAssumption` (a byte has a bit, the length field is shorter than a block) and
  `ChunksAssumption`: the sizes of the code among them.

**The machine.** `TypeOK` is not inductive: an instruction reads `frames.last()`
without looking whether there is one, so what it reads has a type only if `ActiveFrame`
holds; and `ActiveFrame` needs the types. The inductive invariant is their conjunction,
`IInv`; both parts are invariants of the run `machine`. `VMProofs` proves one lemma per
action, from lemmas about the parts actions are made of (`StepType`, `OperandTypes`,
`ComputeType`, `EnterType` …). These rest on the lemmas about values the module begins with: every operator has an
outcome on any operands the bytecode may supply, with integers in range. The least obvious of these are truncating division (`QuotientType`: in range but
for the one case that panics) and the text of a row, whose recursive definition is
shown to exist and to be a text (`ConcatenationExists`, `ConcatenationType`, by an
induction on sets, `SetInduction`, because the library's induction rules need a
predicate parameter).

The other properties are inductive relative to `IInv`: for each the module shows which actions
can disturb each and why they do not. `FramesMatchCalls` is where the machine is
subtle: the host pops a frame after the activation has popped its own, and the proof is
that then, without `Halt`, none is left to pop. `RecordKept` needs, of an export that
runs out of room, that what is in the file is the first rows of the table
(`ExportedFile`), and of every other instruction that fails that it has put out nothing.

`OperandsStayOwn` says that between instructions the operands never sink below the base
of the activation on top, and that an instruction about to be executed takes no more than
lie above it, so that none is taken and put back in between; a function that returns has
a result of its own. It is false of arbitrary bytecode, and no test in the VM makes it true:
the stack is one for all activations, `StoreVar` leaves on it what it stores, and nothing
records where a caller's operands end. What makes it true is the code. `Operands` reads
a module: `Depths` is, for each place in a unit, the fewest operands of its own an
activation can have there, taken over the ways that lead to it from earlier
instructions; `Balanced` verifies this against every way, those of loops included, so a
wrong guess would fail and not mislead. The hypothesis `CodeBalanced` is checked on
compiled scripts by `parity` (`BalancedWhenLoaded`); raw bytecode need not satisfy it, nor does a script that
calls `now()`, for which the compiler passes no operand (section 5).
The inductive invariant, `DepthInv`, says of every activation, not only the one on top,
that between its base and the base of its callee lies what it is promised at the place
where it will go on, the callee's result counted in (`Promised`); that bases only rise
(`Bases`); and that activations and frames match. `InsertTable` takes as many operands
as the table has columns when it runs, `Takes` as many as were declared: `ColumnsStay`
is the invariant that these are the same number. `DepthInv` and `ColumnsStay` were checked by
TLC on balanced modules, compiled and raw, before they were proved. The crucial steps are `CallFunctionKeeps`
and `ReturnKeeps`: the callee starts at the bottom of its arguments, which were its
caller's to spend, and leaves at least its result above that.

`LoopYieldsOwnRows` is false of arbitrary bytecode too, and even of compiled scripts: a loop
inside another over the same table drops the outer one's iterator, and a return out of a
loop leaves an iterator to whichever loop comes next (section 5). `Nesting` reads a module
for what keeps loops apart. `Nests` is, for each place in a unit, the loops that may be
open there, outermost first; `NestedAt` asks that no loop is opened inside one over the
same table, that a `ForNext` serves the innermost, and that where a loop is open only
functions are called that spare it (`Spares`): whatever such a call may lead to, through
other functions and recursion, closes the loops it opens (`Completes`) and opens none over
the tables being walked. A function called where no loop is open may return out of a loop, as
compiled scripts do: what it leaves behind stays on the stack, for good if nothing drops
it, and is no harm because it lies below whatever is opened later.
The inductive invariant, `LoopInv`, says how the one stack of iterators falls to the
activations: each has its share, from a mark up (`Divided`); the top of its share are the
loops that are open where it will go on, in order, owner for owner, and what is below
them is left over; and an activation called while a loop is open has left nothing, and reaches
only functions that spare the tables walked below it (`Undisturbed`). The shares are found
anew after each step, as witnesses, so that they need no variable of the model.
The crucial steps are `ForInitNests`, where the iterator that is dropped must be
one of those left over, and everything above it moves down (`KeptSuffix`, `OthersSpared`);
`CallFunctionNests`, where the callee must spare all that its callers have open
(`CallSpares`, `SparesOn`); and `LeaveNests`, where an activation that returns from inside
a loop must have been called from outside any. The hypothesis holds of the compiled
scripts of `parity`, as `NestedWhenLoaded` checks, and fails on those of `nested` and
`endless`, which is what these runs show to be necessary.

**The pipeline.** `TypeOK` is not inductive here either: what a step reads has a type
only if the process is where the step supposes it to be. The inductive invariant,
`IInv`, adds `RunOrder`, which ties the phases together: while the output is opened or its
header written nothing has been read, and only an `extract` writes one; only a `run` has
finish handlers and a log; from reading on, the source is a file that exists, the next
record is at most one past its last, and what a `run` has dispatched followed by what is
waiting in the queue is the selection of the records read so far; after the reading the
queue is empty and no record is left. `EventsInOrder` follows from it in each phase.
What the records read select is `FlattenSeq`, which the community modules define by
recursion; `PipelineProofs` proves once how it unfolds at the last element, by induction
on a set of lengths, and nothing else unfolds it.

`ExtractFeedsRun` speaks of two files, one of which is being written for many steps:
`SubsetSoFar` says that meanwhile the subset selects what the frames read so far select.
After the command the property survives because every way of writing either file is a
later entry of the history, which the property excludes; the proof needs that no other
step touches the disk.

`LogTellsRuns` needs most. The log is appended to by runs that fail half way, a line may
be torn, and what the next run appends continues it. `LogInv` says of the alerts of each
run in the history that they are its own (`AlertsOfRuns`), of each line that it holds
entries of runs so far, nonempty, and is torn only at the end and only by a run that
failed (`LogOfRuns`), and of the run that is logging that the last lines of the log end in
the alerts it has logged (`LogSoFar`). `LogTellsRuns` itself is the fourth conjunct, since
what earlier runs left must survive what later ones append: `EntryTells` shows it for a
line added or continued.

Each of these invariants was checked by TLC over the states of `session` before it was
proved. `Hits` and the lines of a run are written with `FlattenSeq` and with a set of
line numbers: the prover has no definition of `SelectSeq`.

**The lexer.** The inductive invariant is that the position of the lexer is a true one, its
line one more than the line ends before it and its column counted from the last of them
(`TruePlace`), and that the tokens read so far start at such places, at no space and no
comment. What has to be shown is that every way `next_token` takes through the text keeps
the position true. All loops of the lexer are `Walk`, a recursive function: one step after
the other until a step changes nothing. `WalkGoesOn` shows that it exists and goes on as its
steps do, for every step that leaves less of something to go, by induction on how
much is left; `WalkKeeps` that what no step ends still holds where the walk does. With
these, `AdvanceTrue` carries over from one character to words and numbers (`PastTrue`), to
spaces and comments (`SkipTrue`, where one step passes a whole comment), to texts with
line ends and escapes in them (`LexTextTrue`) and so to every token (`LexAtTrue`).

**The decoder.** The invariant is small, `Captured`: the frame is a sequence of octets,
and what was decoded is `Events` of it. All that matters is in what `Events` computes,
on any octets, so the proofs go through the decoder layer by layer.

`CutsOnlyLose` compares a frame with the frame without its last octet. For each header a
lemma says that the cut either removes the header or leaves every field where it was,
and that the payload is then the old one, without its last octet or empty already
(`IpKept`, `TcpKept`, `UdpKept`; `RestCut` is the fact about sequences). For the name in
a DNS query, `LabelsKept`: the walk along the labels, if it still reaches an end, has
read the same octets. The walk is a recursive function; that one exists at all is
`LabelsWalk`, by induction on the distance from the end, with `SetInduction` as before.
For a request, `HttpKept`: the first line differs from what it was at its end only, by
the octet lost or by a CR whose LF was cut off (`LineNear`); so its first three words
start where they did (`StartsKept`), method and URI, which others follow, are the same
(`WordKept`), and the version still begins with `HTTP/` (`LastWordKept`). Where the octet
cut off is none of a text the request may be new, and this is why the property excepts it. `KeptEach`, `KeptJoined` and `SegmentKept` put the events of the
layers together.

`FilterSeesTheEvents` relates two decodings of one packet, the one that gives the filter
its ports and the one that gives the events theirs. `HeaderSeen`, `SegmentTells` and
`PacketTells` show that an event that carries ports comes of a header that the filter
sees too. `Matches` recurs over the tree of the filter; `GoodExists` and `GoodUnique`
show that it has exactly one value on every tree, by induction on the height, and
`MatchesHolds` what it is for each kind of node.

In `Decode`, `EachWith` is written out where `@@` would do: the prover has no definition
of that.

**The calendar.** The inductive invariant is that the page shows `DaysToYmd(day)`. The
code's arithmetic counts years from March, so that a leap day ends one, in eras of 146 097
days. `YearFits` and `YearUnique` show that the three corrections of the code pick the one
year a day lies in, for each of the 400 of an era, `MonthFits` and `MonthUnique` the same
for its quotient by 153; `NextDay` then compares turning a page with the code on the
next day, within a month, at the end of a month, of a year, of an era.

**The hash.** `BufferHasRoom` alone is inductive but says nothing about the length at the
end of the padding; the inductive invariant of `Sha256Proofs` adds that the counter is
the number of bits fed, wrapped. `UpdateStep` shows, for a buffer that is filled up, one
that is not and an empty one, that what has been compressed and what is in use of the
buffer grow by exactly the data; `FinalizeStep` that the last block, or the last two, are
the end of the padded message, byte by byte. The bytes of the wrapped counter are those
of the true length (`LengthIsWhole`), which needs the law of exponents and the digits of
a remainder; the library has neither, so they are proved from division with remainder
and from counting subsets. `FS_SUBSET`, the library's fact that a set of n elements has
2^n subsets, is taken from there. The induction step is at the same time the step of
`Sha256Message`, so the refinement comes with the invariant.

**Only model-checked.** `HandlersReturn` and `CommandsEnd`, liveness properties.
`ImplementsInterpreter`, `BalancedWhenLoaded` and `NestedWhenLoaded` depend on what the
compiler emits, `ScriptReadsBack`, `AcceptedScriptsRun`, `BindingsAreOfOneScript` and
`FilterReadsBack` on what parsers and the interpreter compute, and `TextReadsBack` on how
numbers are spelled: all of these are recursive operators.
`EventsTellThePacket`, which decodes what the model itself put into a frame, is looked at
for every layout of the run and not proved.

## 5. What the code does and its documents do not say

Found while modelling; each is a run.

1. **A waiting operand is replaced** (`pending`). `StoreVar` leaves its value on the
   operand stack and `Return` takes whatever is on top, so
   `insert B(e.k, f(e.k))` inserts a leftover when `f` stores a local.
2. **A nested loop over the same table ends the outer one** (`nested`): `ForInit` drops
   the iterator by table constant.
3. **A return out of a loop leaves its iterator** (`endless`), and the caller's `ForNext`
   serves it. If no row is left the caller's loop ends early; if one is, it takes that and
   calls the function again, whose `ForInit` renews the iterator, for ever. No function is
   recursive.
4. **A cell assignment evaluates its value first** in the VM and its row first in the
   interpreter (`cells`).
5. **`%` by zero panics** in both modes (`panic`), where `/` reports an error; the
   process then exits with 101, not with the documented 2.
6. **The grep text and the filter do not reach the line readers** (`grep`): `run` and
   `vm` accept them for every source and ignore them for `.jsonl` and `.csv`.
7. **DNS over TCP is not seen** (`dnstcp`): the length in front of the message is read
   as its identifier. The specification names TCP/53.

Without a run, because no text contradicts the code, the difference lies outside the
grammar of a run, or one look at the code shows it:

* Between the modes: a missing event field is unit in the VM and an error in the
  interpreter; values of different types are ordered as equal in the VM and not at all
  in the interpreter; a table's name as an expression is a string in the VM and an error
  in the interpreter, which is how `count(t)`, as in `README.md`, works in one mode only;
  `now()` takes an
  operand in the VM, and the compiler passes none; `return` in a handler is accepted by
  the VM, and an error in the interpreter and in the language specification.
* The lexer makes no token of a line's end, so the parser's cases for one never apply: a
  bare `return` takes the next line for its value where that can start an expression.
  Semicolons are tokens that no rule accepts. The bytes of a text become characters one
  by one, so a letter beyond ASCII becomes two.
* `let` is documented as block-scoped; in the interpreter an inner `let` overwrites the
  outer variable. The analyser takes a table's or a function's name for a value, and a
  local for a function.
* The REPL refuses expressions, though its help offers `1 + 2` first (`cli.rs:384`): a typed
  line is the body of a function, and an expression is no statement. One of the lines of
  `frontend` is that sum.
* A REPL line that ends in a comment swallows the bracket the wrapping puts after it.
* Nothing uses the total length of the IP header, so the padding of a short frame counts
  as payload, and later fragments are decoded as if they began with a header. An HTTP
  request with a binary body in its first 2048 bytes is not reported, unless the frame
  is cut before the body.
* The tokenizer of filters skips what it does not know: `||` is nothing, `port -80` is
  port 80.

## 6. Plan

Done: the values, tables, compiler, both modes and their parity, with the proofs of the
machine, of its operand stack and of its loops; the pipeline of commands; the way of a script from text to run, the REPL; the
decoder, the filter, time stamps; the hash with its refinement proved; the safety of the
pipeline, the dates, the positions of tokens, and what the decoder makes of damaged frames
proved.

Left: the tokenizer of the packet filter, if a text ever says what it should refuse; and
a proof that what the compiler emits is balanced and nested, for every script, if the
provers can one day do induction over trees.

### Not modelled

Floats, argument parsing, help text, table layout, CSV and JSON encoding (external
crates), pcap framing (an external crate), the compression function of SHA-256 (pure
arithmetic on 32-bit words with test vectors of its own), module files (`save` and
`load` are one call of a library each; what `load` accepts is the raw bytecode of
`machine`), the tokenizer of filters, the `packet_id` hash, and an `extract` over its
own input, whose outcome depends on the read-ahead of an external crate.

## 7. Running it

`tlc -config MCVM_machine.cfg MCVM.tla`, and likewise for the other configurations;
`tlapm LoopsProofs.tla` and the two modules before it (`OperandsProofs`, `VMProofs`),
`tlapm PipelineProofs.tla`, `tlapm CaptureProofs.tla`, `tlapm LexerProofs.tla`,
`tlapm CalendarProofs.tla` and `tlapm Sha256Proofs.tla`. The
passing runs take about twenty seconds to two minutes each and the proofs a few minutes
from nothing.
