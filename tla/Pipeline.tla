------------------------------ MODULE Pipeline ------------------------------
(***************************************************************************)
(* The command line and the event readers (src/cli.rs, src/runtime.rs):    *)
(* an analyst's session of `run`, `vm` and `extract` commands, one after   *)
(* the other, over the files they leave to each other.                     *)
(*                                                                         *)
(* The sink, interpreter or VM, is what VM and Interp describe: handed an  *)
(* event it raises some alerts and then succeeds, fails or panics.  What a *)
(* frame decodes to, whether it passes the packet filter and whether an    *)
(* event holds the grep text are attributes of the frame and the event.    *)
(***************************************************************************)
EXTENDS Integers, SequencesExt

CONSTANTS
    Paths,        \* the files a command may name
    NoPath,       \* the output of a command that has none
    NoFile,       \* what is at a path where there is no file
    Extension,    \* path -> "pcap", "jsonl", "csv" or "other"
    Disks,        \* what the disk may hold before the session
    Commands,     \* the commands an analyst may give
    MaxCommands,  \* bound: number of commands in a session
    MaxRaised     \* bound: number of alerts the handlers of one event raise

VARIABLES
    disk,         \* path -> what the file holds
    log,          \* the alert log, kept from command to command
    cmd,          \* the command being executed
    phase,        \* how far it has come
    next,         \* the record of the source read next
    queue,        \* events of the last record still to be dispatched
    dispatched,   \* history: the events the sink was handed
    alerts,       \* the alerts the sink has raised
    logged,       \* how many of them are in the log
    history       \* history: how earlier commands ended

vars == <<disk, log, cmd, phase, next, queue, dispatched, alerts, logged,
          history>>
reader == <<next, queue, dispatched>>
files == <<disk, log>>

Event == [id : Nat, hit : BOOLEAN]
Record == [readable : BOOLEAN, passes : BOOLEAN, events : Seq(Event)]
Content == [framed : BOOLEAN, records : Seq(Record)]
Command == [verb : {"run", "extract"}, source : Paths,
            output : Paths \cup {NoPath}, grep : BOOLEAN, log : BOOLEAN,
            filter : {"none", "expr", "malformed"}]

ASSUME PathsAssumption ==
    /\ NoPath \notin Paths
    /\ NoFile \notin Content
    /\ Extension \in [Paths -> {"pcap", "jsonl", "csv", "other"}]
    /\ Disks \subseteq [Paths -> Content \cup {NoFile}]

\* An extract over its own input is left out: what is read after the output has
\* been truncated depends on how far the pcap library has read ahead.
ASSUME CommandsAssumption ==
    /\ Commands \subseteq Command
    /\ \A c \in Commands : /\ (c.verb = "extract") <=> (c.output \in Paths)
                           /\ c.output # c.source

ASSUME BoundsAssumption == MaxCommands \in Nat /\ MaxRaised \in Nat

\* A record at which the reader gives up: a truncated frame, a line that is no
\* JSON, a row of another length than the header.
Damaged == [readable |-> FALSE, passes |-> TRUE, events |-> <<>>]
Empty == [framed |-> TRUE, records |-> <<>>]
Headless == [framed |-> FALSE, records |-> <<>>]
-----------------------------------------------------------------------------
(* What one record comes to.                                               *)

\* The events of a frame; a frame that does not pass the filter has none.
Decoded(c, r) == IF c.filter = "expr" /\ ~r.passes THEN <<>> ELSE r.events

\* The events that hold the grep text, in their order.
Hits(es) == FlattenSeq([i \in DOMAIN es |->
                           IF es[i].hit THEN <<es[i]>> ELSE <<>>])

\* The events a record contributes to a run.  The line readers are handed
\* neither the filter nor the grep text.
Selected(c, r) ==
    CASE Extension[c.source] \in {"jsonl", "csv"} -> r.events
      [] c.grep -> Hits(Decoded(c, r))
      [] OTHER  -> Decoded(c, r)

\* Mutation of Wanted: extract filters but does not grep.
WantedUngrepped(c, r) == Decoded(c, r) # <<>>

\* Whether extract copies a frame.
Wanted(c, r) ==
    /\ Decoded(c, r) # <<>>
    /\ c.grep => Hits(Decoded(c, r)) # <<>>

Source == disk[cmd.source]
-----------------------------------------------------------------------------
Init ==
    /\ disk \in Disks
    /\ log = [lines |-> <<>>, torn |-> FALSE]
    /\ cmd \in Commands
    /\ phase = "idle"
    /\ next = 1
    /\ queue = <<>>
    /\ dispatched = <<>>
    /\ alerts = <<>>
    /\ logged = 0
    /\ history = <<>>

\* Mutation of Begin: the log writer's position is not reset.
BeginKeepsPosition(c) ==
    /\ phase = "idle"
    /\ Len(history) < MaxCommands
    /\ cmd' = c
    /\ phase' = "opening"
    /\ next' = 1
    /\ queue' = <<>>
    /\ dispatched' = <<>>
    /\ alerts' = <<>>
    /\ UNCHANGED <<files, logged, history>>

\* The analyst gives the next command.
Begin(c) ==
    /\ phase = "idle"
    /\ Len(history) < MaxCommands
    /\ cmd' = c
    /\ phase' = "opening"
    /\ next' = 1
    /\ queue' = <<>>
    /\ dispatched' = <<>>
    /\ alerts' = <<>>
    /\ logged' = 0
    /\ UNCHANGED <<files, history>>

\* The process ends: with 0, or with 2 for an error.  A panic of the sink, which
\* ends it with 101, leaves the files as an error there would.
Exit(code) ==
    /\ phase' = "idle"
    /\ history' = Append(history, [cmd |-> cmd, code |-> code, at |-> phase,
                                   alerts |-> alerts'])

\* The filter does not parse, or the extension names no reader.  Whatever else
\* stops a command before it opens its source ends it the same way.
Refuse ==
    /\ phase = "opening"
    /\ \/ cmd.filter = "malformed"
       \/ cmd.verb = "run" /\ Extension[cmd.source] = "other"
    /\ UNCHANGED <<files, cmd, reader, alerts, logged>>
    /\ Exit(2)

Accepted ==
    /\ phase = "opening"
    /\ cmd.filter # "malformed"
    /\ cmd.verb = "run" => Extension[cmd.source] # "other"

\* extract takes whatever it is given for a capture, and needs a pcap header;
\* so does run, for a .pcap.
Openable ==
    /\ Source # NoFile
    /\ cmd.verb = "extract" \/ Extension[cmd.source] = "pcap" => Source.framed

OpenFails ==
    /\ Accepted
    /\ ~Openable
    /\ UNCHANGED <<files, cmd, reader, alerts, logged>>
    /\ Exit(2)

OpenSource ==
    /\ Accepted
    /\ cmd.verb = "run"
    /\ Openable
    /\ phase' = "reading"
    /\ UNCHANGED <<files, cmd, reader, alerts, logged, history>>

\* extract truncates its output as soon as its input has a header.
CreateOutput ==
    /\ Accepted
    /\ cmd.verb = "extract"
    /\ Openable
    /\ \/ /\ disk' = [disk EXCEPT ![cmd.output] = Headless]
          /\ phase' = "heading"
          /\ UNCHANGED <<log, cmd, reader, alerts, logged, history>>
       \/ /\ UNCHANGED <<files, cmd, reader, alerts, logged>>
          /\ Exit(2)

WriteHeader ==
    /\ phase = "heading"
    /\ \/ /\ disk' = [disk EXCEPT ![cmd.output] = Empty]
          /\ phase' = "reading"
          /\ UNCHANGED <<log, cmd, reader, alerts, logged, history>>
       \/ /\ UNCHANGED <<files, cmd, reader, alerts, logged>>
          /\ Exit(2)
-----------------------------------------------------------------------------
(* Reading.                                                                *)

AtRecord ==
    /\ phase = "reading"
    /\ queue = <<>>
    /\ next <= Len(Source.records)

ReadFails ==
    /\ AtRecord
    /\ ~Source.records[next].readable
    /\ UNCHANGED <<files, cmd, reader, alerts, logged>>
    /\ Exit(2)

\* Mutation of ReadRecord: the reader does not wait for the sink.
ReadAhead ==
    /\ phase = "reading"
    /\ next <= Len(Source.records)
    /\ cmd.verb = "run"
    /\ Source.records[next].readable
    /\ queue' = Selected(cmd, Source.records[next])
    /\ next' = next + 1
    /\ UNCHANGED <<files, cmd, phase, dispatched, alerts, logged, history>>

ReadRecord ==
    /\ AtRecord
    /\ cmd.verb = "run"
    /\ Source.records[next].readable
    /\ queue' = Selected(cmd, Source.records[next])
    /\ next' = next + 1
    /\ UNCHANGED <<files, cmd, phase, dispatched, alerts, logged, history>>

\* The handlers of an event, or of the end of input, raise n more alerts.
Raise(n) ==
    alerts' = alerts \o [i \in 1..n |-> [run |-> Len(history) + 1,
                                         no  |-> Len(alerts) + i]]

\* The sink returns, or the process ends.
Dispatch(n, code) ==
    /\ phase = "reading"
    /\ queue # <<>>
    /\ dispatched' = Append(dispatched, Head(queue))
    /\ queue' = Tail(queue)
    /\ Raise(n)
    /\ UNCHANGED <<files, cmd, next, logged>>
    /\ IF code = 0 THEN UNCHANGED <<phase, history>> ELSE Exit(code)

\* Mutation of SkipFrame: the frame that is not wanted is looked at again.
SkipFrameStays ==
    /\ AtRecord
    /\ cmd.verb = "extract"
    /\ Source.records[next].readable
    /\ ~Wanted(cmd, Source.records[next])
    /\ UNCHANGED vars

SkipFrame ==
    /\ AtRecord
    /\ cmd.verb = "extract"
    /\ Source.records[next].readable
    /\ ~Wanted(cmd, Source.records[next])
    /\ next' = next + 1
    /\ UNCHANGED <<files, cmd, phase, queue, dispatched, alerts, logged,
                   history>>

Put(r) == disk' = [disk EXCEPT ![cmd.output].records = Append(@, r)]

\* A write that fails may leave the beginning of the frame.
CopyFrame ==
    /\ AtRecord
    /\ cmd.verb = "extract"
    /\ Source.records[next].readable
    /\ Wanted(cmd, Source.records[next])
    /\ \/ /\ Put(Source.records[next])
          /\ next' = next + 1
          /\ UNCHANGED <<log, cmd, phase, queue, dispatched, alerts, logged,
                         history>>
       \/ /\ disk' = disk \/ Put(Damaged)
          /\ UNCHANGED <<log, cmd, reader, alerts, logged>>
          /\ Exit(2)

EndOfInput ==
    /\ phase = "reading"
    /\ queue = <<>>
    /\ next > Len(Source.records)
    /\ UNCHANGED <<files, cmd, reader, alerts, logged>>
    /\ IF cmd.verb = "extract" THEN Exit(0)
       ELSE phase' = "finishing" /\ UNCHANGED history
-----------------------------------------------------------------------------
(* After the input.                                                        *)

Finish(n, code) ==
    /\ phase = "finishing"
    /\ Raise(n)
    /\ UNCHANGED <<files, cmd, reader, logged>>
    /\ CASE code # 0 -> Exit(code)
         [] code = 0 /\ cmd.log -> phase' = "logging" /\ UNCHANGED history
         [] OTHER -> Exit(0)

\* A line is written in pieces: behind a torn one, an entry continues it.
WithEntry(a) ==
    IF log.torn
    THEN [log.lines EXCEPT ![Len(log.lines)] = Append(@, a)]
    ELSE Append(log.lines, <<a>>)

\* Mutation of LogAlert: the log is opened for writing instead of appending.
LogAfresh ==
    /\ phase = "logging"
    /\ logged < Len(alerts)
    /\ log' = [lines |-> IF logged = 0 THEN <<<<alerts[1]>>>>
                         ELSE WithEntry(alerts[logged + 1]),
               torn |-> FALSE]
    /\ logged' = logged + 1
    /\ UNCHANGED <<disk, cmd, phase, reader, alerts, history>>

LogAlert ==
    /\ phase = "logging"
    /\ logged < Len(alerts)
    /\ log' = [lines |-> WithEntry(alerts[logged + 1]), torn |-> FALSE]
    /\ logged' = logged + 1
    /\ UNCHANGED <<disk, cmd, phase, reader, alerts, history>>

\* The log cannot be opened, or a write fails, perhaps within a line.
LogFails ==
    /\ phase = "logging"
    /\ \/ /\ logged = 0 \/ logged < Len(alerts)
          /\ log' = log
       \/ /\ logged < Len(alerts)
          /\ log' = [lines |-> WithEntry(alerts[logged + 1]), torn |-> TRUE]
    /\ UNCHANGED <<disk, cmd, reader, alerts, logged>>
    /\ Exit(2)

LogDone ==
    /\ phase = "logging"
    /\ logged = Len(alerts)
    /\ UNCHANGED <<files, cmd, reader, alerts, logged>>
    /\ Exit(0)
-----------------------------------------------------------------------------
Terminated ==
    /\ phase = "idle"
    /\ Len(history) = MaxCommands
    /\ UNCHANGED vars

\* What the one thread of a started process does.
Work ==
    \/ Refuse \/ OpenFails \/ OpenSource \/ CreateOutput \/ WriteHeader
    \/ ReadFails \/ ReadRecord \/ SkipFrame \/ CopyFrame \/ EndOfInput
    \/ \E n \in 0..MaxRaised, code \in {0, 2} :
          Dispatch(n, code) \/ Finish(n, code)
    \/ LogAlert \/ LogFails \/ LogDone

Next ==
    \/ \E c \in Commands : Begin(c)
    \/ Work
    \/ Terminated

Spec == Init /\ [][Next]_vars

\* A process that has been started keeps running; the sink returns (VM,
\* HandlersReturn).  Nobody has to start one.
FairSpec == Spec /\ WF_vars(Work)
-----------------------------------------------------------------------------
(* Properties.                                                             *)

Alert == [run : Nat, no : Nat]
Phases == {"idle", "opening", "heading", "reading", "finishing", "logging"}
Ending == [cmd : Commands, code : {0, 2}, at : Phases,
           alerts : Seq(Alert)]

\* Every variable holds what it is declared for, and a reader that has come
\* past the header has a file under it.
TypeOK ==
    /\ disk \in [Paths -> Content \cup {NoFile}]
    /\ log \in [lines : Seq(Seq(Alert)), torn : BOOLEAN]
    /\ log.torn => log.lines # <<>>
    /\ cmd \in Commands
    /\ phase \in Phases
    /\ next \in Nat \ {0}
    /\ queue \in Seq(Event)
    /\ dispatched \in Seq(Event)
    /\ alerts \in Seq(Alert)
    /\ logged \in 0..Len(alerts)
    /\ history \in Seq(Ending)
    /\ phase \in {"heading", "reading"} => Source \in Content
    /\ phase \in {"heading", "reading"} /\ cmd.verb = "extract" =>
          disk[cmd.output] \in Content

Selection(c, records) ==
    FlattenSeq([i \in DOMAIN records |-> Selected(c, records[i])])

\* The sink is handed the selected events, each once and in file order, and the
\* finish handlers run only after the last of them (runtime.rs:85-102).
EventsInOrder ==
    phase \in {"reading", "finishing", "logging"} /\ cmd.verb = "run" =>
       LET s == Selection(cmd, Source.records)
       IN  /\ IsPrefix(dispatched, s)
           /\ phase # "reading" => dispatched = s

\* The output or the input of the i-th command has been created anew since.
Overwritten(i) ==
    LET Writes(c) == /\ c.verb = "extract"
                     /\ c.output \in {history[i].cmd.output, history[i].cmd.source}
    IN  \/ Writes(cmd) /\ phase \in {"heading", "reading"}
        \/ \E j \in DOMAIN history :
              /\ j > i
              /\ Writes(history[j].cmd)
              /\ history[j].at # "opening"

\* What extract promises the evidence it preserves (runtime.rs:104-110): after a
\* successful extract, a run over the subset is fed what the same run over the
\* whole capture would be, and no frame is there for nothing; a later extract
\* that is refused leaves it alone.  extract and run choose frames separately.
\* It says nothing of a capture that run does not read as one, for its name.
ExtractFeedsRun ==
    \A i \in DOMAIN history :
       LET c == history[i].cmd
           subset == disk[c.output]
       IN  /\ c.verb = "extract"
           /\ Extension[c.source] = "pcap"
           /\ history[i].code = 0
           /\ ~Overwritten(i)
           =>
           /\ subset.framed
           /\ Selection(c, subset.records) = Selection(c, disk[c.source].records)
           /\ \A j \in DOMAIN subset.records :
                 Selected(c, subset.records[j]) # <<>>

\* The numbers of the lines that hold an alert of the n-th command.
LinesOf(n) ==
    {k \in DOMAIN log.lines :
        \E j \in DOMAIN log.lines[k] : log.lines[k][j].run = n}

\* Of the alerts of the n-th command, line l holds this one and no other.
HoldsOnly(l, n, alert) ==
    \E j \in DOMAIN l : /\ l[j] = alert
                        /\ \A i \in DOMAIN l : l[i].run = n => i = j

\* The log tells what runs came to (cli.rs:233-248, 272-290).  A run that exits
\* with 0 has all its alerts there, in order, one behind the other and for good;
\* one that stops while writing has the first of them; one that fails before has
\* none, whatever it had raised.  Each alert ends a line of its own, but for a
\* line that was torn, which the next run continues.
LogTellsRuns ==
    \A i \in DOMAIN history :
       LET ended == history[i]
           complete == ended.code = 0
       IN  \E before \in 0..Len(log.lines), n \in 0..Len(ended.alerts) :
              /\ LinesOf(i) = (before + 1)..(before + n)
              /\ complete /\ ended.cmd.verb = "run" /\ ended.cmd.log =>
                    n = Len(ended.alerts)
              /\ ~complete /\ ended.at # "logging" => n = 0
              /\ \A k \in 1..n :
                    LET l == log.lines[before + k]
                        alert == ended.alerts[k]
                    IN  /\ HoldsOnly(l, i, alert)
                        /\ k > 1 => Head(l) = alert
                        /\ complete \/ k < n => Last(l) = alert

\* Every command comes to an end: the readers and the log writer make progress.
CommandsEnd == phase # "idle" ~> phase = "idle"

\* cli.rs:81 describes --grep as "Substring filter applied to decoded event
\* fields (case-insensitive)": no event without the text reaches the sink.
GrepNarrows == cmd.grep => \A i \in DOMAIN dispatched : dispatched[i].hit
=============================================================================
