----------------------------- MODULE MCPipeline -----------------------------
(* The runs of Pipeline: captures of up to two frames, sessions of a few     *)
(* commands over four files.                                                 *)
EXTENDS Pipeline

CONSTANT NotThere

Capture == "capture.pcap"
Subset == "subset.pcap"
Audit == "audit.jsonl"
Sheet == "sheet.csv"
Notes == "notes.txt"
FivePaths == {Capture, Subset, Audit, Sheet, Notes}
Extensions == [p \in FivePaths |->
    CASE p \in {Capture, Subset} -> "pcap"
      [] p = Audit -> "jsonl"
      [] p = Sheet -> "csv"
      [] p = Notes -> "other"]

Hit(n) == [id |-> n, hit |-> TRUE]
Miss(n) == [id |-> n, hit |-> FALSE]
Frame(passes, events) ==
    [readable |-> TRUE, passes |-> passes, events |-> events]

\* Frames with two events, with one, and with none; a frame the filter drops.
Frames == {Frame(TRUE, <<Miss(1), Hit(2)>>), Frame(TRUE, <<Miss(3)>>),
           Frame(FALSE, <<Hit(4)>>), Frame(TRUE, <<>>), Damaged}
Captures == {[framed |-> TRUE, records |-> rs] : rs \in BoundedSeq(Frames, 2)}
              \cup {Headless}

\* Lines of a log: entries, a blank line, one that is no JSON.
Entry(e) == Frame(TRUE, <<e>>)
Lines == [framed |-> FALSE,
          records |-> <<Entry(Hit(5)), Frame(TRUE, <<>>), Entry(Miss(6))>>]
Torn == [framed |-> FALSE, records |-> <<Entry(Miss(7)), Damaged>>]

SomeDisks ==
    {[p \in FivePaths |-> CASE p = Capture -> x
                            [] p = Subset  -> NotThere
                            [] p = Audit   -> Lines
                            [] p = Sheet   -> Torn
                            [] p = Notes   -> Headless] : x \in Captures}

Run(source, filter, grep, logs) ==
    [verb |-> "run", source |-> source, output |-> NoPath, filter |-> filter,
     grep |-> grep, log |-> logs]
Extract(source, filter, grep) ==
    [verb |-> "extract", source |-> source, output |-> Subset,
     filter |-> filter, grep |-> grep, log |-> FALSE]

SomeCommands ==
    {Run(Capture, f, g, TRUE) : f \in {"none", "expr"}, g \in BOOLEAN}
      \cup {Run(Subset, "expr", TRUE, FALSE), Run(Audit, "expr", TRUE, TRUE),
            Run(Sheet, "none", FALSE, FALSE), Run(Notes, "none", FALSE, TRUE),
            Run(Capture, "malformed", FALSE, TRUE)}
      \cup {Extract(Capture, f, g) : f \in {"none", "expr"}, g \in BOOLEAN}
      \cup {Extract(Capture, "malformed", FALSE), Extract(Audit, "expr", TRUE)}
=============================================================================
