------------------------------ MODULE MCInput -------------------------------
(***************************************************************************)
(* What comes in, checked in one run: frames and their decoding, packet    *)
(* filters, time stamps and hashed texts.  The four share no state: one of *)
(* them, the part, takes its steps while the others stay as they start.    *)
(***************************************************************************)
EXTENDS Capture, PacketFilter, Calendar, Sha256Stream

VARIABLES
    part,         \* "capture", "filter", "time" or "hash"
    expression    \* a filter expression

inputs == <<part, expression, pvars, cvars, vars>>
-----------------------------------------------------------------------------
(* Packets: with and without a VLAN tag and options, of two DNS messages   *)
(* and five HTTP requests (with no header, with both, with a repeated one  *)
(* and one after the empty line, and with a body that is no text).         *)

Letters == <<97, 98>>
Name == <<Letters, <<120>>>>
Get == <<71, 69, 84>>
Uri == <<47>> \o Letters
HostName == <<72>> \o Tail(Host)
AgentName == <<85, 115, 101, 114, 45, 65, 103, 101, 110, 116>>
Site == <<115, 46, 120>>

Questions == {Question(Name, 1, FALSE), Question(Name, 65, TRUE),
              Question(<<Letters>>, 28, FALSE)}
Requests == {
    Request(Get, Uri, <<>>, <<>>),
    Request(Get, Uri, <<<<HostName, Site>>, <<AgentName, Uri>>>>, <<>>),
    Request(Get, Uri, <<<<AgentName, Uri>>, <<Host, Site \o <<COLON, 56>>>>>>,
            Host \o <<COLON, 65, CR, LF>>),
    Request(Get, Site, <<<<Uri, Site>>, <<HostName, Uri>>>>, <<65, CR, LF, 66>>),
    Request(Get, Uri, <<<<HostName, Site>>>>, <<65, 200>>)}

MCPackets ==
    {Packet(vlan, words, 17, ports, m) :
        vlan \in BOOLEAN, words \in 0..2, m \in Questions,
        ports \in {<<4000, 53>>, <<53, 4000>>}}
    \cup {Packet(vlan, words, 6, ports, m) :
        vlan \in BOOLEAN, words \in 0..2, m \in Requests,
        ports \in {<<4000, 80>>, <<53, 8080>>}}
    \cup {Packet(FALSE, 1, proto, <<4000, 80>>, Data(Zeros(24))) :
        proto \in {1, 6, 17}}
MCProbes == {53, 80, 8080, 4000}

OverTcp == {Packet(FALSE, 0, 6, <<4000, 53>>, Question(Name, 1, FALSE))}
-----------------------------------------------------------------------------
(* Filters: all expressions of two levels over four predicates, and the    *)
(* negations of those.                                                     *)

Predicates == {Proto("tcp"), Port(53), Address("src", Source), Length("<=", 60)}
Deeper(es) == es \cup {Not(e) : e \in es}
                 \cup {And(l, r) : l \in es, r \in es}
                 \cup {Or(l, r) : l \in es, r \in es}
MCExpressions == Deeper(Deeper(Predicates))

\* Those the frames are filtered by.
ProbeFilters ==
    UNION {{Proto("tcp"), Port(p), Not(Port(p)), And(Proto("tcp"), Port(p))} :
              p \in MCProbes}
ProbeHeight == [e \in ProbeFilters |-> IF e.kind \in {"not", "and"} THEN 1 ELSE 0]
-----------------------------------------------------------------------------
\* Every number of bytes up to some more than two blocks.
MCChunks == {[i \in 1..n |-> 1 + (i % 3)] : n \in 0..MaxBytes}
MCSeconds == {0, 59, 60, 3599, 3600, 43200, 86399}
-----------------------------------------------------------------------------
Some(S) == CHOOSE x \in S : TRUE

InputInit ==
    /\ part \in {"capture", "filter", "time", "hash"}
    /\ sent \in (IF part = "capture" THEN Packets ELSE {Some(Packets)})
    /\ frame = IF part = "capture" THEN FrameOctets(sent) ELSE <<>>
    /\ decoded = Events(frame, <<>>)
    /\ expression \in (IF part = "filter" THEN MCExpressions ELSE Predicates)
    /\ part # "filter" => expression = Some(Predicates)
    /\ CalendarInit
    /\ Init

InputNext ==
    \/ part = "capture" /\ CutOff /\ UNCHANGED <<part, expression, cvars, vars>>
    \/ part = "time" /\ TurnPage /\ UNCHANGED <<part, expression, pvars, vars>>
    \/ part = "hash" /\ Next /\ UNCHANGED <<part, expression, pvars, cvars>>

InputSpec == InputInit /\ [][InputNext]_inputs

\* The grammar in the head of src/filter.rs, for every expression of the run.
FilterReadsBack == ReadsBack(expression)
=============================================================================
